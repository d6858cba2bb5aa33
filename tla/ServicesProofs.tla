---------------------------- MODULE ServicesProofs ----------------------------
(***************************************************************************)
(* Proofs about the other parts of Services, for every value of constants. *)
(* A behaviour of Services is one of one part, which never changes: each   *)
(* part has an inductive invariant of its own, stated under the condition  *)
(* that it is the part that runs.                                          *)
(***************************************************************************)
EXTENDS ConversationProofs

-----------------------------------------------------------------------------
(* The response of a streaming request.  The handler and the heartbeat task share
   the lock; whoever leaves "flush" leaves the lock. *)

Handlers ==
  [pc : {"headers", "result", "lock", "flush", "error", "cleanup", "finish", "done"},
   event : BOOLEAN, first : BOOLEAN, left : Int, why : {"ok", "closed", "raised", "timeout"}]

\* The handler gives up for a client that left only where nothing of an event came.
HandlerInv ==
  /\ handler \in Handlers
  /\ handler.left \in 0..MaxResults
  /\ handler.why = "closed" =>
       handler.pc \in {"cleanup", "finish", "done"} /\ ~(handler.event /\ handler.first)
  /\ handler.pc = "headers" => ~handler.first /\ streamTime = 0
  /\ streamDone <=> handler.pc = "done"

\* The heartbeat lives between the headers and the cleanup.
BeatInv ==
  /\ beat \in [pc : {"none", "sleep", "lock", "flush", "done"}, wake : Int]
  /\ handler.pc = "headers" => beat.pc = "none"
  /\ handler.pc \in {"finish", "done"} => beat.pc \in {"none", "done"}

\* The lock is held exactly from a write to its flush.
LockInv ==
  /\ lock \in {"free", "handler", "beat"} /\ client \in {"open", "closed"}
  /\ lock = "handler" <=> handler.pc = "flush"
  /\ lock = "beat" <=> beat.pc = "flush"

\* The last line, or the start of the heartbeat when there was none.
LastHeard == IF lastSend = St!Long THEN 0 ELSE lastSend

\* A sleep ends no later than an interval after the last line.
TimeInv ==
  /\ streamTime \in 0..StreamMaxTime
  /\ lastSend = St!Long \/ lastSend \in 0..streamTime
  /\ beat.pc = "sleep" => streamTime <= beat.wake /\ beat.wake <= LastHeard + KeepAlive

StreamInv == HandlerInv /\ BeatInv /\ LockInv /\ TimeInv

LEMMA StreamTypes == St!StreamAssumption
BY PartsAssumption

\* Every step of the handler, of the heartbeat, of the client and of time keeps it.
LEMMA StreamStep ==
  ASSUME StreamInv, [St!Next]_(St!streamVars)
  PROVE  StreamInv'
<1>. USE StreamTypes DEF StreamInv
<1>1. CASE St!Leave \/ St!Tick
  BY <1>1 DEF St!Leave, St!Tick, HandlerInv, Handlers, BeatInv, LockInv, TimeInv,
              LastHeard, St!Long,
              St!StreamAssumption
<1>2. CASE St!FlushHeaders
  <2>1. HandlerInv'
    BY <1>2 DEF St!FlushHeaders, St!HandlerOnly, HandlerInv, Handlers
  <2>2. /\ client' = client /\ lock' = lock /\ lastSend' = lastSend /\ streamTime' = streamTime
        /\ handler.pc = "headers" /\ handler'.pc \in {"result", "cleanup"}
        /\ beat' = beat \/ beat' = [pc |-> "sleep", wake |-> streamTime + KeepAlive]
    BY <1>2 DEF St!FlushHeaders, St!HandlerOnly, HandlerInv, Handlers
  <2>3. BeatInv' /\ LockInv'
    BY <2>2 DEF HandlerInv, BeatInv, LockInv, St!StreamAssumption
  <2>4. streamTime = 0 /\ LastHeard >= 0 /\ LastHeard' = LastHeard
    BY <2>2 DEF HandlerInv, TimeInv, LastHeard, St!Long, St!StreamAssumption
  <2>5. beat'.pc = "sleep" => beat'.wake = KeepAlive
    BY <2>2, <2>4 DEF BeatInv, St!StreamAssumption
  <2>6. TimeInv'
    <3>1. streamTime' \in 0..StreamMaxTime /\ (lastSend' = St!Long \/ lastSend' \in 0..streamTime')
      BY <2>2 DEF TimeInv
    <3>2. LastHeard' \in Nat
      BY <3>1 DEF LastHeard
    <3>. QED BY <2>2, <2>4, <2>5, <3>1, <3>2 DEF TimeInv, St!StreamAssumption
  <2>. QED BY <2>1, <2>3, <2>6
<1>3. CASE St!NextResult
  <2>1. HandlerInv' /\ handler'.pc # "headers"
    <3>1. CASE handler.left > 0 /\ handler' = [handler EXCEPT !.pc = "lock", !.left = @ - 1]
      <4>1. handler' \in Handlers
        <5>1. handler \in Handlers /\ handler.left - 1 \in Int
          BY DEF HandlerInv, Handlers
        <5>. QED BY <3>1, <5>1 DEF Handlers
      <4>2. /\ handler'.pc = "lock" /\ handler'.left = handler.left - 1
            /\ handler'.why = handler.why /\ UNCHANGED streamDone /\ handler.pc = "result"
        BY <1>3, <3>1 DEF St!HandlerOnly, St!NextResult, HandlerInv, Handlers
      <4>3. handler'.left \in 0..MaxResults
        BY <3>1, <4>2 DEF HandlerInv, St!StreamAssumption
      <4>. QED BY <4>1, <4>2, <4>3 DEF HandlerInv
    <3>2. CASE handler' = [handler EXCEPT !.pc = "cleanup"]
      BY <1>3, <3>2 DEF St!HandlerOnly, St!NextResult, HandlerInv, Handlers
    <3>3. CASE handler' = [handler EXCEPT !.pc = "error", !.why = "raised"]
      BY <1>3, <3>3 DEF St!HandlerOnly, St!NextResult, HandlerInv, Handlers
    <3>. QED BY <1>3, <3>1, <3>2, <3>3 DEF St!NextResult
  <2>2. BeatInv' /\ LockInv'
    BY <1>3, <2>1 DEF St!NextResult, St!HandlerOnly, HandlerInv, Handlers, BeatInv, LockInv
  <2>3. TimeInv'
    BY <1>3 DEF St!NextResult, St!HandlerOnly, HandlerInv, Handlers, BeatInv, TimeInv,
                LastHeard, St!Long
  <2>. QED BY <2>1, <2>2, <2>3
<1>4. CASE St!WriteResult
  <2>1. HandlerInv' /\ handler'.pc # "headers"
    BY <1>4 DEF St!WriteResult, St!HandlerOnly, HandlerInv, Handlers
  <2>2. BeatInv' /\ LockInv'
    BY <1>4, <2>1 DEF St!WriteResult, St!HandlerOnly, HandlerInv, Handlers, BeatInv, LockInv
  <2>3. TimeInv'
    BY <1>4 DEF St!WriteResult, St!HandlerOnly, HandlerInv, Handlers, BeatInv, TimeInv,
                LastHeard, St!Long
  <2>. QED BY <2>1, <2>2, <2>3
<1>5. CASE St!FlushResult
  <2>1. HandlerInv' /\ handler'.pc # "headers"
    <3>1. CASE client = "open"
      BY <1>5, <3>1 DEF St!HandlerOnly, St!FlushResult, HandlerInv, Handlers
    <3>2. CASE client # "open" /\ St!IsClientCloseAProblem(handler.event, handler.first)
      BY <1>5, <3>2 DEF St!HandlerOnly, St!FlushResult, St!IsClientCloseAProblem,
                        HandlerInv, Handlers
    <3>3. CASE client # "open" /\ ~St!IsClientCloseAProblem(handler.event, handler.first)
      BY <1>5, <3>3 DEF St!HandlerOnly, St!FlushResult, HandlerInv, Handlers
    <3>. QED BY <3>1, <3>2, <3>3
  <2>2. BeatInv' /\ LockInv'
    BY <1>5, <2>1 DEF St!FlushResult, St!HandlerOnly, HandlerInv, Handlers, BeatInv, LockInv
  <2>3. beat' = beat /\ streamTime' = streamTime /\ lastSend' = streamTime
    BY <1>5 DEF St!FlushResult, St!HandlerOnly
  <2>4. LastHeard' = streamTime /\ LastHeard <= streamTime
    BY <2>3 DEF TimeInv, LastHeard, St!Long
  <2>5. TimeInv'
    BY <2>3, <2>4 DEF BeatInv, TimeInv, LastHeard, St!Long, St!StreamAssumption
  <2>. QED BY <2>1, <2>2, <2>5
<1>6. CASE St!TimeOut
  <2>1. HandlerInv' /\ handler'.pc # "headers"
    BY <1>6 DEF St!TimeOut, St!HandlerOnly, HandlerInv, Handlers
  <2>2. BeatInv' /\ LockInv'
    BY <1>6, <2>1 DEF St!TimeOut, St!HandlerOnly, HandlerInv, Handlers, BeatInv, LockInv
  <2>3. TimeInv'
    BY <1>6 DEF St!TimeOut, St!HandlerOnly, HandlerInv, Handlers, BeatInv, TimeInv,
                LastHeard, St!Long
  <2>. QED BY <2>1, <2>2, <2>3
<1>7. CASE St!WriteError
  <2>1. HandlerInv' /\ handler'.pc # "headers"
    BY <1>7 DEF St!WriteError, St!HandlerOnly, HandlerInv, Handlers
  <2>2. BeatInv' /\ LockInv'
    BY <1>7, <2>1 DEF St!WriteError, St!HandlerOnly, HandlerInv, Handlers, BeatInv, LockInv
  <2>3. TimeInv'
    BY <1>7 DEF St!WriteError, St!HandlerOnly, HandlerInv, Handlers, BeatInv, TimeInv,
                LastHeard, St!Long
  <2>. QED BY <2>1, <2>2, <2>3
<1>8. CASE St!CancelHeartbeat
  <2>1. HandlerInv' /\ handler'.pc # "headers"
    BY <1>8 DEF St!CancelHeartbeat, St!HandlerOnly, HandlerInv, Handlers
  <2>2. BeatInv' /\ LockInv'
    BY <1>8, <2>1 DEF St!CancelHeartbeat, St!HandlerOnly, HandlerInv, Handlers, BeatInv,
                      LockInv
  <2>3. TimeInv'
    BY <1>8 DEF St!CancelHeartbeat, St!HandlerOnly, HandlerInv, Handlers, BeatInv,
                TimeInv, LastHeard, St!Long
  <2>. QED BY <2>1, <2>2, <2>3
<1>9. CASE St!FinishRequest
  BY <1>9 DEF St!FinishRequest, HandlerInv, Handlers, BeatInv, LockInv, TimeInv, LastHeard
<1>10. CASE St!WakeBeat
  BY <1>10 DEF St!WakeBeat, St!SleepFor, St!BeatOnly, HandlerInv, Handlers, BeatInv,
               LockInv, TimeInv,
              LastHeard, St!Long, St!StreamAssumption
<1>11. CASE St!WriteBeat \/ St!FlushBeat
  BY <1>11 DEF St!WriteBeat, St!FlushBeat, St!BeatOnly, HandlerInv, Handlers,
               BeatInv, LockInv, TimeInv,
              LastHeard, St!Long, St!StreamAssumption
<1>12. CASE UNCHANGED St!streamVars
  BY <1>12 DEF St!streamVars, HandlerInv, Handlers, BeatInv, LockInv, TimeInv, LastHeard
<1>. QED BY <1>1, <1>2, <1>9, <1>10, <1>11, <1>12, <1>3, <1>4, <1>5, <1>6, <1>7, <1>8
            DEF St!Next, St!Handle, St!Beat

\* A new response has written nothing and holds nothing.
LEMMA StreamBegins == St!Init => StreamInv
BY StreamTypes DEF St!Init, St!StreamAssumption, StreamInv, HandlerInv, Handlers, BeatInv, LockInv,
       TimeInv, LastHeard,
       St!Long

StreamingInv == part = "streaming" => StreamInv

LEMMA StreamingAlways == Spec => []StreamingInv
<1>1. Init => StreamingInv
  BY StreamBegins DEF Init, StreamingInv
<1>2. StreamingInv /\ [Next]_ServiceVars => StreamingInv'
  <2>. SUFFICES ASSUME StreamingInv, [Next]_ServiceVars, part' = "streaming" PROVE StreamInv'
    BY DEF StreamingInv
  <2>1. StreamInv /\ [St!Next]_(St!streamVars)
    BY PartSteps DEF StreamingInv, StVars, St!streamVars
  <2>. QED BY <2>1, StreamStep
<1>. QED BY <1>1, <1>2, PTL DEF Spec

LEMMA ChatsEnd ==
  ASSUME StreamInv, St!Next PROVE St!ChatsEndWithClients
<1>. SUFFICES ASSUME handler.pc = "flush", client = "closed", ~handler.event
              PROVE  handler'.pc # "result"
  BY DEF St!ChatsEndWithClients
<1>1. handler \in Handlers
  BY DEF StreamInv, HandlerInv
<1>2. CASE St!FlushResult
  BY <1>1, <1>2 DEF Handlers, St!FlushResult, St!IsClientCloseAProblem
<1>3. CASE St!TimeOut
  BY <1>1, <1>3 DEF Handlers, St!TimeOut
<1>4. CASE handler' = handler
  BY <1>4
<1>5. St!FlushResult \/ St!TimeOut \/ handler' = handler
  BY DEF St!Next, St!Handle, St!Beat, St!Leave, St!Tick, St!FlushHeaders, St!NextResult,
         St!WriteResult, St!WriteError, St!CancelHeartbeat, St!FinishRequest, St!WakeBeat,
         St!WriteBeat, St!FlushBeat, St!BeatOnly
<1>. QED BY <1>2, <1>3, <1>4, <1>5

LEMMA StreamIsOrderly ==
  StreamInv => /\ St!TypeOK /\ St!WritersHoldTheLock /\ St!NothingWritesLater
               /\ St!NeverQuietTooLong /\ St!EventsOutliveClients
<1>. SUFFICES ASSUME StreamInv
              PROVE  /\ St!TypeOK /\ St!WritersHoldTheLock /\ St!NothingWritesLater
                     /\ St!NeverQuietTooLong /\ St!EventsOutliveClients
  OBVIOUS
<1>1. St!WritersHoldTheLock /\ St!NothingWritesLater
  BY DEF StreamInv, HandlerInv, Handlers, BeatInv, LockInv, St!WritersHoldTheLock,
         St!NothingWritesLater
<1>2. St!TypeOK
  BY DEF StreamInv, HandlerInv, Handlers, BeatInv, LockInv, St!TypeOK
<1>3. St!NeverQuietTooLong
  BY StreamTypes
  DEF StreamInv, HandlerInv, BeatInv, TimeInv, LastHeard, St!Long, St!NeverQuietTooLong,
      St!StreamAssumption
<1>4. St!EventsOutliveClients
  BY DEF StreamInv, HandlerInv, Handlers, St!EventsOutliveClients
<1>. QED BY <1>1, <1>2, <1>3, <1>4

\* While results and heartbeats are written by two tasks and the client may leave:
\* whoever writes holds the lock until the flush, a finished response leaves no task
\* and no lock behind, the client is never without a line for longer than the
\* interval although a wake-up is postponed after every write, and a client that
\* leaves ends its chat at the next flush, and never an event of which a result has
\* reached it (post(), run_heartbeat(), _is_client_close_a_problem()).
THEOREM StreamsAreOrderly == Spec => ResponsesAreOrderly
<1>. DEFINE Orderly ==
       part = "streaming" =>
         /\ (St!TypeOK)'
         /\ (St!WritersHoldTheLock)'
         /\ (St!NothingWritesLater)'
         /\ (St!NeverQuietTooLong)'
         /\ (St!EventsOutliveClients)'
         /\ St!ChatsEndWithClients
<1>1. StreamingInv /\ StreamingInv' /\ [Next]_ServiceVars => [Orderly]_StVars
  <2>. SUFFICES ASSUME StreamingInv, StreamingInv', [Next]_ServiceVars, StVars' # StVars,
                       part = "streaming"
                PROVE  Orderly
    OBVIOUS
  <2>1. StreamInv /\ StreamInv' /\ St!Next
    BY PartSteps DEF StreamingInv
  <2>2. /\ (St!TypeOK)' /\ (St!WritersHoldTheLock)' /\ (St!NothingWritesLater)'
        /\ (St!NeverQuietTooLong)' /\ (St!EventsOutliveClients)'
    BY <2>1, StreamIsOrderly, PTL
  <2>. QED BY <2>1, <2>2, ChatsEnd
<1>2. Spec => [][Orderly]_StVars
  <2>. HIDE DEF Orderly
  <2>. QED BY <1>1, StreamingAlways, PTL DEF Spec
<1>. QED BY <1>2 DEF ResponsesAreOrderly
-----------------------------------------------------------------------------
(* Periodic events: the next firing of an interaction is an instant of its
   schedule, or Never, and every instant before it was fired for or missed for one
   of the two reasons there are. *)

IsAgenda(list) ==
  /\ list = [i \in DOMAIN list |-> list[i]]
  /\ \A i \in DOMAIN list : /\ list[i] = [times |-> list[i].times, last |-> list[i].last]
                            /\ list[i].times \subseteq 0..Horizon /\ list[i].last \in Nat

\* Where the thread is; an iterator stands at the next firing it has given.
PassInv ==
  /\ config \in Configs
  /\ pass \in {"start", "begin", "fire", "sleep"}
  /\ eventTime \in 0..Horizon /\ passStart \in 0..eventTime
  /\ IsAgenda(interactions)
  /\ passes = [from |-> passes.from, at |-> passes.at] /\ passes.from \in Nat
  /\ pass = "start" => interactions = <<>> /\ fired = {}
  /\ pass = "fire" => passStart \in passes.at

\* What comes next is an instant of the schedule, and later than what was fired.
AgendaInv ==
  /\ nextFiring \in [Pe!Indices -> 0..Pe!Never]
  /\ \A i \in Pe!Indices : /\ nextFiring[i] \in interactions[i].times \cup {Pe!Never}
                           /\ interactions[i].last = nextFiring[i]
  /\ fired \subseteq Pe!Indices \X Nat \X Nat
  /\ \A f \in fired : f[2] < f[3] /\ f[2] < nextFiring[f[1]]
  /\ \A f, g \in fired : f[1] = g[1] /\ f[2] = g[2] => f = g

\* An instant of the schedule of i that was fired for, or that a pass began at.
Settled(i, t) ==
  t \in passes.at \/ \E f \in fired : f[1] = i /\ f[2] <= t /\ t <= f[3]

PastInv ==
  \A i \in Pe!Indices : \A t \in interactions[i].times :
    passes.from < t /\ t < nextFiring[i] => Settled(i, t)

AheadInv == pass = "sleep" => \A i \in Pe!Indices : nextFiring[i] > passStart

EventsInv == PassInv /\ AgendaInv /\ PastInv /\ AheadInv

LEMMA EventTypes ==
  /\ Horizon \in Nat /\ SleepPeriod \in Nat \ {0} /\ Pe!Never = Horizon + 1
  /\ \A c \in Configs : \A a \in DOMAIN c : \A k \in DOMAIN c[a] : c[a][k].times \subseteq 0..Horizon
BY PartsAssumption DEF Pe!HorizonAssumption, Pe!Never

LEMMA HorizonIsNatural == Horizon \in Nat /\ Pe!Never = Horizon + 1
BY EventTypes

\* The next instant after t: there is none before it.
LEMMA NextInstant ==
  ASSUME NEW times \in SUBSET (0..Horizon), NEW t \in Nat, t <= Horizon
  PROVE  /\ Pe!GetNext(times, t) \in times \cup {Pe!Never}
         /\ Pe!GetNext(times, t) \in 0..Pe!Never
         /\ Pe!GetNext(times, t) > t
         /\ \A u \in times : u > t => u >= Pe!GetNext(times, t)
<1>. DEFINE later == {u \in times : u > t}
<1>0. later \subseteq Nat
  <2>1. 0..Horizon \subseteq Nat
    BY HorizonIsNatural
  <2>. QED BY <2>1
<1>1. CASE later = {}
  BY <1>1, HorizonIsNatural DEF Pe!GetNext
<1>2. CASE later # {}
  <2>. DEFINE least == Pe!Min(later)
  <2>1. least \in later /\ \A u \in later : least <= u
    <3>1. \E x \in later : \A y \in later : x <= y
      <4>. HIDE DEF later
      <4>. QED BY <1>0, <1>2, LeastNatural
    <3>. HIDE DEF later
    <3>. QED BY <3>1 DEF Pe!Min
  <2>2. Pe!GetNext(times, t) = least
    BY <1>2 DEF Pe!GetNext
  <2>. HIDE DEF least
  <2>. QED BY <2>1, <2>2, HorizonIsNatural
<1>. QED BY <1>1, <1>2

LEMMA NextAhead ==
  ASSUME NEW times \in SUBSET (0..Horizon), NEW last \in Nat, NEW today \in 0..Horizon, last <= Horizon
  PROVE  /\ Pe!NextIn(times, last, today) \in times \cup {Pe!Never}
         /\ Pe!NextIn(times, last, today) \in 0..Pe!Never
         /\ Pe!NextIn(times, last, today) > today
         /\ \A u \in times : u > last /\ u > today => u >= Pe!NextIn(times, last, today)
<1>1. CASE Pe!GetNext(times, last) > today
  BY <1>1, NextInstant DEF Pe!NextIn
<1>2. CASE ~(Pe!GetNext(times, last) > today)
  BY <1>2, NextInstant DEF Pe!NextIn
<1>. QED BY <1>1, <1>2

\* A firing that is not in the future is replaced by the next that is.
LEMMA NextFirings ==
  ASSUME NEW list, IsAgenda(list), NEW firing, NEW today \in 0..Horizon, NEW i \in DOMAIN list,
         list[i].last <= today \/ (i \in DOMAIN firing /\ firing[i] > today),
         i \in DOMAIN firing => firing[i] \in (list[i].times \cup {Pe!Never})
  PROVE  LET next == Pe!UpdateNextFiring(list, firing, today)[i] IN
         /\ next \in list[i].times \cup {Pe!Never} /\ next \in 0..Pe!Never /\ next > today
         /\ i \in DOMAIN firing /\ firing[i] > today => next = firing[i]
         /\ ~(i \in DOMAIN firing /\ firing[i] > today) => \A u \in list[i].times : u > today => u >= next
<1>. DEFINE next == Pe!UpdateNextFiring(list, firing, today)[i]
<1>0. list[i].times \in SUBSET (0..Horizon) /\ list[i].last \in Nat
  BY DEF IsAgenda
<1>1. CASE i \in DOMAIN firing /\ firing[i] > today
  BY <1>0, <1>1, HorizonIsNatural DEF Pe!UpdateNextFiring
<1>2. CASE ~(i \in DOMAIN firing /\ firing[i] > today)
  <2>1. next = Pe!NextIn(list[i].times, list[i].last, today)
    BY <1>2 DEF Pe!UpdateNextFiring
  <2>2. list[i].last <= Horizon
    BY <1>0, <1>2, HorizonIsNatural
  <2>. QED BY <1>0, <1>2, <2>1, <2>2, NextAhead
<1>. QED BY <1>1, <1>2

\* The iterators after an update stand at the firings.
LEMMA AgendaAdvances ==
  ASSUME NEW list, IsAgenda(list), NEW next, \A i \in DOMAIN list : next[i] \in Nat
  PROVE  LET new == Pe!Advanced(list, next) IN
         /\ IsAgenda(new) /\ DOMAIN new = DOMAIN list
         /\ \A i \in DOMAIN list : new[i].times = list[i].times /\ new[i].last = next[i]
<1>. DEFINE new == Pe!Advanced(list, next)
<1>1. /\ new = [i \in DOMAIN list |-> new[i]] /\ DOMAIN new = DOMAIN list
      /\ \A i \in DOMAIN list : new[i] = [list[i] EXCEPT !.last = next[i]]
  BY DEF Pe!Advanced
<1>2. ASSUME NEW i \in DOMAIN list
      PROVE  /\ new[i] = [times |-> new[i].times, last |-> new[i].last]
             /\ new[i].times = list[i].times /\ new[i].last = next[i]
  <2>1. list[i] = [times |-> list[i].times, last |-> list[i].last]
    BY DEF IsAgenda
  <2>2. new[i] = [list[i] EXCEPT !.last = next[i]]
    BY <1>1
  <2>. HIDE DEF new
  <2>. QED BY <2>1, <2>2
<1>. HIDE DEF new
<1>3. IsAgenda(new)
  BY <1>1, <1>2 DEF IsAgenda
<1>4. /\ IsAgenda(new) /\ DOMAIN new = DOMAIN list
      /\ \A i \in DOMAIN list : new[i].times = list[i].times /\ new[i].last = next[i]
  BY <1>1, <1>2, <1>3
<1>. QED BY <1>4 DEF new

\* The thread starts: every enabled interaction of a configuration.
LEMMA NewAgenda ==
  ASSUME config \in Configs, NEW t \in 0..Horizon
  PROVE  /\ IsAgenda(Pe!SetUpInteractions(t))
         /\ \A i \in DOMAIN Pe!SetUpInteractions(t) : Pe!SetUpInteractions(t)[i].last = t
<1>. DEFINE list == Pe!SetUpInteractions(t)
<1>1. ASSUME NEW i \in DOMAIN list
      PROVE  /\ list[i] = [times |-> list[i].times, last |-> list[i].last]
             /\ list[i].times \subseteq 0..Horizon /\ list[i].last = t
  <2>1. \E a \in DOMAIN config : \E k \in DOMAIN config[a] : i = <<a, k>>
    BY DEF Pe!SetUpInteractions
  <2>a. PICK a \in DOMAIN config : \E k \in DOMAIN config[a] : i = <<a, k>>
    BY <2>1
  <2>2. PICK k \in DOMAIN config[a] : i = <<a, k>>
    BY <2>a
  <2>3. list[i] = [times |-> config[a][k].times, last |-> t]
    BY <2>2 DEF Pe!SetUpInteractions
  <2>4. config[a][k].times \subseteq 0..Horizon
    BY EventTypes
  <2>. HIDE DEF list
  <2>. QED BY <2>3, <2>4
<1>2. list = [i \in DOMAIN list |-> list[i]]
  BY DEF Pe!SetUpInteractions
<1>. HIDE DEF list
<1>3. t \in Nat
  BY HorizonIsNatural
<1>4. IsAgenda(list) /\ \A i \in DOMAIN list : list[i].last = t
  BY <1>1, <1>2, <1>3 DEF IsAgenda
<1>. QED BY <1>4 DEF list

LEMMA EventsBegin == Pe!Init => EventsInv
<1>. SUFFICES ASSUME Pe!Init PROVE EventsInv
  OBVIOUS
<1>1. Pe!Indices = {} /\ interactions = <<>> /\ nextFiring = <<>> /\ fired = {} /\ pass = "start"
  BY DEF Pe!Init, Pe!Indices
<1>2. PassInv
  BY <1>1, HorizonIsNatural DEF Pe!Init, PassInv, IsAgenda
<1>3. nextFiring \in [Pe!Indices -> 0..Pe!Never]
  BY <1>1
<1>. QED BY <1>1, <1>2, <1>3 DEF EventsInv, AgendaInv, PastInv, AheadInv

LEMMA EventsStart ==
  ASSUME EventsInv, Pe!Start PROVE EventsInv'
<1>. DEFINE list == Pe!SetUpInteractions(eventTime)
            firing == Pe!UpdateNextFiring(list, <<>>, eventTime)
<1>1. /\ pass = "start" /\ interactions' = Pe!Advanced(list, firing) /\ nextFiring' = firing
      /\ pass' = "begin" /\ passes' = [passes EXCEPT !.from = eventTime]
      /\ UNCHANGED <<config, passStart, eventTime, fired>>
  BY DEF Pe!Start
<1>2. PassInv
  BY DEF EventsInv
<1>3. /\ eventTime \in 0..Horizon /\ config \in Configs /\ fired = {} /\ passStart \in 0..eventTime
      /\ passes = [from |-> passes.from, at |-> passes.at]
  BY <1>1, <1>2 DEF PassInv
<1>4. IsAgenda(list) /\ \A i \in DOMAIN list : list[i].last = eventTime
  BY <1>3, NewAgenda
<1>5. firing = [i \in DOMAIN list |-> firing[i]]
  BY DEF Pe!UpdateNextFiring
<1>. HIDE DEF list
<1>6. ASSUME NEW i \in DOMAIN list
      PROVE  /\ firing[i] \in list[i].times \cup {Pe!Never} /\ firing[i] \in 0..Pe!Never
             /\ \A u \in list[i].times : u > eventTime => u >= firing[i]
  <2>1. list[i].last <= eventTime /\ DOMAIN <<>> = {}
    BY <1>3, <1>4, HorizonIsNatural
  <2>. QED BY <1>3, <1>4, <2>1, NextFirings
<1>. HIDE DEF firing
<1>7. /\ IsAgenda(interactions') /\ DOMAIN interactions' = DOMAIN list
      /\ \A i \in DOMAIN list : interactions'[i].times = list[i].times /\ interactions'[i].last = firing[i]
  <2>1. \A i \in DOMAIN list : firing[i] \in Nat
    BY <1>6, HorizonIsNatural
  <2>. QED BY <1>1, <1>4, <2>1, AgendaAdvances
<1>8. passes' = [from |-> eventTime, at |-> passes.at]
  BY <1>1, <1>3
<1>9. PassInv'
  BY <1>1, <1>3, <1>7, <1>8, HorizonIsNatural DEF PassInv
<1>10. AgendaInv'
  <2>1. nextFiring' \in [DOMAIN list -> 0..Pe!Never]
    BY <1>1, <1>5, <1>6
  <2>. QED BY <1>1, <1>3, <1>6, <1>7, <2>1 DEF AgendaInv, Pe!Indices
<1>11. PastInv'
  <2>. SUFFICES ASSUME NEW i \in DOMAIN list, NEW t \in list[i].times, eventTime < t, t < firing[i]
                PROVE  FALSE
    BY <1>1, <1>7, <1>8 DEF PastInv, Pe!Indices
  <2>1. t >= firing[i] /\ t \in Nat /\ firing[i] \in Nat
    BY <1>3, <1>4, <1>6, HorizonIsNatural DEF IsAgenda
  <2>. QED BY <2>1
<1>12. AheadInv'
  BY <1>1 DEF AheadInv
<1>. QED BY <1>9, <1>10, <1>11, <1>12 DEF EventsInv

LEMMA EventsFire ==
  ASSUME EventsInv, Pe!FireAndUpdate PROVE EventsInv'
<1>. DEFINE firing == Pe!UpdateNextFiring(interactions, nextFiring, passStart)
            due == {j \in Pe!Indices : Pe!Due(j)}
<1>1. /\ pass = "fire" /\ fired' = fired \cup {<<i, nextFiring[i], passStart>> : i \in due}
      /\ nextFiring' = firing /\ interactions' = Pe!Advanced(interactions, firing)
      /\ pass' = "sleep" /\ UNCHANGED <<config, passStart, eventTime, passes>>
  BY DEF Pe!FireAndUpdate
<1>2. PassInv /\ AgendaInv /\ PastInv
  BY DEF EventsInv
<1>3. /\ passStart \in 0..Horizon /\ passStart \in Nat /\ IsAgenda(interactions)
      /\ passStart \in passes.at /\ Pe!Indices = DOMAIN interactions
  BY <1>1, <1>2, HorizonIsNatural DEF PassInv, Pe!Indices
<1>4. firing = [i \in Pe!Indices |-> firing[i]]
  BY DEF Pe!UpdateNextFiring, Pe!Indices
<1>5. ASSUME NEW i \in Pe!Indices
      PROVE  /\ nextFiring[i] \in 0..Pe!Never /\ nextFiring[i] \in Nat
             /\ interactions[i].times \subseteq Nat /\ interactions[i].last = nextFiring[i]
             /\ nextFiring[i] \in interactions[i].times \cup {Pe!Never} /\ i \in DOMAIN nextFiring
             /\ i \in due <=> nextFiring[i] < passStart
  <2>1. nextFiring \in [Pe!Indices -> 0..Pe!Never] /\ interactions[i].times \subseteq 0..Horizon
    BY <1>2, <1>3 DEF AgendaInv, IsAgenda
  <2>. QED BY <1>2, <1>5, <2>1, HorizonIsNatural DEF AgendaInv, Pe!Due
<1>6. ASSUME NEW i \in Pe!Indices
      PROVE  /\ firing[i] \in interactions[i].times \cup {Pe!Never} /\ firing[i] \in 0..Pe!Never
             /\ firing[i] > passStart
             /\ nextFiring[i] > passStart => firing[i] = nextFiring[i]
             /\ ~(nextFiring[i] > passStart) =>
                   \A u \in interactions[i].times : u > passStart => u >= firing[i]
  BY <1>3, <1>5, NextFirings
<1>. HIDE DEF firing, due
<1>7. /\ IsAgenda(interactions') /\ DOMAIN interactions' = Pe!Indices
      /\ \A i \in Pe!Indices : interactions'[i].times = interactions[i].times
                                 /\ interactions'[i].last = firing[i]
  <2>1. \A i \in Pe!Indices : firing[i] \in Nat
    BY <1>6, HorizonIsNatural
  <2>. QED BY <1>1, <1>3, <2>1, AgendaAdvances
<1>8. PassInv'
  BY <1>1, <1>2, <1>7 DEF PassInv
<1>9. (Pe!Indices)' = Pe!Indices
  BY <1>7 DEF Pe!Indices
<1>10. \A f \in fired' \ fired : /\ f[1] \in due /\ f[1] \in Pe!Indices /\ f = <<f[1], f[2], f[3]>>
                                 /\ f[2] = nextFiring[f[1]] /\ f[3] = passStart
  BY <1>1 DEF due
<1>11. \A f \in fired : /\ f[1] \in Pe!Indices /\ f[2] \in Nat /\ f[3] \in Nat /\ f = <<f[1], f[2], f[3]>>
                        /\ f[2] < f[3] /\ f[2] < nextFiring[f[1]]
  BY <1>2 DEF AgendaInv
<1>12. AgendaInv'
  <2>1. nextFiring' \in [Pe!Indices -> 0..Pe!Never]
    BY <1>1, <1>4, <1>6
  <2>2. ASSUME NEW f \in fired'
        PROVE  /\ f \in Pe!Indices \X Nat \X Nat
               /\ f[2] < f[3] /\ f[2] < firing[f[1]]
    <3>1. CASE f \in fired
      <4>1. f[2] < nextFiring[f[1]] /\ f[1] \in Pe!Indices /\ f[2] \in Nat
        BY <1>11, <3>1
      <4>2. \/ firing[f[1]] = nextFiring[f[1]]
            \/ firing[f[1]] > passStart /\ ~(nextFiring[f[1]] > passStart)
        BY <1>6, <4>1
      <4>3. nextFiring[f[1]] \in Nat /\ firing[f[1]] \in Nat
        BY <1>5, <1>6, <4>1, HorizonIsNatural
      <4>. QED BY <1>3, <1>11, <3>1, <4>1, <4>2, <4>3
    <3>2. CASE f \notin fired
      <4>1. /\ f[1] \in due /\ f[1] \in Pe!Indices /\ f = <<f[1], f[2], f[3]>>
            /\ f[2] = nextFiring[f[1]] /\ f[3] = passStart
        BY <1>10, <3>2
      <4>2. nextFiring[f[1]] < passStart /\ nextFiring[f[1]] \in Nat /\ firing[f[1]] > passStart
            /\ firing[f[1]] \in Nat
        BY <1>5, <1>6, <4>1, HorizonIsNatural
      <4>. QED BY <1>3, <4>1, <4>2
    <3>. QED BY <3>1, <3>2
  <2>3. ASSUME NEW f \in fired', NEW g \in fired', f[1] = g[1], f[2] = g[2] PROVE f = g
    <3>1. CASE f \in fired /\ g \in fired
      BY <1>2, <2>3, <3>1 DEF AgendaInv
    <3>2. CASE f \notin fired /\ g \notin fired
      BY <1>10, <2>3, <3>2
    <3>3. CASE f \in fired /\ g \notin fired
      BY <1>5, <1>10, <1>11, <2>3, <3>3
    <3>4. CASE f \notin fired /\ g \in fired
      BY <1>5, <1>10, <1>11, <2>3, <3>4
    <3>. QED BY <3>1, <3>2, <3>3, <3>4
  <2>4. fired' \subseteq Pe!Indices \X Nat \X Nat
    BY <2>2
  <2>. QED BY <1>1, <1>6, <1>7, <1>9, <2>1, <2>2, <2>3, <2>4 DEF AgendaInv
<1>13. PastInv'
  <2>. SUFFICES ASSUME NEW i \in Pe!Indices, NEW t \in interactions[i].times,
                       passes.from < t, t < firing[i]
                PROVE  Settled(i, t)'
    BY <1>1, <1>7, <1>9 DEF PastInv
  <2>1. Settled(i, t) => Settled(i, t)'
    BY <1>1 DEF Settled
  <2>2. t \in Nat /\ nextFiring[i] \in Nat /\ firing[i] \in Nat
    BY <1>5, <1>6, HorizonIsNatural
  <2>3. CASE t < nextFiring[i]
    BY <1>2, <2>1, <2>3 DEF PastInv
  <2>4. CASE ~(t < nextFiring[i])
    <3>1. ~(nextFiring[i] > passStart) /\ t <= passStart
      BY <1>3, <1>6, <2>2, <2>4
    <3>2. CASE nextFiring[i] = passStart
      <4>1. t = passStart
        BY <1>3, <2>2, <2>4, <3>1, <3>2
      <4>. QED BY <1>1, <1>3, <4>1 DEF Settled
    <3>3. CASE nextFiring[i] # passStart
      <4>1. i \in due
        BY <1>3, <1>5, <2>2, <3>1, <3>3
      <4>2. <<i, nextFiring[i], passStart>> \in fired'
        BY <1>1, <4>1
      <4>. QED BY <2>2, <2>4, <3>1, <4>2 DEF Settled
    <3>. QED BY <3>2, <3>3
  <2>. QED BY <2>3, <2>4
<1>14. AheadInv'
  BY <1>1, <1>6, <1>9 DEF AheadInv
<1>. QED BY <1>8, <1>12, <1>13, <1>14 DEF EventsInv

LEMMA EventsStep ==
  ASSUME EventsInv, [Pe!Next]_PeVars PROVE EventsInv'
<1>1. CASE Pe!Start
  BY <1>1, EventsStart
<1>2. CASE Pe!FireAndUpdate
  BY <1>2, EventsFire
<1>3. CASE Pe!BeginPass
  <2>1. /\ pass' = "fire" /\ passStart' = eventTime /\ passes' = [passes EXCEPT !.at = @ \cup {eventTime}]
        /\ pass = "begin" /\ UNCHANGED <<config, interactions, nextFiring, eventTime, fired>>
    BY <1>3 DEF Pe!BeginPass
  <2>2. PassInv /\ AgendaInv /\ PastInv
    BY DEF EventsInv
  <2>3. passes' = [from |-> passes.from, at |-> passes.at \cup {eventTime}]
    BY <2>1, <2>2 DEF PassInv
  <2>4. PassInv'
    <3>1. /\ eventTime' \in 0..Horizon /\ passStart' \in 0..eventTime'
          /\ config' \in Configs /\ pass' = "fire" /\ passes.from \in Nat
      BY <2>1, <2>2, HorizonIsNatural DEF PassInv
    <3>3. passes'.from = passes.from /\ passes'.at = passes.at \cup {eventTime}
      BY <2>3
    <3>4. passes' = [from |-> passes'.from, at |-> passes'.at] /\ passStart' \in passes'.at
      BY <2>1, <2>3, <3>3
    <3>2. IsAgenda(interactions')
      BY <2>1, <2>2 DEF PassInv
    <3>. QED BY <3>1, <3>2, <3>3, <3>4 DEF PassInv
  <2>5. (Pe!Indices)' = Pe!Indices
    BY <2>1 DEF Pe!Indices
  <2>6. AgendaInv'
    BY <2>1, <2>2, <2>5 DEF AgendaInv
  <2>7. PastInv'
    BY <2>1, <2>2, <2>3, <2>5 DEF PastInv, Settled
  <2>. QED BY <2>1, <2>4, <2>6, <2>7 DEF EventsInv, AheadInv
<1>4. CASE Pe!EndPass \/ Pe!EventTick \/ UNCHANGED PeVars
  <2>1. /\ UNCHANGED <<config, interactions, nextFiring, passStart, fired, passes>>
        /\ pass' = pass \/ (pass' = "begin" /\ pass = "sleep")
        /\ eventTime' = eventTime \/ (eventTime < Horizon /\ eventTime' = eventTime + 1)
    BY <1>4 DEF Pe!EndPass, Pe!EventTick, PeVars
  <2>2. PassInv /\ AgendaInv /\ PastInv /\ AheadInv
    BY DEF EventsInv
  <2>3. PassInv'
    <3>1. eventTime' \in 0..Horizon /\ passStart' \in 0..eventTime'
      BY <2>1, <2>2, HorizonIsNatural DEF PassInv
    <3>. QED BY <2>1, <2>2, <3>1 DEF PassInv
  <2>4. (Pe!Indices)' = Pe!Indices
    BY <2>1 DEF Pe!Indices
  <2>5. AgendaInv'
    BY <2>1, <2>2, <2>4 DEF AgendaInv
  <2>6. PastInv'
    BY <2>1, <2>2, <2>4 DEF PastInv, Settled
  <2>7. AheadInv'
    BY <2>1, <2>2, <2>4 DEF AheadInv
  <2>. QED BY <2>3, <2>5, <2>6, <2>7 DEF EventsInv
<1>. QED BY <1>1, <1>2, <1>3, <1>4 DEF Pe!Next

LEMMA EventsFollow == EventsInv => Pe!TypeOK /\ Pe!FiredOnceInTime /\ Pe!OnlyLateOnesAreMissed /\ Pe!NextIsAhead
<1>. SUFFICES ASSUME EventsInv
              PROVE  Pe!TypeOK /\ Pe!FiredOnceInTime /\ Pe!OnlyLateOnesAreMissed /\ Pe!NextIsAhead
  OBVIOUS
<1>1. PassInv /\ AgendaInv /\ PastInv /\ AheadInv
  BY DEF EventsInv
<1>2. Pe!TypeOK
  BY <1>1 DEF PassInv, AgendaInv, Pe!TypeOK
<1>3. Pe!FiredOnceInTime
  BY <1>1 DEF AgendaInv, Pe!FiredOnceInTime
<1>4. Pe!NextIsAhead
  BY <1>1 DEF AheadInv, Pe!NextIsAhead
<1>5. Pe!OnlyLateOnesAreMissed
  <2>. SUFFICES ASSUME pass = "sleep", NEW i \in Pe!Indices, NEW t \in interactions[i].times,
                       passes.from < t, t <= passStart
                PROVE  Settled(i, t)
    BY DEF Pe!OnlyLateOnesAreMissed, Settled
  <2>1. nextFiring[i] > passStart /\ nextFiring[i] \in Int
    BY <1>1 DEF AheadInv, AgendaInv
  <2>2. t \in Int /\ passStart \in Int
    BY <1>1, HorizonIsNatural DEF PassInv, IsAgenda, Pe!Indices
  <2>3. t < nextFiring[i]
    BY <2>1, <2>2
  <2>. QED BY <1>1, <2>3 DEF PastInv
<1>. QED BY <1>2, <1>3, <1>4, <1>5

\* No periodic event is fired early, or twice for one instant; an instant of a
\* schedule is missed only when a pass began at it, or was late; and after a pass
\* every next firing lies in the future, for any schedules, however long a pass
\* takes (periodic_event_initiator.py).
THEOREM EventsAlwaysFireInTime == Spec => []EventsFireInTime
<1>. DEFINE Inv == part = "periodic" => EventsInv
<1>1. Init => Inv
  BY EventsBegin DEF Init
<1>2. Inv /\ [Next]_ServiceVars => Inv'
  BY PartSteps, EventsStep
<1>3. Inv => EventsFireInTime
  BY EventsFollow DEF EventsFireInTime
<1>. HIDE DEF Inv
<1>. QED BY <1>1, <1>2, <1>3, PTL DEF Spec
-----------------------------------------------------------------------------
(* Start-up: what a worker process has, by where it is. *)

Steps == {"id", "sockets", "context", "status", "start", "loop"}

ComponentNames ==
  {"StorageWatcher", "TempNetworkStorageUpdater", "EventWorkMonitor", "PeriodicEventInitiator",
   "ResourcesUsageLogger", "HealthProbeServer"}

Probes == {"none", "binding", "serving", "ended"}

WorkerRecords ==
  [pc : Steps, id : Nat, count : Nat, accepts : BOOLEAN, queues : BOOLEAN, tables : BOOLEAN,
   ready : SUBSET Su!Services, todo : Seq(ComponentNames), running : SUBSET ComponentNames,
   failed : SUBSET ComponentNames, expires : BOOLEAN, probe : Probes]

SetOf(s) == {s[k] : k \in DOMAIN s}

\* Worker i, started with arguments a: how far it is decides what it has; what it has to
\* start, runs or failed is always the same; and it expires the storage only as the first.
GoodWorker(w, i, a) ==
  /\ w \in WorkerRecords
  /\ w.tables = TRUE
  /\ w.pc \notin {"id", "sockets"} => w.accepts = TRUE
  /\ w.pc \in {"status", "start", "loop"} => w.queues = TRUE
  /\ w.pc # "id" => w.id = i - 1 /\ w.count = a.instances
  /\ w.pc \notin {"start", "loop"} => w.running = {} /\ w.failed = {} /\ w.ready = {}
  /\ w.pc = "loop" => w.todo = <<>>
  /\ "updater" \in w.ready => "StorageWatcher" \in w.running
  /\ w.running \cup w.failed \cup SetOf(w.todo) = SetOf(Su!ComponentsToStart(a))
  /\ w.expires = TRUE => w.id = 0 \/ w.count <= 1
  /\ w.expires = TRUE => w.pc # "id"

StartInv ==
  /\ args \in Su!Arguments /\ status = Su!Requested(args)
  /\ main \in {"parsed", "exited", "setup", "forked"}
  /\ main \in {"setup", "forked"} => status \cap {"http", "mcp"} # {}
  /\ main # "forked" => workers = <<>>
  /\ main = "forked" => DOMAIN workers = 1..args.instances
  /\ \A i \in DOMAIN workers : GoodWorker(workers[i], i, args)

LEMMA HeadAndTail ==
  ASSUME NEW S, NEW s \in Seq(S), s # <<>>
  PROVE  /\ Head(s) \in S /\ Tail(s) \in Seq(S)
         /\ SetOf(s) = {Head(s)} \cup SetOf(Tail(s))
<1>1. /\ Head(s) \in S /\ Tail(s) \in Seq(S) /\ Len(s) \in Nat /\ Len(s) >= 1
      /\ Head(s) = s[1] /\ DOMAIN s = 1..Len(s) /\ DOMAIN Tail(s) = 1..(Len(s) - 1)
      /\ \A k \in 1..(Len(s) - 1) : Tail(s)[k] = s[k + 1]
  OBVIOUS
<1>2. ASSUME NEW k \in DOMAIN s PROVE s[k] \in {Head(s)} \cup SetOf(Tail(s))
  <2>1. CASE k = 1
    BY <1>1, <2>1
  <2>2. CASE k # 1
    <3>1. k - 1 \in DOMAIN Tail(s) /\ Tail(s)[k - 1] = s[k]
      BY <1>1, <2>2
    <3>. QED BY <3>1 DEF SetOf
  <2>. QED BY <2>1, <2>2
<1>3. ASSUME NEW k \in DOMAIN Tail(s) PROVE Tail(s)[k] \in SetOf(s)
  <2>1. k + 1 \in DOMAIN s /\ Tail(s)[k] = s[k + 1]
    BY <1>1
  <2>. QED BY <2>1 DEF SetOf
<1>4. Head(s) \in SetOf(s)
  BY <1>1 DEF SetOf
<1>5. SetOf(s) \subseteq {Head(s)} \cup SetOf(Tail(s))
  BY <1>2 DEF SetOf
<1>6. {Head(s)} \cup SetOf(Tail(s)) \subseteq SetOf(s)
  BY <1>3, <1>4 DEF SetOf
<1>. QED BY <1>1, <1>5, <1>6

LEMMA ComponentsAreNames == ASSUME NEW a PROVE Su!ComponentsToStart(a) \in Seq(ComponentNames)
<1>0. \A s \in ComponentNames : <<>> \in Seq(ComponentNames) /\ <<s>> \in Seq(ComponentNames)
  BY DEF ComponentNames
<1>1. <<"TempNetworkStorageUpdater", "EventWorkMonitor", "PeriodicEventInitiator">> \in Seq(ComponentNames)
  BY DEF ComponentNames
<1>2. (IF a.period > 0 THEN <<"StorageWatcher">> ELSE <<>>) \in Seq(ComponentNames)
  BY <1>0 DEF ComponentNames
<1>3. (IF a.monitor > 0 THEN <<"ResourcesUsageLogger">> ELSE <<>>) \in Seq(ComponentNames)
  BY <1>0 DEF ComponentNames
<1>4. (IF Su!ProbeIsSeparate(a) THEN <<"HealthProbeServer">> ELSE <<>>) \in Seq(ComponentNames)
  BY <1>0 DEF ComponentNames
<1>5. \A s, t \in Seq(ComponentNames) : s \o t \in Seq(ComponentNames)
  OBVIOUS
<1>. QED BY <1>1, <1>2, <1>3, <1>4, <1>5 DEF Su!ComponentsToStart

LEMMA StartupBegins == Su!Init => StartInv
<1>1. Given \subseteq Su!Arguments
  BY PartsAssumption DEF Su!GivenAssumption
<1>. QED BY <1>1 DEF Su!Init, StartInv

\* A process before its loop.
LEMMA EarlySteps ==
  ASSUME NEW w, NEW i \in Nat \ {0}, NEW a, a.instances \in Nat, GoodWorker(w, i, a), NEW ready \in SUBSET Su!Services,
         "updater" \notin ready
  PROVE  /\ w.pc = "id" => GoodWorker([w EXCEPT !.pc = "sockets", !.id = i - 1, !.count = a.instances], i, a)
         /\ w.pc = "sockets" => GoodWorker([w EXCEPT !.pc = "context", !.accepts = TRUE], i, a)
         /\ w.pc = "context" => GoodWorker([w EXCEPT !.pc = "status", !.queues = TRUE], i, a)
         /\ w.pc = "status" => GoodWorker([w EXCEPT !.pc = "start", !.ready = ready], i, a)
<1>1. ASSUME w.pc = "id"
      PROVE  GoodWorker([w EXCEPT !.pc = "sockets", !.id = i - 1, !.count = a.instances], i, a)
  <2>. DEFINE r == [w EXCEPT !.pc = "sockets", !.id = i - 1, !.count = a.instances]
  <2>1. i - 1 \in Nat
    OBVIOUS
  <2>2. /\ r \in WorkerRecords /\ r.pc = "sockets" /\ r.id = i - 1 /\ r.count = a.instances
        /\ r.tables = w.tables /\ r.running = w.running /\ r.failed = w.failed /\ r.ready = w.ready
        /\ r.todo = w.todo /\ r.expires = w.expires
    BY <2>1 DEF GoodWorker, WorkerRecords, Steps
  <2>. HIDE DEF r
  <2>3. GoodWorker(r, i, a)
    BY <1>1, <2>2 DEF GoodWorker
  <2>. QED BY <2>3 DEF r
<1>2. ASSUME w.pc = "sockets"
      PROVE  GoodWorker([w EXCEPT !.pc = "context", !.accepts = TRUE], i, a)
  BY <1>2 DEF GoodWorker, WorkerRecords, Steps
<1>3. ASSUME w.pc = "context"
      PROVE  GoodWorker([w EXCEPT !.pc = "status", !.queues = TRUE], i, a)
  BY <1>3 DEF GoodWorker, WorkerRecords, Steps
<1>4. ASSUME w.pc = "status"
      PROVE  GoodWorker([w EXCEPT !.pc = "start", !.ready = ready], i, a)
  BY <1>4 DEF GoodWorker, WorkerRecords, Steps
<1>. QED BY <1>1, <1>2, <1>3, <1>4

\* A process that starts its components: the first of the rest, with a flag of two it sets.
LEMMA ComponentSteps ==
  ASSUME NEW w, NEW i \in Nat \ {0}, NEW a, GoodWorker(w, i, a), NEW probe \in Probes,
         NEW expires \in BOOLEAN, expires => w.id = 0 \/ w.count <= 1,
         w.pc = "start", w.todo # <<>>
  PROVE  LET s == [w EXCEPT !.todo = Tail(@), !.running = @ \cup {Head(w.todo)}] IN
         /\ GoodWorker(s, i, a)
         /\ GoodWorker([s EXCEPT !.expires = expires], i, a)
         /\ GoodWorker([s EXCEPT !.probe = probe], i, a)
         /\ GoodWorker([w EXCEPT !.todo = Tail(@), !.failed = @ \cup {Head(w.todo)}], i, a)
<1>. DEFINE rest == Tail(w.todo)
            first == Head(w.todo)
<1>1. first \in ComponentNames /\ rest \in Seq(ComponentNames) /\ SetOf(w.todo) = {first} \cup SetOf(rest)
  BY HeadAndTail DEF GoodWorker, WorkerRecords
<1>. HIDE DEF rest, first
<1>. DEFINE s == [w EXCEPT !.todo = rest, !.running = @ \cup {first}]
<1>2. GoodWorker([w EXCEPT !.todo = rest, !.failed = @ \cup {first}], i, a)
  BY <1>1 DEF GoodWorker, WorkerRecords, Steps
<1>3. GoodWorker(s, i, a)
  BY <1>1 DEF GoodWorker, WorkerRecords, Steps
<1>4. s.id = w.id /\ s.count = w.count /\ s.pc = "start"
  BY DEF GoodWorker, WorkerRecords
<1>. HIDE DEF s
<1>5. GoodWorker([s EXCEPT !.expires = expires], i, a)
  BY <1>3, <1>4 DEF GoodWorker, WorkerRecords, Steps
<1>6. GoodWorker([s EXCEPT !.probe = probe], i, a)
  BY <1>3 DEF GoodWorker, WorkerRecords, Steps
<1>. QED BY <1>2, <1>3, <1>5, <1>6 DEF s, rest, first

LEMMA LoopSteps ==
  ASSUME NEW w, NEW i \in Nat \ {0}, NEW a, GoodWorker(w, i, a)
  PROVE  /\ w.pc = "start" /\ w.todo = <<>> => GoodWorker([w EXCEPT !.pc = "loop"], i, a)
         /\ "StorageWatcher" \in w.running => GoodWorker([w EXCEPT !.ready = @ \cup {"updater"}], i, a)
         /\ \A probe \in Probes : GoodWorker([w EXCEPT !.probe = probe], i, a)
<1>1. ASSUME w.pc = "start", w.todo = <<>>
      PROVE  GoodWorker([w EXCEPT !.pc = "loop"], i, a)
  BY <1>1 DEF GoodWorker, WorkerRecords, Steps
<1>2. ASSUME "StorageWatcher" \in w.running
      PROVE  GoodWorker([w EXCEPT !.ready = @ \cup {"updater"}], i, a)
  BY <1>2 DEF GoodWorker, WorkerRecords, Steps, Su!Services
<1>3. ASSUME NEW probe \in Probes
      PROVE  GoodWorker([w EXCEPT !.probe = probe], i, a)
  <2>1. [w EXCEPT !.probe = probe] \in WorkerRecords
    BY DEF GoodWorker, WorkerRecords
  <2>. QED BY <2>1 DEF GoodWorker, WorkerRecords
<1>. QED BY <1>1, <1>2, <1>3

LEMMA StartupStep ==
  ASSUME StartInv, [Su!Next]_SuVars PROVE StartInv'
<1>1. CASE UNCHANGED SuVars \/ Su!FastOut \/ Su!SetUp
  BY <1>1 DEF StartInv, SuVars, Su!FastOut, Su!SetUp
<1>2. CASE Su!Fork
  <2>1. /\ main = "setup" /\ main' = "forked" /\ UNCHANGED <<args, status>>
        /\ workers' = [i \in 1..args.instances |-> [Su!NewWorker EXCEPT
                         !.tables = TRUE, !.todo = Su!ComponentsToStart(args)]]
    BY <1>2 DEF Su!Fork
  <2>. DEFINE w == [Su!NewWorker EXCEPT !.tables = TRUE, !.todo = Su!ComponentsToStart(args)]
  <2>2. /\ w.pc = "id" /\ w.id = 0 /\ w.count = 0 /\ w.accepts = FALSE /\ w.queues = FALSE
        /\ w.tables = TRUE /\ w.ready = {} /\ w.todo = Su!ComponentsToStart(args) /\ w.running = {}
        /\ w.failed = {} /\ w.expires = FALSE /\ w \in WorkerRecords
    <3>. DEFINE list == Su!ComponentsToStart(args)
    <3>1. list \in Seq(ComponentNames)
      BY ComponentsAreNames
    <3>. HIDE DEF list
    <3>. DEFINE new == [pc |-> "id", id |-> 0, count |-> 0, accepts |-> FALSE, queues |-> FALSE,
                        tables |-> FALSE, ready |-> {}, todo |-> <<>>, running |-> {}, failed |-> {},
                        expires |-> FALSE, probe |-> "none"]
    <3>2. w = [new EXCEPT !.tables = TRUE, !.todo = list]
      BY DEF Su!NewWorker, list
    <3>3. new \in WorkerRecords
      BY DEF WorkerRecords, Steps, Probes
    <3>4. /\ new.pc = "id" /\ new.id = 0 /\ new.count = 0 /\ new.accepts = FALSE /\ new.queues = FALSE
          /\ new.ready = {} /\ new.running = {} /\ new.failed = {} /\ new.expires = FALSE
      OBVIOUS
    <3>. HIDE DEF new, w
    <3>5. /\ w \in WorkerRecords /\ w.tables = TRUE /\ w.todo = list
          /\ w.pc = new.pc /\ w.id = new.id /\ w.count = new.count /\ w.accepts = new.accepts
          /\ w.queues = new.queues /\ w.ready = new.ready /\ w.running = new.running
          /\ w.failed = new.failed /\ w.expires = new.expires
      BY <3>1, <3>2, <3>3 DEF WorkerRecords
    <3>. QED BY <3>4, <3>5 DEF list
  <2>3. DOMAIN workers' = 1..args.instances /\ \A i \in DOMAIN workers' : workers'[i] = w
    BY <2>1
  <2>. HIDE DEF w
  <2>4. ASSUME NEW i \in DOMAIN workers' PROVE GoodWorker(w, i, args)
    BY <2>2 DEF GoodWorker
  <2>. QED BY <2>1, <2>3, <2>4 DEF StartInv
<1>3. ASSUME NEW i \in DOMAIN workers, Su!WorkerStep(i) \/ Su!StartFails(i)
      PROVE  StartInv'
  <2>. DEFINE w == workers[i]
  <2>1. /\ GoodWorker(w, i, args) /\ i \in Nat \ {0} /\ args.instances \in Nat
        /\ main = "forked"
    <3>1. args.instances \in Nat /\ 1..args.instances \subseteq Nat \ {0}
      BY PartsAssumption DEF StartInv, Su!Arguments, Su!WorkersAssumption
    <3>. QED BY <1>3, <3>1 DEF StartInv
  <2>2. PICK r : Su!Worker(i, r) /\ GoodWorker(r, i, args)
    <3>. DEFINE ready == {"http"} \cup (status \cap {"mcp"})
    <3>0. ready \in SUBSET Su!Services /\ "updater" \notin ready
      BY DEF Su!Services
    <3>1. CASE Su!SetWorkerInfo(i)
      <4>. DEFINE r == [w EXCEPT !.pc = "sockets", !.id = i - 1, !.count = args.instances]
      <4>1. w.pc = "id" /\ Su!Worker(i, r)
        BY <3>1 DEF Su!SetWorkerInfo
      <4>2. GoodWorker(r, i, args)
        <5>. HIDE DEF w, ready
        <5>. QED BY <2>1, <3>0, <4>1, EarlySteps
      <4>. HIDE DEF r
      <4>. QED BY <4>1, <4>2
    <3>2. CASE Su!AddSockets(i)
      <4>. DEFINE r == [w EXCEPT !.pc = "context", !.accepts = TRUE]
      <4>1. w.pc = "sockets" /\ Su!Worker(i, r)
        BY <3>2 DEF Su!AddSockets
      <4>2. GoodWorker(r, i, args)
        <5>. HIDE DEF w, ready
        <5>. QED BY <2>1, <3>0, <4>1, EarlySteps
      <4>. HIDE DEF r
      <4>. QED BY <4>1, <4>2
    <3>3. CASE Su!StartContext(i)
      <4>. DEFINE r == [w EXCEPT !.pc = "status", !.queues = TRUE]
      <4>1. w.pc = "context" /\ Su!Worker(i, r)
        BY <3>3 DEF Su!StartContext
      <4>2. GoodWorker(r, i, args)
        <5>. HIDE DEF w, ready
        <5>. QED BY <2>1, <3>0, <4>1, EarlySteps
      <4>. HIDE DEF r
      <4>. QED BY <4>1, <4>2
    <3>4. CASE Su!SetStatus(i)
      <4>. DEFINE r == [w EXCEPT !.pc = "start", !.ready = ready]
      <4>1. w.pc = "status" /\ Su!Worker(i, r)
        BY <3>4 DEF Su!SetStatus
      <4>2. GoodWorker(r, i, args)
        <5>. HIDE DEF w, ready
        <5>. QED BY <2>1, <3>0, <4>1, EarlySteps
      <4>. HIDE DEF r
      <4>. QED BY <4>1, <4>2
    <3>. HIDE DEF ready
    <3>5. CASE Su!StartComponent(i)
      <4>. DEFINE c == Head(w.todo)
                  s == [w EXCEPT !.todo = Tail(@), !.running = @ \cup {Head(w.todo)}]
                  expires == ~(w.count > 1 /\ w.id > 0)
      <4>1. /\ w.pc = "start" /\ w.todo # <<>>
            /\ Su!Worker(i, CASE c = "TempNetworkStorageUpdater" -> [s EXCEPT !.expires = Su!Expires(s)]
                              [] c = "HealthProbeServer" -> [s EXCEPT !.probe = "binding"]
                              [] OTHER -> s)
        BY <3>5 DEF Su!StartComponent
      <4>2. w \in WorkerRecords
        BY <2>1 DEF GoodWorker
      <4>3. expires \in BOOLEAN /\ (expires => w.id = 0 \/ w.count <= 1)
        BY <4>2 DEF WorkerRecords
      <4>4. Su!Expires(s) = expires
        BY <4>2 DEF Su!Expires, WorkerRecords
      <4>. HIDE DEF expires, c, w
      <4>5. /\ GoodWorker(s, i, args) /\ GoodWorker([s EXCEPT !.expires = expires], i, args)
            /\ GoodWorker([s EXCEPT !.probe = "binding"], i, args)
        <5>1. "binding" \in Probes /\ w.pc = "start" /\ w.todo # <<>>
          BY <4>1 DEF Probes
        <5>. QED BY <2>1, <4>3, <5>1, ComponentSteps
      <4>. HIDE DEF s
      <4>. QED BY <4>1, <4>4, <4>5
    <3>6. CASE Su!StartFails(i)
      <4>. DEFINE s == [w EXCEPT !.todo = Tail(@), !.failed = @ \cup {Head(w.todo)}]
      <4>1. w.pc = "start" /\ w.todo # <<>> /\ Su!Worker(i, s)
        BY <3>6 DEF Su!StartFails
      <4>2. GoodWorker(s, i, args)
        <5>. HIDE DEF w
        <5>1. FALSE \in BOOLEAN /\ "none" \in Probes /\ (FALSE => w.id = 0 \/ w.count <= 1)
          BY DEF Probes
        <5>. QED BY <2>1, <4>1, <5>1, ComponentSteps
      <4>. HIDE DEF s
      <4>. QED BY <4>1, <4>2
    <3>7. CASE Su!RunLoop(i)
      <4>. DEFINE r == [w EXCEPT !.pc = "loop"]
      <4>1. w.pc = "start" /\ w.todo = <<>> /\ Su!Worker(i, r)
        BY <3>7 DEF Su!RunLoop
      <4>2. GoodWorker(r, i, args)
        <5>. HIDE DEF w
        <5>. QED BY <2>1, <4>1, LoopSteps
      <4>. HIDE DEF r
      <4>. QED BY <4>1, <4>2
    <3>8. CASE Su!UpdaterIsReady(i)
      <4>. DEFINE r == [w EXCEPT !.ready = @ \cup {"updater"}]
      <4>1. "StorageWatcher" \in w.running /\ Su!Worker(i, r)
        BY <3>8 DEF Su!UpdaterIsReady
      <4>2. GoodWorker(r, i, args)
        <5>. HIDE DEF w
        <5>. QED BY <2>1, <4>1, LoopSteps
      <4>. HIDE DEF r
      <4>. QED BY <4>1, <4>2
    <3>9. CASE Su!BindProbe(i)
      <4>1. PICK probe \in {"serving", "ended"} : Su!Worker(i, [w EXCEPT !.probe = probe])
        BY <3>9 DEF Su!BindProbe
      <4>. DEFINE r == [w EXCEPT !.probe = probe]
      <4>2. probe \in Probes
        BY DEF Probes
      <4>3. GoodWorker(r, i, args)
        <5>. HIDE DEF w
        <5>. QED BY <2>1, <4>2, LoopSteps
      <4>4. Su!Worker(i, r)
        BY <4>1
      <4>. HIDE DEF r
      <4>. QED BY <4>3, <4>4
    <3>. QED BY <1>3, <3>1, <3>2, <3>3, <3>4, <3>5, <3>6, <3>7, <3>8, <3>9 DEF Su!WorkerStep
  <2>3. /\ DOMAIN workers' = DOMAIN workers /\ UNCHANGED <<args, status, main>>
        /\ workers'[i] = r /\ \A j \in DOMAIN workers \ {i} : workers'[j] = workers[j]
    BY <2>2 DEF Su!Worker
  <2>. QED BY <2>1, <2>2, <2>3 DEF StartInv
<1>. QED BY <1>1, <1>2, <1>3 DEF Su!Next

LEMMA CardinalityOfStartup == ASSUME NEW S PROVE Su!Cardinality(S) = Cardinality(S)
BY DEF Su!Cardinality, Cardinality

LEMMA StartupFollows ==
  StartInv => /\ Su!TypeOK /\ Su!ReadyWorkersServe /\ Su!QueuesBeforeComponents
              /\ Su!AllComponentsTried /\ Su!OneExpirer
<1>. SUFFICES ASSUME StartInv
              PROVE  /\ Su!TypeOK /\ Su!ReadyWorkersServe /\ Su!QueuesBeforeComponents
                     /\ Su!AllComponentsTried /\ Su!OneExpirer
  OBVIOUS
<1>1. ASSUME NEW i \in DOMAIN workers
      PROVE  /\ GoodWorker(workers[i], i, args) /\ workers[i] \in WorkerRecords /\ main = "forked"
             /\ i \in 1..args.instances /\ args.instances \in Nat
  BY PartsAssumption DEF StartInv, GoodWorker, Su!Arguments, Su!WorkersAssumption
<1>2. Su!TypeOK
  <2>1. status \subseteq Su!Services
    BY DEF StartInv, Su!Requested, Su!Services
  <2>. QED BY <1>1, <2>1 DEF StartInv, WorkerRecords, Steps, Su!TypeOK
<1>3. Su!ReadyWorkersServe
  <2>. SUFFICES ASSUME NEW i \in DOMAIN workers, status \subseteq workers[i].ready
                PROVE  /\ workers[i].accepts /\ workers[i].queues /\ workers[i].tables
                       /\ "updater" \in status => "StorageWatcher" \in workers[i].running
    BY DEF Su!ReadyWorkersServe, Su!IsServerReady
  <2>1. status \cap {"http", "mcp"} # {}
    BY <1>1 DEF StartInv
  <2>. QED BY <1>1, <2>1 DEF GoodWorker
<1>4. Su!QueuesBeforeComponents
  BY <1>1 DEF GoodWorker, Su!QueuesBeforeComponents
<1>5. Su!AllComponentsTried
  <2>. SUFFICES ASSUME NEW i \in DOMAIN workers, workers[i].pc = "loop"
                PROVE  SetOf(Su!ComponentsToStart(args)) = workers[i].running \cup workers[i].failed
    BY DEF Su!AllComponentsTried, SetOf
  <2>1. SetOf(<<>>) = {}
    BY DEF SetOf
  <2>. QED BY <1>1, <2>1 DEF GoodWorker
<1>6. Su!OneExpirer
  <2>. DEFINE expirers == {i \in DOMAIN workers : workers[i].expires}
  <2>1. expirers \subseteq {1}
    <3>. SUFFICES ASSUME NEW i \in DOMAIN workers, workers[i].expires PROVE i = 1
      OBVIOUS
    <3>1. workers[i].expires = TRUE
      BY <1>1 DEF WorkerRecords
    <3>2. /\ workers[i].id = i - 1 /\ workers[i].count = args.instances
          /\ workers[i].id = 0 \/ workers[i].count <= 1
      BY <1>1, <3>1 DEF GoodWorker
    <3>. QED BY <1>1, <3>2
  <2>2. expirers = {} \/ expirers = {1}
    BY <2>1
  <2>. HIDE DEF expirers
  <2>3. Cardinality(expirers) <= 1
    BY <2>2, FS_EmptySet, FS_Singleton
  <2>. QED BY <2>3, CardinalityOfStartup DEF expirers, Su!OneExpirer
<1>. QED BY <1>2, <1>3, <1>4, <1>5, <1>6

\* A worker process that reports to be ready serves, no component runs before the queues
\* it reads exist, one that does not start keeps no other from being started, and at most
\* one worker process expires the shared storage, however many workers there are
\* (server_status.py, http_server.py, server_context.py).
THEOREM WorkersAlwaysStartInOrder == Spec => []WorkersStartInOrder
<1>. DEFINE Inv == part = "startup" => StartInv
<1>1. Init => Inv
  BY StartupBegins DEF Init
<1>2. Inv /\ [Next]_ServiceVars => Inv'
  BY PartSteps, StartupStep
<1>3. Inv => WorkersStartInOrder
  BY StartupFollows DEF WorkersStartInOrder
<1>. HIDE DEF Inv
<1>. QED BY <1>1, <1>2, <1>3, PTL DEF Spec
-----------------------------------------------------------------------------
(* Tool selection: what a tool call was offered is what is recorded for its id,
   until it ran. *)

CallRecords ==
  [id : CallIds \cup {Ts!NoId}, tool : OfferedTools, model : BOOLEAN, offered : SUBSET OfferedTools,
   state : {"made", "running", "ran", "denied"}, tries : Nat]

Recorded == CallIds \cup {Ts!NoId}

IsRecord(r) == r = [id \in DOMAIN r |-> r[id]] /\ DOMAIN r \subseteq Recorded

\* The tool calls of an answer: their ids differ, and those of a model that have not run
\* are recorded with what was offered.
GoodCalls(list, r) ==
  /\ list \in [DOMAIN list -> CallRecords]
  /\ \A i, j \in DOMAIN list : i # j /\ list[i].id = list[j].id => list[i].id = Ts!NoId
  /\ \A i, j \in DOMAIN list : list[i].model = list[j].model
  /\ \A i \in DOMAIN list : list[i].model = TRUE =>
       /\ list[i].state \in {"made", "running"} => list[i].id \in DOMAIN r /\ r[list[i].id] = list[i].offered
       /\ list[i].state \in {"running", "ran"} => list[i].tool \in list[i].offered
       /\ list[i].state = "denied" => list[i].tool \notin list[i].offered

AgentRecord(x) == x = [pc |-> x.pc, space |-> x.space, calls |-> x.calls]

GoodAgent(x, tables) ==
  /\ AgentRecord(x)
  /\ x.pc \in {"new", "model", "tools", "done"}
  /\ x.pc = "new" => x.space = "none"
  /\ x.pc \in {"model", "tools"} => x.space # "none" /\ x.space \in DOMAIN tables
  /\ x.pc # "tools" => DOMAIN x.calls = {}
  /\ x.pc = "tools" => GoodCalls(x.calls, tables[x.space])

SelectionInv ==
  /\ answers \in 0..MaxAnswers
  /\ agents = [a \in Selecting |-> agents[a]]
  /\ advertised = [n \in DOMAIN advertised |-> advertised[n]] /\ DOMAIN advertised \subseteq Namespaces
  /\ \A n \in DOMAIN advertised : IsRecord(advertised[n])
  /\ \A a, b \in Selecting : a # b /\ agents[a].pc \in {"model", "tools"} /\ agents[a].space = agents[b].space
                               => agents[b].pc = "done"
  /\ \A a \in Selecting : GoodAgent(agents[a], advertised)

LEMMA SelectionTypes == MaxCalls \in Nat /\ MaxAnswers \in Nat /\ Ts!NoId \notin CallIds
BY PartsAssumption DEF Ts!SelectionAssumption

LEMMA AgentRecords ==
  ASSUME NEW x, AgentRecord(x)
  PROVE  /\ \A p, s : [x EXCEPT !.pc = p, !.space = s] = [pc |-> p, space |-> s, calls |-> x.calls]
         /\ \A p, c : [x EXCEPT !.calls = c, !.pc = p] = [pc |-> p, space |-> x.space, calls |-> c]
         /\ \A p, c : [x EXCEPT !.pc = p, !.calls = c] = [pc |-> p, space |-> x.space, calls |-> c]
         /\ \A c : [x EXCEPT !.calls = c] = [pc |-> x.pc, space |-> x.space, calls |-> c]
<1>. SUFFICES ASSUME NEW p, NEW s, NEW c
              PROVE  /\ [x EXCEPT !.pc = p, !.space = s] = [pc |-> p, space |-> s, calls |-> x.calls]
                     /\ [x EXCEPT !.calls = c, !.pc = p] = [pc |-> p, space |-> x.space, calls |-> c]
                     /\ [x EXCEPT !.pc = p, !.calls = c] = [pc |-> p, space |-> x.space, calls |-> c]
                     /\ [x EXCEPT !.calls = c] = [pc |-> x.pc, space |-> x.space, calls |-> c]
  OBVIOUS
<1>. DEFINE Records == [pc : {x.pc, p}, space : {x.space, s}, calls : {x.calls, c}]
<1>1. x \in Records
  BY DEF AgentRecord
<1>2. [x EXCEPT !.pc = p, !.space = s] = [pc |-> p, space |-> s, calls |-> x.calls]
  <2>. DEFINE y == [x EXCEPT !.pc = p, !.space = s]
  <2>1. y \in Records /\ y.pc = p /\ y.space = s /\ y.calls = x.calls
    BY <1>1
  <2>. HIDE DEF y
  <2>2. y = [pc |-> p, space |-> s, calls |-> x.calls]
    BY <2>1
  <2>. QED BY <2>2 DEF y
<1>3. [x EXCEPT !.calls = c, !.pc = p] = [pc |-> p, space |-> x.space, calls |-> c]
  <2>. DEFINE y == [x EXCEPT !.calls = c, !.pc = p]
  <2>1. y \in Records /\ y.pc = p /\ y.space = x.space /\ y.calls = c
    BY <1>1
  <2>. HIDE DEF y
  <2>2. y = [pc |-> p, space |-> x.space, calls |-> c]
    BY <2>1
  <2>. QED BY <2>2 DEF y
<1>4. [x EXCEPT !.pc = p, !.calls = c] = [pc |-> p, space |-> x.space, calls |-> c]
  <2>. DEFINE y == [x EXCEPT !.pc = p, !.calls = c]
  <2>1. y \in Records /\ y.pc = p /\ y.space = x.space /\ y.calls = c
    BY <1>1
  <2>. HIDE DEF y
  <2>2. y = [pc |-> p, space |-> x.space, calls |-> c]
    BY <2>1
  <2>. QED BY <2>2 DEF y
<1>5. [x EXCEPT !.calls = c] = [pc |-> x.pc, space |-> x.space, calls |-> c]
  BY <1>1
<1>. QED BY <1>2, <1>3, <1>4, <1>5

LEMMA SelectionBegins == Ts!Init => SelectionInv
<1>. SUFFICES ASSUME Ts!Init PROVE SelectionInv
  OBVIOUS
<1>1. /\ answers = 0 /\ advertised = <<>>
      /\ agents = [a \in Selecting |-> [pc |-> "new", space |-> "none", calls |-> <<>>]]
  BY DEF Ts!Init
<1>2. DOMAIN advertised = {} /\ advertised = [n \in DOMAIN advertised |-> advertised[n]]
  BY <1>1
<1>. QED BY <1>1, <1>2, SelectionTypes DEF SelectionInv, GoodAgent, AgentRecord

\* What one agent does with its own namespace does not touch the others.
OwnStep(a, x, tables) ==
  /\ agents[a].pc \in {"model", "tools"} /\ x.space = agents[a].space
  /\ x.pc \in {"model", "tools", "done"} /\ GoodAgent(x, tables)
  /\ DOMAIN tables = DOMAIN advertised /\ tables = [n \in DOMAIN tables |-> tables[n]]
  /\ \A n \in DOMAIN tables : n # x.space => tables[n] = advertised[n]
  /\ x.space \in DOMAIN tables => IsRecord(tables[x.space])

LEMMA OneAgentSteps ==
  ASSUME SelectionInv, NEW a \in Selecting, NEW x, NEW tables, OwnStep(a, x, tables),
         agents' = [agents EXCEPT ![a] = x], advertised' = tables, answers' \in 0..MaxAnswers
  PROVE  SelectionInv'
<1>1. /\ agents' = [b \in Selecting |-> agents'[b]] /\ agents'[a] = x
      /\ \A b \in Selecting \ {a} : agents'[b] = agents[b]
  BY DEF SelectionInv
<1>. USE DEF OwnStep
<1>2. ASSUME NEW b \in Selecting PROVE GoodAgent(agents'[b], advertised')
  <2>1. CASE b = a
    BY <1>1, <2>1
  <2>2. CASE b # a /\ agents[b].space = x.space
    <3>1. agents[b].pc = "done" /\ GoodAgent(agents[b], advertised)
      BY <2>2 DEF SelectionInv
    <3>. QED BY <1>1, <2>2, <3>1 DEF GoodAgent
  <2>3. CASE b # a /\ agents[b].space # x.space
    <3>1. GoodAgent(agents[b], advertised)
      BY DEF SelectionInv
    <3>. QED BY <1>1, <2>3, <3>1 DEF GoodAgent
  <2>. QED BY <2>1, <2>2, <2>3
<1>3. ASSUME NEW b \in Selecting, NEW c \in Selecting, b # c,
             agents'[b].pc \in {"model", "tools"}, agents'[b].space = agents'[c].space
      PROVE  agents'[c].pc = "done"
  BY <1>1, <1>3 DEF SelectionInv
<1>. QED BY <1>1, <1>2, <1>3 DEF SelectionInv

LEMMA SelectionActivates ==
  ASSUME SelectionInv, NEW a \in Selecting, NEW n \in Namespaces, Ts!Activate(a, n)
  PROVE  SelectionInv'
<1>. DEFINE x == [agents[a] EXCEPT !.pc = "model", !.space = n]
            tables == IF n \in DOMAIN advertised THEN advertised
                      ELSE [m \in DOMAIN advertised \cup {n} |-> IF m \in DOMAIN advertised THEN advertised[m] ELSE <<>>]
<1>1. /\ agents[a].pc = "new" /\ \A b \in Selecting : agents[b].space = n => agents[b].pc = "done"
      /\ agents' = [agents EXCEPT ![a].pc = "model", ![a].space = n]
      /\ advertised' = tables /\ answers' = answers
  BY DEF Ts!Activate, Ts!NamespaceOf
<1>2. GoodAgent(agents[a], advertised)
  BY DEF SelectionInv
<1>3. x = [pc |-> "model", space |-> n, calls |-> agents[a].calls]
  <2>1. AgentRecord(agents[a])
    BY <1>2 DEF GoodAgent
  <2>2. [agents[a] EXCEPT !.pc = "model", !.space = n] = [pc |-> "model", space |-> n, calls |-> agents[a].calls]
    <3>. DEFINE y == agents[a]
    <3>. HIDE DEF x, tables, y
    <3>1. AgentRecord(y) => \A p, s : [y EXCEPT !.pc = p, !.space = s] = [pc |-> p, space |-> s, calls |-> y.calls]
      BY AgentRecords, Zenon
    <3>2. AgentRecord(y) => [y EXCEPT !.pc = "model", !.space = n] = [pc |-> "model", space |-> n, calls |-> y.calls]
      BY <3>1, Zenon
    <3>. QED BY <2>1, <3>2 DEF y
  <2>. QED BY <2>2
<1>4. agents' = [agents EXCEPT ![a] = x]
  BY <1>1 DEF SelectionInv
<1>. HIDE DEF x
<1>5. /\ tables = [m \in DOMAIN tables |-> tables[m]] /\ DOMAIN tables = DOMAIN advertised \cup {n}
      /\ \A m \in DOMAIN advertised : tables[m] = advertised[m]
      /\ \A m \in DOMAIN tables : IsRecord(tables[m])
  <2>1. CASE n \in DOMAIN advertised
    BY <2>1 DEF SelectionInv
  <2>2. CASE n \notin DOMAIN advertised
    <3>1. tables = [m \in DOMAIN advertised \cup {n} |-> IF m \in DOMAIN advertised THEN advertised[m] ELSE <<>>]
      BY <2>2
    <3>. HIDE DEF tables
    <3>2. IsRecord(<<>>)
      BY DEF IsRecord
    <3>3. /\ DOMAIN tables = DOMAIN advertised \cup {n} /\ tables[n] = <<>>
          /\ \A m \in DOMAIN advertised : tables[m] = advertised[m] /\ IsRecord(advertised[m])
      BY <2>2, <3>1 DEF SelectionInv
    <3>. QED BY <3>1, <3>2, <3>3
  <2>. QED BY <2>1, <2>2
<1>. HIDE DEF tables
<1>6. agents[a].space = "none" /\ n # "none" /\ DOMAIN agents[a].calls = {}
  BY <1>1, <1>2 DEF GoodAgent
<1>7. /\ agents' = [b \in Selecting |-> agents'[b]] /\ agents'[a] = x
      /\ \A b \in Selecting \ {a} : agents'[b] = agents[b]
  BY <1>4 DEF SelectionInv
<1>8. ASSUME NEW b \in Selecting PROVE GoodAgent(agents'[b], advertised')
  <2>1. CASE b = a
    <3>1. x.pc = "model" /\ x.space = n /\ x.calls = agents[a].calls /\ AgentRecord(x)
      BY <1>3 DEF AgentRecord
    <3>2. GoodAgent(x, tables)
      BY <1>5, <1>6, <3>1 DEF GoodAgent
    <3>. QED BY <1>1, <1>7, <2>1, <3>2
  <2>2. CASE b # a
    <3>1. GoodAgent(agents[b], advertised)
      BY DEF SelectionInv
    <3>. QED BY <1>1, <1>5, <1>7, <2>2, <3>1 DEF GoodAgent
  <2>. QED BY <2>1, <2>2
<1>9. ASSUME NEW b \in Selecting, NEW c \in Selecting, b # c,
             agents'[b].pc \in {"model", "tools"}, agents'[b].space = agents'[c].space
      PROVE  agents'[c].pc = "done"
  BY <1>1, <1>3, <1>7, <1>9 DEF SelectionInv
<1>. QED BY <1>1, <1>5, <1>7, <1>8, <1>9 DEF SelectionInv

\* An answer, of the model or in its place.
LEMMA GoodAnswer ==
  ASSUME NEW list \in Ts!ToolCalls, NEW model \in BOOLEAN, NEW offered \in SUBSET OfferedTools, NEW r,
         model => \A i \in DOMAIN list : list[i][1] \in DOMAIN r /\ r[list[i][1]] = offered
  PROVE  /\ GoodCalls(Ts!Made(list, model, offered), r)
         /\ DOMAIN Ts!Made(list, model, offered) = DOMAIN list
<1>. DEFINE new == Ts!Made(list, model, offered)
<1>1. /\ list \in [DOMAIN list -> (CallIds \cup {Ts!NoId}) \X OfferedTools]
      /\ \A i, j \in DOMAIN list : i # j /\ list[i][1] = list[j][1] => list[i][1] = Ts!NoId
  BY DEF Ts!ToolCalls
<1>2. /\ new = [i \in DOMAIN list |-> new[i]]
      /\ \A i \in DOMAIN list :
           new[i] = [id |-> list[i][1], tool |-> list[i][2], model |-> model, offered |-> offered,
                     state |-> "made", tries |-> 0]
  BY DEF Ts!Made
<1>. HIDE DEF new
<1>3. ASSUME NEW i \in DOMAIN list
      PROVE  /\ new[i] \in CallRecords /\ new[i].id = list[i][1] /\ new[i].model = model
             /\ new[i].offered = offered /\ new[i].state = "made"
  <2>1. list[i][1] \in CallIds \cup {Ts!NoId} /\ list[i][2] \in OfferedTools
    BY <1>1
  <2>. QED BY <1>2, <2>1 DEF CallRecords
<1>4. GoodCalls(new, r)
  BY <1>1, <1>2, <1>3 DEF GoodCalls
<1>. QED BY <1>2, <1>4 DEF new

LEMMA SelectionAnswers ==
  ASSUME SelectionInv, NEW a \in Selecting, NEW list \in Ts!ToolCalls, NEW model \in BOOLEAN,
         NEW offered \in SUBSET OfferedTools, Ts!Answered(a, list, model, offered),
         advertised' = IF model THEN Ts!Stamp(a, list, offered) ELSE advertised
  PROVE  SelectionInv'
<1>. DEFINE space == agents[a].space
            ids == {list[i][1] : i \in DOMAIN list}
            r == IF model THEN [id \in DOMAIN advertised[space] \cup ids |->
                                  IF id \in ids THEN offered ELSE advertised[space][id]]
                 ELSE advertised[space]
            tables == [advertised EXCEPT ![space] = r]
            new == Ts!Made(list, model, offered)
            x == [pc |-> IF list = <<>> THEN "done" ELSE "tools", space |-> space, calls |-> new]
<1>1. /\ agents[a].pc = "model" /\ answers < MaxAnswers /\ answers' = answers + 1
      /\ agents' = [agents EXCEPT ![a].calls = new, ![a].pc = IF list = <<>> THEN "done" ELSE "tools"]
  BY DEF Ts!Answered
<1>2. GoodAgent(agents[a], advertised)
  BY DEF SelectionInv
<1>3. space \in DOMAIN advertised /\ space # "none" /\ IsRecord(advertised[space])
  BY <1>1, <1>2 DEF GoodAgent, SelectionInv
<1>4. agents' = [agents EXCEPT ![a] = x]
  <2>1. AgentRecord(agents[a])
    BY <1>2 DEF GoodAgent
  <2>2. [agents[a] EXCEPT !.calls = new, !.pc = IF list = <<>> THEN "done" ELSE "tools"] = x
    <3>. HIDE DEF new
    <3>. QED BY <2>1, AgentRecords
  <2>. HIDE DEF new, x, space
  <2>. QED BY <1>1, <2>2 DEF SelectionInv
<1>5. advertised' = tables
  <2>1. CASE model
    BY <2>1 DEF Ts!Stamp
  <2>2. CASE ~model
    <3>1. [advertised EXCEPT ![space] = advertised[space]] = advertised
      BY DEF SelectionInv
    <3>. QED BY <2>2, <3>1
  <2>. QED BY <2>1, <2>2
<1>6. IsRecord(r)
  <2>1. ids \subseteq Recorded
    BY DEF Ts!ToolCalls, Recorded
  <2>. QED BY <1>3, <2>1 DEF IsRecord
<1>7. model => \A i \in DOMAIN list : list[i][1] \in DOMAIN r /\ r[list[i][1]] = offered
  OBVIOUS
<1>. HIDE DEF r
<1>8. GoodCalls(new, r) /\ DOMAIN new = DOMAIN list
  BY <1>7, GoodAnswer
<1>9. /\ DOMAIN tables = DOMAIN advertised /\ tables = [n \in DOMAIN tables |-> tables[n]]
      /\ tables[space] = r /\ \A n \in DOMAIN tables : n # space => tables[n] = advertised[n]
  BY <1>3 DEF SelectionInv
<1>. HIDE DEF tables, new, space
<1>10. GoodAgent(x, tables)
  <2>1. list = <<>> => DOMAIN list = {}
    OBVIOUS
  <2>. QED BY <1>3, <1>8, <1>9, <2>1 DEF GoodAgent, AgentRecord
<1>11. x.space = space /\ x.pc \in {"model", "tools", "done"}
  OBVIOUS
<1>12. answers' \in 0..MaxAnswers
  BY <1>1, SelectionTypes DEF SelectionInv
<1>. HIDE DEF x
<1>13. /\ x.space = agents[a].space /\ \A n \in DOMAIN tables : n # x.space => tables[n] = advertised[n]
       /\ (x.space \in DOMAIN tables => IsRecord(tables[x.space])) /\ agents[a].pc \in {"model", "tools"}
  BY <1>1, <1>6, <1>9, <1>11 DEF space
<1>14. DOMAIN tables = DOMAIN advertised /\ tables = [n \in DOMAIN tables |-> tables[n]]
  BY <1>9
<1>. QED
  <2>1. GoodAgent(x, tables) /\ x.pc \in {"model", "tools", "done"}
    BY <1>10, <1>11 DEF x
  <2>2. OwnStep(a, x, tables)
    BY <1>13, <1>14, <2>1 DEF OwnStep
  <2>. QED BY <1>4, <1>5, <1>12, <2>2, OneAgentSteps

\* One tool call goes on, and its entry is forgotten or not.
GoesOn(old, new, forget) ==
  /\ new \in CallRecords /\ new.id = old.id /\ new.model = old.model /\ new.offered = old.offered
  /\ new.tool = old.tool
  /\ old.model = TRUE => /\ new.state \in {"running", "ran"} => new.tool \in new.offered
                         /\ new.state = "denied" => new.tool \notin new.offered
                         /\ new.state \in {"made", "running"} => old.state \in {"made", "running"}
  /\ forget => new.id # Ts!NoId /\ new.state = "ran"

LEMMA CallGoesOn ==
  ASSUME NEW list, NEW r, IsRecord(r), GoodCalls(list, r), NEW i \in DOMAIN list, NEW new, NEW forget \in BOOLEAN,
         GoesOn(list[i], new, forget)
  PROVE  GoodCalls([list EXCEPT ![i] = new], IF forget THEN [k \in DOMAIN r \ {new.id} |-> r[k]] ELSE r)
<1>. USE DEF GoesOn
<1>. DEFINE after == [list EXCEPT ![i] = new]
            left == IF forget THEN [k \in DOMAIN r \ {new.id} |-> r[k]] ELSE r
<1>1. /\ DOMAIN after = DOMAIN list /\ after \in [DOMAIN list -> CallRecords] /\ after[i] = new
      /\ \A j \in DOMAIN list \ {i} : after[j] = list[j]
  BY DEF GoodCalls
<1>2. \A k \in DOMAIN r : ~forget \/ k # new.id => k \in DOMAIN left /\ left[k] = r[k]
  OBVIOUS
<1>. HIDE DEF after, left
<1>3. /\ \A j, k \in DOMAIN after : j # k /\ after[j].id = after[k].id => after[j].id = Ts!NoId
      /\ \A j, k \in DOMAIN after : after[j].model = after[k].model
  BY <1>1 DEF GoodCalls
<1>4. ASSUME NEW j \in DOMAIN list, after[j].model = TRUE
      PROVE  /\ after[j].state \in {"made", "running"} =>
                  after[j].id \in DOMAIN left /\ left[after[j].id] = after[j].offered
             /\ after[j].state \in {"running", "ran"} => after[j].tool \in after[j].offered
             /\ after[j].state = "denied" => after[j].tool \notin after[j].offered
  <2>1. CASE j = i
    <3>1. list[i].model = TRUE
      BY <1>1, <1>4, <2>1
    <3>2. list[i].state \in {"made", "running"} => list[i].id \in DOMAIN r /\ r[list[i].id] = list[i].offered
      BY <3>1 DEF GoodCalls
    <3>3. new.state \in {"made", "running"} => ~forget
      OBVIOUS
    <3>. QED BY <1>1, <1>2, <2>1, <3>1, <3>2, <3>3
  <2>2. CASE j # i
    <3>1. after[j] = list[j]
      BY <1>1, <2>2
    <3>2. list[j].state \in {"made", "running"} => list[j].id \in DOMAIN r /\ r[list[j].id] = list[j].offered
      BY <1>4, <3>1 DEF GoodCalls
    <3>3. forget => list[j].id # new.id
      BY <2>2 DEF GoodCalls
    <3>. QED BY <1>2, <1>4, <3>1, <3>2, <3>3 DEF GoodCalls
  <2>. QED BY <2>1, <2>2
<1>5. GoodCalls(after, left)
  BY <1>1, <1>3, <1>4 DEF GoodCalls
<1>. QED BY <1>5 DEF after, left

LEMMA SelectionCalls ==
  ASSUME SelectionInv, NEW a \in Selecting, NEW i \in DOMAIN agents[a].calls,
         Ts!Judge(a, i) \/ Ts!Succeed(a, i) \/ Ts!Fail(a, i)
  PROVE  SelectionInv'
<1>. DEFINE space == agents[a].space
            list == agents[a].calls
            r == advertised[space]
<1>1. agents[a].pc = "tools" /\ answers' = answers
  BY DEF Ts!Judge, Ts!Succeed, Ts!Fail
<1>2. GoodAgent(agents[a], advertised)
  BY DEF SelectionInv
<1>3. /\ AgentRecord(agents[a]) /\ space # "none" /\ space \in DOMAIN advertised /\ GoodCalls(list, r)
      /\ IsRecord(r)
  BY <1>1, <1>2 DEF GoodAgent, SelectionInv
<1>4. /\ advertised = [n \in DOMAIN advertised |-> advertised[n]]
      /\ \A n \in DOMAIN advertised : IsRecord(advertised[n])
      /\ agents = [b \in Selecting |-> agents[b]]
  BY DEF SelectionInv
<1>5. answers' \in 0..MaxAnswers
  BY <1>1 DEF SelectionInv
\* A call goes on with a new record, and its entry is forgotten or not.
<1>6. ASSUME NEW new, NEW forget \in BOOLEAN, GoesOn(list[i], new, forget),
             agents' = [agents EXCEPT ![a].calls[i] = new],
             advertised' = IF forget THEN [advertised EXCEPT ![space] = [k \in DOMAIN @ \ {new.id} |-> @[k]]]
                           ELSE advertised
      PROVE  SelectionInv'
  <2>. DEFINE calls1 == [list EXCEPT ![i] = new]
              x == [pc |-> "tools", space |-> space, calls |-> calls1]
              left == IF forget THEN [k \in DOMAIN r \ {new.id} |-> r[k]] ELSE r
              tables == [advertised EXCEPT ![space] = left]
  <2>1. GoodCalls(calls1, left)
    <3>1. i \in DOMAIN list
      OBVIOUS
    <3>. HIDE DEF list, r
    <3>. QED BY <1>3, <1>6, <3>1, CallGoesOn
  <2>2. IsRecord(left)
    BY <1>3 DEF IsRecord
  <2>3. advertised' = tables
    <3>1. CASE forget
      BY <1>6, <3>1
    <3>2. CASE ~forget
      <4>1. [advertised EXCEPT ![space] = r] = advertised
        BY <1>4
      <4>. QED BY <1>6, <3>2, <4>1
    <3>. QED BY <3>1, <3>2
  <2>4. agents' = [agents EXCEPT ![a] = x]
    <3>1. [agents[a] EXCEPT !.calls = calls1] = [pc |-> agents[a].pc, space |-> space, calls |-> calls1]
      <4>. DEFINE y == agents[a]
      <4>. HIDE DEF calls1, y
      <4>1. AgentRecord(y) => \A c : [y EXCEPT !.calls = c] = [pc |-> y.pc, space |-> y.space, calls |-> c]
        BY AgentRecords, Zenon
      <4>2. AgentRecord(y) => [y EXCEPT !.calls = calls1] = [pc |-> y.pc, space |-> y.space, calls |-> calls1]
        BY <4>1, Zenon
      <4>. QED BY <1>3, <4>2 DEF y
    <3>2. [agents[a] EXCEPT !.calls = calls1] = x
      BY <1>1, <3>1
    <3>3. agents' = [agents EXCEPT ![a] = [agents[a] EXCEPT !.calls = calls1]]
      BY <1>6
    <3>. QED BY <3>2, <3>3
  <2>. HIDE DEF left, calls1
  <2>5. /\ DOMAIN tables = DOMAIN advertised /\ tables = [n \in DOMAIN tables |-> tables[n]]
        /\ tables[space] = left /\ \A n \in DOMAIN tables : n # space => tables[n] = advertised[n]
    BY <1>3, <1>4
  <2>. HIDE DEF tables
  <2>6. x.space = space /\ x.pc = "tools" /\ x.calls = calls1 /\ AgentRecord(x)
    BY DEF AgentRecord
  <2>. HIDE DEF x
  <2>7. GoodAgent(x, tables)
    BY <1>3, <2>1, <2>5, <2>6 DEF GoodAgent
  <2>8. OwnStep(a, x, tables)
    BY <1>1, <2>2, <2>5, <2>6, <2>7 DEF OwnStep
  <2>. QED BY <1>5, <2>3, <2>4, <2>8, OneAgentSteps
<1>7. /\ list[i] \in CallRecords
      /\ list[i].model = TRUE =>
           /\ list[i].state \in {"made", "running"} => list[i].id \in DOMAIN r /\ r[list[i].id] = list[i].offered
           /\ list[i].state \in {"running", "ran"} => list[i].tool \in list[i].offered
  BY <1>3 DEF GoodCalls
<1>8. ASSUME NEW s \in {"made", "running", "ran", "denied"}, NEW t \in Nat
      PROVE  LET new == [list[i] EXCEPT !.state = s, !.tries = t] IN
             /\ new \in CallRecords /\ new.id = list[i].id /\ new.model = list[i].model
             /\ new.offered = list[i].offered /\ new.tool = list[i].tool /\ new.state = s
  BY <1>7 DEF CallRecords
<1>9. ASSUME NEW s \in {"made", "running", "ran", "denied"}
      PROVE  LET new == [list[i] EXCEPT !.state = s] IN
             /\ new \in CallRecords /\ new.id = list[i].id /\ new.model = list[i].model
             /\ new.offered = list[i].offered /\ new.tool = list[i].tool /\ new.state = s
  BY <1>7 DEF CallRecords
<1>10. ASSUME NEW s, Ts!Put(a, i, s)
       PROVE  agents' = [agents EXCEPT ![a].calls[i] = [list[i] EXCEPT !.state = s]]
  BY <1>10 DEF Ts!Put
<1>11. CASE Ts!Judge(a, i)
  <2>. DEFINE denied == IF list[i].id \in DOMAIN r THEN list[i].tool \notin r[list[i].id] ELSE Denies
  <2>1. /\ list[i].state = "made" /\ advertised' = advertised
        /\ \/ denied /\ Ts!Put(a, i, "denied")
           \/ ~denied /\ Ts!Put(a, i, "running")
    BY <1>11 DEF Ts!Judge, Ts!IsDenied, Ts!Record
  <2>2. list[i].model = TRUE => (denied <=> list[i].tool \notin list[i].offered)
    BY <1>7, <2>1
  <2>. HIDE DEF denied
  <2>3. CASE denied /\ Ts!Put(a, i, "denied")
    <3>. DEFINE new == [list[i] EXCEPT !.state = "denied"]
    <3>1. /\ new \in CallRecords /\ new.id = list[i].id /\ new.model = list[i].model
          /\ new.offered = list[i].offered /\ new.tool = list[i].tool /\ new.state = "denied"
      BY <1>9
    <3>2. agents' = [agents EXCEPT ![a].calls[i] = new]
      BY <1>10, <2>3
    <3>. HIDE DEF new
    <3>3. GoesOn(list[i], new, FALSE)
      BY <2>1, <2>2, <2>3, <3>1 DEF GoesOn
    <3>. QED BY <1>6, <2>1, <3>2, <3>3
  <2>4. CASE ~denied /\ Ts!Put(a, i, "running")
    <3>. DEFINE new == [list[i] EXCEPT !.state = "running"]
    <3>1. /\ new \in CallRecords /\ new.id = list[i].id /\ new.model = list[i].model
          /\ new.offered = list[i].offered /\ new.tool = list[i].tool /\ new.state = "running"
      BY <1>9
    <3>2. agents' = [agents EXCEPT ![a].calls[i] = new]
      BY <1>10, <2>4
    <3>. HIDE DEF new
    <3>3. GoesOn(list[i], new, FALSE)
      BY <2>1, <2>2, <2>4, <3>1 DEF GoesOn
    <3>. QED BY <1>6, <2>1, <3>2, <3>3
  <2>. QED BY <2>1, <2>3, <2>4
<1>12. CASE Ts!Succeed(a, i)
  <2>. DEFINE new == [list[i] EXCEPT !.state = "ran"]
              forget == list[i].id # Ts!NoId
  <2>1. /\ list[i].state = "running" /\ Ts!Put(a, i, "ran")
        /\ advertised' = IF forget THEN [advertised EXCEPT ![space] = [k \in DOMAIN @ \ {list[i].id} |-> @[k]]]
                         ELSE advertised
    BY <1>12 DEF Ts!Succeed, Ts!Without
  <2>2. /\ new \in CallRecords /\ new.id = list[i].id /\ new.model = list[i].model
        /\ new.offered = list[i].offered /\ new.tool = list[i].tool /\ new.state = "ran"
    BY <1>9
  <2>3. agents' = [agents EXCEPT ![a].calls[i] = new]
    BY <1>10, <2>1
  <2>. HIDE DEF new
  <2>4. forget \in BOOLEAN /\ (forget => new.id # Ts!NoId /\ new.state = "ran")
    BY <2>2
  <2>. HIDE DEF forget
  <2>5. GoesOn(list[i], new, forget)
    BY <1>7, <2>1, <2>2, <2>4 DEF GoesOn
  <2>6. new.id = list[i].id
    BY <2>2
  <2>. QED BY <1>6, <2>1, <2>3, <2>4, <2>5, <2>6
<1>13. CASE Ts!Fail(a, i)
  <2>1. /\ list[i].state = "running" /\ advertised' = advertised
        /\ \/ agents' = [agents EXCEPT ![a].calls[i].state = "made", ![a].calls[i].tries = @ + 1]
           \/ agents' = [agents EXCEPT ![a].pc = "done", ![a].calls = <<>>]
    BY <1>13 DEF Ts!Fail
  <2>2. CASE agents' = [agents EXCEPT ![a].calls[i].state = "made", ![a].calls[i].tries = @ + 1]
    <3>. DEFINE new == [list[i] EXCEPT !.state = "made", !.tries = list[i].tries + 1]
    <3>1. list[i].tries + 1 \in Nat
      BY <1>7 DEF CallRecords
    <3>2. /\ new \in CallRecords /\ new.id = list[i].id /\ new.model = list[i].model
          /\ new.offered = list[i].offered /\ new.tool = list[i].tool /\ new.state = "made"
      BY <1>8, <3>1
    <3>3. agents' = [agents EXCEPT ![a].calls[i] = new]
      BY <1>3, <2>2 DEF AgentRecord
    <3>. HIDE DEF new
    <3>4. GoesOn(list[i], new, FALSE)
      BY <2>1, <3>2 DEF GoesOn
    <3>. QED BY <1>6, <2>1, <3>3, <3>4
  <2>3. CASE agents' = [agents EXCEPT ![a].pc = "done", ![a].calls = <<>>]
    <3>. DEFINE x == [pc |-> "done", space |-> space, calls |-> <<>>]
    <3>1. agents' = [agents EXCEPT ![a] = x]
      <4>1. [agents[a] EXCEPT !.pc = "done", !.calls = <<>>] = x
        <5>. DEFINE y == agents[a]
        <5>. HIDE DEF y
        <5>1. AgentRecord(y) => \A p, c : [y EXCEPT !.pc = p, !.calls = c] = [pc |-> p, space |-> y.space, calls |-> c]
          BY AgentRecords, Zenon
        <5>2. AgentRecord(y) => [y EXCEPT !.pc = "done", !.calls = <<>>]
              = [pc |-> "done", space |-> y.space, calls |-> <<>>]
          BY <5>1, Zenon
        <5>. QED BY <1>3, <5>2 DEF y
      <4>. QED BY <1>4, <2>3, <4>1
    <3>2. OwnStep(a, x, advertised)
      BY <1>1, <1>3, <1>4 DEF OwnStep, GoodAgent, AgentRecord
    <3>. HIDE DEF x
    <3>. QED BY <1>5, <2>1, <3>1, <3>2, OneAgentSteps
  <2>. QED BY <2>1, <2>2, <2>3
<1>. QED BY <1>11, <1>12, <1>13

LEMMA SelectionStep ==
  ASSUME SelectionInv, [Ts!Next]_TsVars PROVE SelectionInv'
<1>1. CASE UNCHANGED TsVars
  BY <1>1 DEF TsVars, SelectionInv
<1>2. ASSUME NEW a \in Selecting, NEW n \in Namespaces, Ts!Activate(a, n) PROVE SelectionInv'
  BY <1>2, SelectionActivates
<1>3. ASSUME NEW a \in Selecting, Ts!ModelCall(a) PROVE SelectionInv'
  <2>1. PICK offered \in SUBSET OfferedTools, list \in Ts!ToolCalls :
          Ts!Answered(a, list, TRUE, offered) /\ advertised' = Ts!Stamp(a, list, offered)
    BY <1>3 DEF Ts!ModelCall
  <2>. QED BY <2>1, SelectionAnswers
<1>4. ASSUME NEW a \in Selecting, Ts!ShortCircuit(a) PROVE SelectionInv'
  <2>1. PICK list \in Ts!ToolCalls : Ts!Answered(a, list, FALSE, {}) /\ advertised' = advertised
    BY <1>4 DEF Ts!ShortCircuit
  <2>2. {} \in SUBSET OfferedTools
    OBVIOUS
  <2>. QED BY <2>1, <2>2, SelectionAnswers
<1>5. ASSUME NEW a \in Selecting, Ts!AskAgain(a) PROVE SelectionInv'
  <2>. DEFINE x == [pc |-> "model", space |-> agents[a].space, calls |-> <<>>]
  <2>1. /\ agents[a].pc = "tools" /\ agents' = [agents EXCEPT ![a].pc = "model", ![a].calls = <<>>]
        /\ UNCHANGED <<advertised, answers>>
    BY <1>5 DEF Ts!AskAgain
  <2>2. GoodAgent(agents[a], advertised) /\ answers' \in 0..MaxAnswers
    BY <2>1 DEF SelectionInv
  <2>3. agents' = [agents EXCEPT ![a] = x]
    <3>1. [agents[a] EXCEPT !.pc = "model", !.calls = <<>>] = x
      <4>. DEFINE y == agents[a]
      <4>. HIDE DEF y
      <4>1. AgentRecord(y) => \A p, c : [y EXCEPT !.pc = p, !.calls = c] = [pc |-> p, space |-> y.space, calls |-> c]
        BY AgentRecords, Zenon
      <4>2. AgentRecord(y) => [y EXCEPT !.pc = "model", !.calls = <<>>]
              = [pc |-> "model", space |-> y.space, calls |-> <<>>]
        BY <4>1, Zenon
      <4>. QED BY <2>2, <4>2 DEF y, GoodAgent
    <3>. QED BY <2>1, <3>1 DEF SelectionInv
  <2>4. OwnStep(a, x, advertised)
    BY <2>1, <2>2 DEF OwnStep, GoodAgent, AgentRecord, SelectionInv
  <2>. HIDE DEF x
  <2>. QED BY <2>1, <2>2, <2>3, <2>4, OneAgentSteps
<1>. QED BY <1>1, <1>2, <1>3, <1>4, <1>5, SelectionCalls DEF Ts!Next

LEMMA SelectionFollows == SelectionInv => Ts!TypeOK /\ Ts!OnlyAdvertisedRun /\ Ts!AdvertisedRun
<1>. SUFFICES ASSUME SelectionInv
              PROVE  Ts!TypeOK /\ Ts!OnlyAdvertisedRun /\ Ts!AdvertisedRun
  OBVIOUS
<1>1. ASSUME NEW a \in Selecting
      PROVE  /\ agents[a].pc \in {"new", "model", "tools", "done"}
             /\ \A i \in DOMAIN agents[a].calls : GoodCalls(agents[a].calls, advertised[agents[a].space])
  BY DEF SelectionInv, GoodAgent
<1>2. Ts!TypeOK
  BY <1>1 DEF Ts!TypeOK, SelectionInv, IsRecord, Recorded
<1>3. ASSUME NEW a \in Selecting, NEW i \in DOMAIN agents[a].calls, agents[a].calls[i].model
      PROVE  /\ agents[a].calls[i].state \in {"running", "ran"} =>
                  agents[a].calls[i].tool \in agents[a].calls[i].offered
             /\ agents[a].calls[i].state = "denied" =>
                  agents[a].calls[i].tool \notin agents[a].calls[i].offered
  <2>. DEFINE list == agents[a].calls
  <2>1. GoodCalls(list, advertised[agents[a].space])
    BY <1>1
  <2>2. list[i].model = TRUE
    BY <1>3, <2>1 DEF GoodCalls, CallRecords
  <2>. QED BY <2>1, <2>2 DEF GoodCalls
<1>. QED BY <1>2, <1>3 DEF Ts!OnlyAdvertisedRun, Ts!AdvertisedRun
-----------------------------------------------------------------------------
(* MCP: every request is finished once; what a list has met, and what a call has
   heard, by how far they are. *)

Phases == {"new", "policy", "next", "network", "describe", "function", "allow", "flag", "timeout",
           "chat", "stream", "done"}
AnswerKinds == DOMAIN Mc!Statuses
Outcomes == AnswerKinds \cup {"none", "raised", "list", "not found", "not authorized", "not a tool",
                         "failed", "timeout", "result"}
Codes == {0, 500} \cup {Mc!Statuses[k] : k \in AnswerKinds}
Structures == {m.structure : m \in Messages} \cup {"none"}

PostRecords ==
  [pc : Phases, todo : Seq(Names), authorized : SUBSET Names, name : Names \cup {"none"},
   listed : Seq(Names \cup {"None"}), steady : SUBSET Names, script : Seq(Messages), heard : Nat,
   text : Seq({m.text : m \in Messages}), structure : Structures, timed : BOOLEAN,
   status : Codes, finishes : Nat, outcome : Outcomes]

\* What is offered to this client, and whose change is not on its way.
Stable == {n \in Mc!Permitted \cap allowed : table[n] = "tool" /\ n \notin news}

Own(script, h) == {i \in 1..h : script[i].type = "AGENT_FRAMEWORK"}
Structured(script, h) == {i \in Own(script, h) : script[i].structure # "none"}

\* The texts are those of the agents' own messages among the first h, in order.
TextIs(text, script, h) ==
  \E place \in [DOMAIN text -> Own(script, h)] :
    /\ Own(script, h) = {place[i] : i \in DOMAIN text}
    /\ \A i, j \in DOMAIN text : i < j => place[i] < place[j]
    /\ text = [i \in DOMAIN text |-> script[place[i]].text]

\* The structure is the last among them.
StructureIs(structure, script, h) ==
  IF Structured(script, h) = {} THEN structure = "none"
  ELSE \E i \in Structured(script, h) : /\ structure = script[i].structure
                                        /\ \A j \in Structured(script, h) : j <= i

Finishing(p) ==
  /\ p \in PostRecords
  /\ p.finishes = IF p.pc = "done" THEN 1 ELSE 0
  /\ p.pc # "done" => p.outcome = "none"
  /\ p.pc \in {"new", "policy"} => p.listed = <<>>
  /\ p.pc \in {"new", "allow", "flag", "timeout", "chat"} => p.text = <<>> /\ p.structure = "none" /\ p.heard = 0
  /\ p.pc \in {"allow", "flag", "timeout", "chat", "stream"} => p.name \in Names
  /\ p.pc \in {"flag", "timeout", "chat", "stream"} \/ p.outcome = "result" => p.name \in Mc!Permitted

\* The name a list is at, in a set.
At(p) == IF p.pc \in {"network", "describe", "function"} THEN {p.name} ELSE {}

\* Every name is still to come, at hand, or listed, but never two of it; and none of what
\* is steady is lost.
Listing(p) ==
  p.pc \in {"next", "network", "describe", "function"} \/ p.outcome = "list" =>
    /\ At(p) \subseteq Names
    /\ \A i, j \in DOMAIN p.todo : p.todo[i] = p.todo[j] => i = j
    /\ \A n \in At(p) : n \notin SetOf(p.todo) /\ n \notin SetOf(p.listed)
    /\ \A n \in SetOf(p.todo) : n \notin SetOf(p.listed)
    /\ \A i, j \in DOMAIN p.listed : p.listed[i] = p.listed[j] /\ p.listed[i] \in Names => i = j
    /\ \A n \in SetOf(p.listed) : n \in Names => n \in Mc!Permitted
    /\ p.pc = "function" => p.name \in Mc!Permitted
    /\ p.steady \subseteq SetOf(p.todo) \cup SetOf(p.listed) \cup At(p)
    /\ p.steady \subseteq p.authorized
    /\ p.outcome = "list" => p.todo = <<>> /\ At(p) = {}

Telling(p) ==
  p.pc = "stream" \/ p.outcome = "result" =>
    /\ p.heard <= Len(p.script)
    /\ TextIs(p.text, p.script, p.heard) /\ StructureIs(p.structure, p.script, p.heard)
    /\ p.outcome = "result" => p.heard = Len(p.script)

GoodPost(p) == Finishing(p) /\ Listing(p) /\ Telling(p)

McpInv ==
  /\ policy \in Policies /\ table = [n \in Names |-> table[n]] /\ allowed \subseteq Names
  /\ news \subseteq Names /\ mcpChanges \in 0..MaxTableChanges
  /\ posts = [r \in Requests |-> posts[r]]
  /\ \A r \in Requests : GoodPost(posts[r]) /\ posts[r].steady \subseteq Stable

LEMMA McpTypes ==
  /\ IsFiniteSet(Names) /\ "None" \notin Names /\ Authorized \subseteq Names
  /\ MaxMessages \in Nat /\ MaxTableChanges \in Nat
<1>1. Mc!IsFiniteSet(Names) <=> IsFiniteSet(Names)
  BY DEF Mc!IsFiniteSet, IsFiniteSet
<1>2. Mc!IsFiniteSet(Names) /\ "None" \notin Names /\ Authorized \subseteq Names
  BY PartsAssumption DEF Mc!McpAssumption
<1>. QED BY <1>1, <1>2, PartsAssumption DEF Mc!McpAssumption

LEMMA CardinalityOfMcp == ASSUME NEW S PROVE Mc!Cardinality(S) = Cardinality(S)
BY DEF Mc!Cardinality, Cardinality

LEMMA McpBegins == Mc!Init => McpInv
<1>. SUFFICES ASSUME Mc!Init PROVE McpInv
  OBVIOUS
<1>1. /\ policy \in Policies /\ table \in [Names -> {"tool", "plain", "none"}] /\ allowed = Mc!Present
      /\ news = {} /\ mcpChanges = 0
  BY DEF Mc!Init
<1>. DEFINE new == [pc |-> "new", todo |-> <<>>, authorized |-> {}, name |-> "none", listed |-> <<>>, steady |-> {},
                    script |-> <<>>, heard |-> 0, text |-> <<>>, structure |-> "none", timed |-> FALSE,
                    status |-> 0, finishes |-> 0, outcome |-> "none"]
<1>2. posts = [r \in Requests |-> new]
  BY DEF Mc!Init
<1>3. new \in PostRecords
  BY DEF PostRecords, Phases, Structures, Codes, Outcomes
<1>4. GoodPost(new) /\ new.steady \subseteq Stable
  BY <1>3 DEF GoodPost, Finishing, Listing, Telling
<1>. HIDE DEF new
<1>. QED BY <1>1, <1>2, <1>4, McpTypes DEF McpInv, Mc!Present

\* The fields that do not change with a phase, or with the end.
SameList(p, q) ==
  /\ p.todo = q.todo /\ p.authorized = q.authorized /\ p.name = q.name /\ p.listed = q.listed
  /\ p.steady = q.steady
SameTalk(p, q) ==
  p.script = q.script /\ p.heard = q.heard /\ p.text = q.text /\ p.structure = q.structure

LEMMA GotoFields ==
  ASSUME NEW p \in PostRecords, NEW pc \in Phases
  PROVE  LET q == [p EXCEPT !.pc = pc] IN
         /\ q \in PostRecords /\ q.pc = pc /\ SameList(q, p) /\ SameTalk(q, p)
         /\ q.finishes = p.finishes /\ q.outcome = p.outcome
BY DEF PostRecords, SameList, SameTalk

LEMMA FinishedFields ==
  ASSUME NEW p \in PostRecords, NEW status_ \in Codes, NEW outcome \in Outcomes
  PROVE  LET q == Mc!Finished(p, status_, outcome) IN
         /\ q \in PostRecords /\ q.pc = "done" /\ SameList(q, p) /\ SameTalk(q, p)
         /\ q.finishes = p.finishes + 1 /\ q.outcome = outcome
<1>. DEFINE q == Mc!Finished(p, status_, outcome)
<1>1. q = [p EXCEPT !.pc = "done", !.status = status_, !.outcome = outcome, !.finishes = p.finishes + 1]
  BY DEF Mc!Finished
<1>2. "done" \in Phases /\ p.finishes + 1 \in Nat
  BY DEF Phases, PostRecords
<1>. HIDE DEF q
<1>3. /\ q \in PostRecords /\ q.pc = "done" /\ SameList(q, p) /\ SameTalk(q, p)
      /\ q.finishes = p.finishes + 1 /\ q.outcome = outcome
  BY <1>1, <1>2 DEF PostRecords, SameList, SameTalk
<1>. QED BY <1>3 DEF q

\* The response is finished with anything but a list or a result.
LEMMA EndsOtherwise ==
  ASSUME NEW p, GoodPost(p), p.pc # "done", NEW status_ \in Codes, NEW outcome \in Outcomes \ {"list", "result"}
  PROVE  GoodPost(Mc!Finished(p, status_, outcome)) /\ Mc!Finished(p, status_, outcome).steady = p.steady
<1>. DEFINE q == Mc!Finished(p, status_, outcome)
<1>1. p \in PostRecords /\ p.finishes = 0
  BY DEF GoodPost, Finishing
<1>2. /\ q \in PostRecords /\ q.pc = "done" /\ SameList(q, p) /\ q.finishes = p.finishes + 1
      /\ q.outcome = outcome
  BY <1>1, FinishedFields
<1>. HIDE DEF q
<1>3. GoodPost(q) /\ q.steady = p.steady
  BY <1>1, <1>2 DEF GoodPost, Finishing, Listing, Telling, SameList
<1>. QED BY <1>3 DEF q

LEMMA CodesAndOutcomes ==
  /\ {0, 200, 500} \subseteq Codes
  /\ {"raised", "not found", "not authorized", "not a tool", "failed", "timeout"}
       \subseteq Outcomes \ {"list", "result"}
  /\ {"list", "result"} \subseteq Outcomes
  /\ \A k \in AnswerKinds : k \in Outcomes \ {"list", "result"} /\ Mc!Statuses[k] \in Codes
<1>1. AnswerKinds = {"unparsable", "invalid", "initialize", "initialized", "ping", "version", "resources",
                     "prompts", "unknown", "arguments", "delete", "deleteNothing", "get"}
  BY DEF AnswerKinds, Mc!Statuses
<1>2. Mc!Statuses["ping"] = 200
  BY DEF Mc!Statuses
<1>3. {0, 200, 500} \subseteq Codes /\ \A k \in AnswerKinds : Mc!Statuses[k] \in Codes
  BY <1>1, <1>2 DEF Codes
<1>4. \A k \in AnswerKinds : k \in Outcomes \ {"list", "result"}
  BY <1>1 DEF Outcomes
<1>. QED BY <1>3, <1>4 DEF Outcomes

\* One request moves on, and the registry is as it was.
LEMMA PostMoves ==
  ASSUME McpInv, NEW r \in Requests, NEW q, GoodPost(q), q.steady \subseteq Stable,
         posts' = [posts EXCEPT ![r] = q], Mc!RegistryAsItWas
  PROVE  McpInv'
<1>1. /\ posts' = [s \in Requests |-> posts'[s]] /\ posts'[r] = q
      /\ \A s \in Requests \ {r} : posts'[s] = posts[s]
  BY DEF McpInv
<1>2. UNCHANGED <<policy, table, allowed, news, mcpChanges>>
  BY DEF Mc!RegistryAsItWas
<1>3. Stable' = Stable /\ Mc!Permitted' = Mc!Permitted
  BY <1>2 DEF Stable, Mc!Permitted
<1>4. ASSUME NEW p, GoodPost(p) PROVE GoodPost(p)'
  BY <1>3, <1>4 DEF GoodPost, Finishing, Listing, Telling
<1>5. ASSUME NEW s \in Requests PROVE (GoodPost(posts[s]) /\ posts[s].steady \subseteq Stable)'
  <2>1. GoodPost(posts[s]) /\ posts[s].steady \subseteq Stable
    BY DEF McpInv
  <2>2. CASE s = r
    BY <1>1, <1>3, <1>4, <2>2
  <2>3. CASE s # r
    BY <1>1, <1>3, <1>4, <2>1, <2>3
  <2>. QED BY <2>2, <2>3
<1>. QED BY <1>1, <1>2, <1>5 DEF McpInv

\* The watcher's thread, which changes what is offered.
LEMMA WatcherMoves ==
  ASSUME McpInv,
         (\E n \in Names, k \in {"tool", "plain", "none"} : Mc!Change(n, k)) \/ Mc!Announce
  PROVE  McpInv'
<1>0. Mc!Permitted' = Mc!Permitted
  BY DEF Mc!Change, Mc!Announce, Mc!Permitted
<1>a. ASSUME NEW p, GoodPost(p) PROVE GoodPost(p)'
  BY <1>0, <1>a DEF GoodPost, Finishing, Listing, Telling
<1>1. ASSUME NEW n \in Names, NEW k \in {"tool", "plain", "none"}, Mc!Change(n, k) PROVE McpInv'
  <2>1. /\ news = {} /\ mcpChanges < MaxTableChanges /\ mcpChanges' = mcpChanges + 1
        /\ table' = [table EXCEPT ![n] = k] /\ news' = IF "none" \in {k, table[n]} THEN {n} ELSE {}
        /\ posts' = [r \in Requests |-> [posts[r] EXCEPT !.steady = @ \ {n}]]
        /\ UNCHANGED <<policy, allowed>>
    BY <1>1 DEF Mc!Change
  <2>2. ASSUME NEW r \in Requests
        PROVE  GoodPost(posts'[r]) /\ posts'[r].steady = posts[r].steady \ {n}
    <3>. DEFINE p == posts[r]
                q == [p EXCEPT !.steady = p.steady \ {n}]
    <3>1. posts'[r] = q /\ GoodPost(p)
      BY <2>1 DEF McpInv
    <3>2. p \in PostRecords
      BY <3>1 DEF GoodPost, Finishing
    <3>. HIDE DEF p
    <3>3. /\ q \in PostRecords /\ q.pc = p.pc /\ q.todo = p.todo /\ q.authorized = p.authorized
          /\ q.name = p.name /\ q.listed = p.listed /\ SameTalk(q, p) /\ q.finishes = p.finishes
          /\ q.outcome = p.outcome /\ q.steady = p.steady \ {n}
      BY <3>2 DEF PostRecords, SameTalk
    <3>. HIDE DEF q
    <3>4. Finishing(q) /\ Telling(q)
      BY <3>1, <3>3 DEF GoodPost, Finishing, Telling, SameTalk
    <3>5. Listing(q)
      BY <3>1, <3>3 DEF GoodPost, Listing, At
    <3>. QED BY <3>1, <3>3, <3>4, <3>5 DEF GoodPost, p
  <2>3. Stable \ {n} \subseteq Stable'
    BY <1>0, <2>1 DEF Stable, McpInv
  <2>4. ASSUME NEW r \in Requests PROVE (GoodPost(posts[r]) /\ posts[r].steady \subseteq Stable)'
    <3>1. posts[r].steady \subseteq Stable
      BY DEF McpInv
    <3>. QED BY <1>a, <2>2, <2>3, <3>1
  <2>5. table' = [m \in Names |-> table'[m]] /\ news' \subseteq Names /\ mcpChanges' \in 0..MaxTableChanges
    <3>1. table' = [m \in Names |-> table'[m]]
      BY <2>1 DEF McpInv
    <3>2. news' \subseteq Names
      BY <2>1
    <3>3. mcpChanges' \in 0..MaxTableChanges
      BY <2>1, McpTypes DEF McpInv
    <3>. QED BY <3>1, <3>2, <3>3
  <2>. QED BY <2>1, <2>4, <2>5 DEF McpInv
<1>2. CASE Mc!Announce
  <2>1. /\ news' = {} /\ allowed' = (allowed \ news) \cup (Mc!Present \cap news)
        /\ UNCHANGED <<policy, table, mcpChanges, posts>>
    BY <1>2 DEF Mc!Announce
  <2>2. Stable \subseteq Stable'
    BY <1>0, <2>1 DEF Stable
  <2>3. ASSUME NEW r \in Requests PROVE (GoodPost(posts[r]) /\ posts[r].steady \subseteq Stable)'
    <3>1. GoodPost(posts[r]) /\ posts[r].steady \subseteq Stable
      BY DEF McpInv
    <3>. QED BY <1>a, <2>1, <2>2, <3>1
  <2>. QED BY <2>1, <2>3 DEF McpInv, Mc!Present
<1>. QED BY <1>1, <1>2
LEMMA AppendedSet ==
  ASSUME NEW S, NEW s \in Seq(S), NEW x \in S
  PROVE  /\ Append(s, x) \in Seq(S) /\ SetOf(Append(s, x)) = SetOf(s) \cup {x}
         /\ /\ x \notin SetOf(s) \/ x \notin Names
            /\ \A i, j \in DOMAIN s : s[i] = s[j] /\ s[i] \in Names => i = j
            => \A i, j \in DOMAIN Append(s, x) :
                 Append(s, x)[i] = Append(s, x)[j] /\ Append(s, x)[i] \in Names => i = j
<1>. DEFINE t == Append(s, x)
<1>1. /\ t \in Seq(S) /\ Len(s) \in Nat /\ DOMAIN s = 1..Len(s) /\ DOMAIN t = 1..(Len(s) + 1)
      /\ t[Len(s) + 1] = x /\ \A i \in 1..Len(s) : t[i] = s[i]
  OBVIOUS
<1>. HIDE DEF t
<1>2. SetOf(t) \subseteq SetOf(s) \cup {x}
  <2>. SUFFICES ASSUME NEW i \in DOMAIN t PROVE t[i] \in SetOf(s) \cup {x}
    BY DEF SetOf
  <2>1. CASE i = Len(s) + 1
    BY <1>1, <2>1
  <2>2. CASE i # Len(s) + 1
    <3>1. i \in DOMAIN s /\ t[i] = s[i]
      BY <1>1, <2>2
    <3>. QED BY <3>1 DEF SetOf
  <2>. QED BY <2>1, <2>2
<1>3. SetOf(s) \cup {x} \subseteq SetOf(t)
  <2>1. Len(s) + 1 \in DOMAIN t /\ \A i \in DOMAIN s : i \in DOMAIN t /\ t[i] = s[i]
    BY <1>1
  <2>. QED BY <1>1, <2>1 DEF SetOf
<1>4. ASSUME x \notin SetOf(s) \/ x \notin Names, \A i, j \in DOMAIN s : s[i] = s[j] /\ s[i] \in Names => i = j,
             NEW i \in DOMAIN t, NEW j \in DOMAIN t, t[i] = t[j], t[i] \in Names
      PROVE  i = j
  <2>1. CASE i \in DOMAIN s /\ j \in DOMAIN s
    BY <1>1, <1>4, <2>1
  <2>2. CASE i \in DOMAIN s /\ j \notin DOMAIN s
    <3>1. j = Len(s) + 1 /\ s[i] = x
      BY <1>1, <1>4, <2>2
    <3>. QED BY <1>1, <1>4, <2>2, <3>1 DEF SetOf
  <2>3. CASE i \notin DOMAIN s /\ j \in DOMAIN s
    <3>1. i = Len(s) + 1 /\ s[j] = x
      BY <1>1, <1>4, <2>3
    <3>. QED BY <1>1, <1>4, <2>3, <3>1 DEF SetOf
  <2>4. CASE i \notin DOMAIN s /\ j \notin DOMAIN s
    BY <1>1, <2>4
  <2>. QED BY <2>1, <2>2, <2>3, <2>4
<1>. QED BY <1>1, <1>2, <1>3, <1>4 DEF t

LEMMA TailWithoutHead ==
  ASSUME NEW S, NEW s \in Seq(S), s # <<>>, \A i, j \in DOMAIN s : s[i] = s[j] => i = j
  PROVE  /\ \A i, j \in DOMAIN Tail(s) : Tail(s)[i] = Tail(s)[j] => i = j
         /\ Head(s) \notin SetOf(Tail(s))
<1>1. /\ Len(s) \in Nat /\ Len(s) >= 1 /\ Head(s) = s[1] /\ DOMAIN s = 1..Len(s)
      /\ DOMAIN Tail(s) = 1..(Len(s) - 1) /\ \A k \in 1..(Len(s) - 1) : Tail(s)[k] = s[k + 1]
  OBVIOUS
<1>2. ASSUME NEW i \in DOMAIN Tail(s), NEW j \in DOMAIN Tail(s), Tail(s)[i] = Tail(s)[j] PROVE i = j
  <2>1. /\ i \in Int /\ j \in Int /\ i + 1 \in DOMAIN s /\ j + 1 \in DOMAIN s
        /\ Tail(s)[i] = s[i + 1] /\ Tail(s)[j] = s[j + 1]
    BY <1>1
  <2>2. i + 1 = j + 1
    BY <1>2, <2>1
  <2>. QED BY <2>1, <2>2
<1>3. ASSUME NEW k \in DOMAIN Tail(s) PROVE Tail(s)[k] # Head(s)
  <2>1. k \in Int /\ k + 1 \in DOMAIN s /\ Tail(s)[k] = s[k + 1] /\ 1 \in DOMAIN s /\ k >= 1
    BY <1>1
  <2>2. k + 1 # 1
    BY <2>1
  <2>. QED BY <1>1, <2>1, <2>2
<1>. QED BY <1>2, <1>3 DEF SetOf

\* What a step of one request does to it.
Moves(r, q) == posts' = [posts EXCEPT ![r] = q] /\ GoodPost(q) /\ q.steady \subseteq Stable

\* A phase that has no list and no result.
LEMMA GotoKeeps ==
  ASSUME NEW p, GoodPost(p), p.pc # "done", NEW pc \in {"policy", "allow", "flag", "timeout", "chat"},
         pc \in {"allow", "flag", "timeout", "chat"} => p.text = <<>> /\ p.structure = "none" /\ p.heard = 0
                                                       /\ p.name \in Names,
         pc \in {"flag", "timeout", "chat"} => p.name \in Mc!Permitted,
         pc = "policy" => p.listed = <<>>
  PROVE  GoodPost([p EXCEPT !.pc = pc]) /\ [p EXCEPT !.pc = pc].steady = p.steady
<1>. DEFINE q == [p EXCEPT !.pc = pc]
<1>1. p \in PostRecords /\ p.finishes = 0 /\ p.outcome = "none" /\ pc \in Phases
  BY DEF GoodPost, Finishing, Phases
<1>2. /\ q \in PostRecords /\ q.pc = pc /\ SameList(q, p) /\ SameTalk(q, p)
      /\ q.finishes = p.finishes /\ q.outcome = p.outcome
  BY <1>1, GotoFields
<1>. HIDE DEF q
<1>3. GoodPost(q) /\ q.steady = p.steady
  BY <1>1, <1>2 DEF GoodPost, Finishing, Listing, Telling, SameList, SameTalk
<1>. QED BY <1>3 DEF q

\* The end without a list or a result, from wherever the request is.
LEMMA EndMoves ==
  ASSUME McpInv, NEW r \in Requests, posts[r].pc # "done", NEW code \in Codes,
         NEW outcome \in Outcomes \ {"list", "result"},
         posts' = [posts EXCEPT ![r] = Mc!Finished(@, code, outcome)]
  PROVE  \E q : Moves(r, q)
<1>1. GoodPost(posts[r]) /\ posts[r].steady \subseteq Stable
  BY DEF McpInv
<1>. DEFINE q == Mc!Finished(posts[r], code, outcome)
<1>2. GoodPost(q) /\ q.steady = posts[r].steady
  BY <1>1, EndsOtherwise
<1>3. posts' = [posts EXCEPT ![r] = q]
  OBVIOUS
<1>. HIDE DEF q
<1>4. Moves(r, q)
  BY <1>1, <1>2, <1>3 DEF Moves
<1>. QED BY <1>4

LEMMA GotoMoves ==
  ASSUME McpInv, NEW r \in Requests, posts[r].pc # "done",
         NEW pc \in {"policy", "allow", "flag", "timeout", "chat"},
         pc \in {"allow", "flag", "timeout", "chat"} =>
           /\ posts[r].text = <<>> /\ posts[r].structure = "none" /\ posts[r].heard = 0
           /\ posts[r].name \in Names,
         pc \in {"flag", "timeout", "chat"} => posts[r].name \in Mc!Permitted,
         pc = "policy" => posts[r].listed = <<>>,
         Mc!Goto(r, pc)
  PROVE  \E q : Moves(r, q)
<1>1. GoodPost(posts[r]) /\ posts[r].steady \subseteq Stable
  BY DEF McpInv
<1>. DEFINE q == [posts[r] EXCEPT !.pc = pc]
<1>2. GoodPost(q) /\ q.steady = posts[r].steady
  BY <1>1, GotoKeeps
<1>3. posts' = [posts EXCEPT ![r] = q]
  BY DEF Mc!Goto
<1>. HIDE DEF q
<1>4. Moves(r, q)
  BY <1>1, <1>2, <1>3 DEF Moves
<1>. QED BY <1>4

\* Requests that the processor never sees.
LEMMA AnswersMove ==
  ASSUME McpInv, NEW r \in Requests, NEW k \in DOMAIN Mc!Statuses, Mc!Answer(r, k)
  PROVE  \E q : Moves(r, q)
BY EndMoves, CodesAndOutcomes DEF Mc!Answer, AnswerKinds

\* The ends of a request that the processor raises or returns.
EarlyOutcomes == {"raised", "not found", "not authorized", "not a tool", "failed", "timeout"}

LEMMA EarlyEndsMove ==
  ASSUME McpInv, NEW r \in Requests, posts[r].pc # "done",
         \/ Mc!Raise(r)
         \/ \E outcome \in EarlyOutcomes : Mc!Return(r, outcome)
  PROVE  \E q : Moves(r, q)
<1>1. 200 \in Codes /\ 500 \in Codes
  BY CodesAndOutcomes
<1>2. \A outcome \in EarlyOutcomes : outcome \in Outcomes \ {"list", "result"}
  BY CodesAndOutcomes DEF EarlyOutcomes
<1>3. CASE Mc!Raise(r)
  <2>1. "raised" \in Outcomes \ {"list", "result"}
    BY <1>2 DEF EarlyOutcomes
  <2>2. posts' = [posts EXCEPT ![r] = Mc!Finished(@, 500, "raised")]
    BY <1>3 DEF Mc!Raise
  <2>. QED BY <1>1, <2>1, <2>2, EndMoves
<1>4. ASSUME NEW outcome \in EarlyOutcomes, Mc!Return(r, outcome) PROVE \E q : Moves(r, q)
  <2>1. outcome \in Outcomes \ {"list", "result"}
    BY <1>2
  <2>2. posts' = [posts EXCEPT ![r] = Mc!Finished(@, 200, outcome)]
    BY <1>4 DEF Mc!Return
  <2>. QED BY <1>1, <2>1, <2>2, EndMoves
<1>. QED BY <1>3, <1>4

LEMMA CallsMove ==
  ASSUME McpInv, NEW r \in Requests,
         \/ \E n \in Names : Mc!StartCall(r, n)
         \/ Mc!AllowAgent(r) \/ Mc!IsMcpTool(r) \/ Mc!GetTimeout(r) \/ Mc!StopStream(r)
  PROVE  \E q : Moves(r, q)
<1>. DEFINE p == posts[r]
<1>1. GoodPost(p) /\ p.steady \subseteq Stable /\ Finishing(p) /\ p \in PostRecords
  BY DEF McpInv, GoodPost, Finishing
<1>3. ASSUME NEW n \in Names, Mc!StartCall(r, n) PROVE \E q : Moves(r, q)
  <2>. DEFINE q == [p EXCEPT !.pc = "allow", !.name = n]
  <2>1. p.pc = "new" /\ posts' = [posts EXCEPT ![r].pc = "allow", ![r].name = n]
    BY <1>3 DEF Mc!StartCall
  <2>2. posts' = [posts EXCEPT ![r] = q]
    BY <2>1 DEF McpInv
  <2>3. "allow" \in Phases
    BY DEF Phases
  <2>. HIDE DEF p
  <2>4. /\ q \in PostRecords /\ q.pc = "allow" /\ q.name = n /\ SameTalk(q, p) /\ q.steady = p.steady
        /\ q.finishes = p.finishes /\ q.outcome = p.outcome
    BY <1>1, <2>3 DEF PostRecords, SameTalk
  <2>. HIDE DEF q
  <2>5. GoodPost(q)
    BY <1>1, <2>1, <2>4 DEF GoodPost, Finishing, Listing, Telling, SameTalk
  <2>6. Moves(r, q)
    BY <1>1, <2>2, <2>4, <2>5 DEF Moves
  <2>. QED BY <2>6
<1>4. CASE Mc!AllowAgent(r)
  <2>1. /\ p.pc = "allow"
        /\ \/ Mc!Return(r, "not found")
           \/ Mc!Return(r, "not authorized")
           \/ p.name \in Mc!Permitted /\ Mc!Goto(r, "flag")
    BY <1>4 DEF Mc!AllowAgent
  <2>2. p.text = <<>> /\ p.structure = "none" /\ p.heard = 0 /\ p.name \in Names
    BY <1>1, <2>1 DEF Finishing
  <2>3. CASE Mc!Return(r, "not found") \/ Mc!Return(r, "not authorized")
    BY <2>1, <2>3, EarlyEndsMove DEF EarlyOutcomes
  <2>4. CASE p.name \in Mc!Permitted /\ Mc!Goto(r, "flag")
    BY <2>1, <2>2, <2>4, GotoMoves
  <2>. QED BY <2>1, <2>3, <2>4
<1>5. CASE Mc!IsMcpTool(r)
  <2>1. p.pc = "flag" /\ (Mc!Raise(r) \/ Mc!Goto(r, "timeout") \/ Mc!Return(r, "not a tool"))
    BY <1>5 DEF Mc!IsMcpTool, Mc!LookForTool
  <2>2. /\ p.text = <<>> /\ p.structure = "none" /\ p.heard = 0 /\ p.name \in Names
        /\ p.name \in Mc!Permitted
    BY <1>1, <2>1 DEF Finishing
  <2>3. CASE Mc!Raise(r) \/ Mc!Return(r, "not a tool")
    BY <2>1, <2>3, EarlyEndsMove DEF EarlyOutcomes
  <2>4. CASE Mc!Goto(r, "timeout")
    BY <2>1, <2>2, <2>4, GotoMoves
  <2>. QED BY <2>1, <2>3, <2>4
<1>6. CASE Mc!GetTimeout(r)
  <2>1. p.pc = "timeout" /\ (Mc!Raise(r) \/ Mc!Goto(r, "chat"))
    BY <1>6 DEF Mc!GetTimeout
  <2>2. /\ p.text = <<>> /\ p.structure = "none" /\ p.heard = 0 /\ p.name \in Names
        /\ p.name \in Mc!Permitted
    BY <1>1, <2>1 DEF Finishing
  <2>3. CASE Mc!Raise(r)
    BY <2>1, <2>3, EarlyEndsMove
  <2>4. CASE Mc!Goto(r, "chat")
    BY <2>1, <2>2, <2>4, GotoMoves
  <2>. QED BY <2>1, <2>3, <2>4
<1>7. CASE Mc!StopStream(r)
  <2>1. p.pc = "stream" /\ (Mc!Return(r, "timeout") \/ Mc!Return(r, "failed"))
    BY <1>7 DEF Mc!StopStream
  <2>. QED BY <2>1, EarlyEndsMove DEF EarlyOutcomes
<1>. QED BY <1>3, <1>4, <1>5, <1>6, <1>7

\* One more message heard.
LEMMA OneMore ==
  ASSUME NEW script \in Seq(Messages), NEW h \in Nat, h < Len(script)
  PROVE  LET m == script[h + 1] IN
         /\ m \in Messages
         /\ m.type = "AGENT_FRAMEWORK" => Own(script, h + 1) = Own(script, h) \cup {h + 1}
         /\ m.type # "AGENT_FRAMEWORK" => Own(script, h + 1) = Own(script, h)
         /\ m.type = "AGENT_FRAMEWORK" /\ m.structure # "none" =>
              Structured(script, h + 1) = Structured(script, h) \cup {h + 1}
         /\ m.type # "AGENT_FRAMEWORK" \/ m.structure = "none" =>
              Structured(script, h + 1) = Structured(script, h)
         /\ Own(script, h) \subseteq 1..h
<1>1. 1..(h + 1) = 1..h \cup {h + 1} /\ h + 1 \in 1..Len(script) /\ h + 1 \notin 1..h
  OBVIOUS
<1>2. script[h + 1] \in Messages
  BY <1>1
<1>. QED BY <1>1, <1>2 DEF Own, Structured

LEMMA TextGrows ==
  ASSUME NEW S, NEW text \in Seq(S), NEW script \in Seq(Messages), NEW h \in Nat, h < Len(script),
         TextIs(text, script, h), script[h + 1].text \in S
  PROVE  /\ script[h + 1].type = "AGENT_FRAMEWORK" => TextIs(Append(text, script[h + 1].text), script, h + 1)
         /\ script[h + 1].type # "AGENT_FRAMEWORK" => TextIs(text, script, h + 1)
<1>. DEFINE own == Own(script, h)
            n == Len(text)
            after == Append(text, script[h + 1].text)
<1>1. PICK place \in [DOMAIN text -> own] :
        /\ own = {place[i] : i \in DOMAIN text}
        /\ \A i, j \in DOMAIN text : i < j => place[i] < place[j]
        /\ text = [i \in DOMAIN text |-> script[place[i]].text]
  BY DEF TextIs
<1>2. CASE script[h + 1].type = "AGENT_FRAMEWORK"
  <2>1. Own(script, h + 1) = own \cup {h + 1} /\ own \subseteq 1..h
    BY <1>2, OneMore
  <2>2. /\ n \in Nat /\ DOMAIN text = 1..n /\ DOMAIN after = 1..(n + 1) /\ after[n + 1] = script[h + 1].text
        /\ after = [i \in DOMAIN after |-> after[i]] /\ \A i \in 1..n : after[i] = text[i]
    OBVIOUS
  <2>. DEFINE more == [i \in 1..(n + 1) |-> IF i = n + 1 THEN h + 1 ELSE place[i]]
  <2>. HIDE DEF own, n, after
  <2>3. \A i \in 1..n : place[i] \in own /\ place[i] \in 1..h /\ i \in 1..(n + 1) /\ i # n + 1
    BY <1>1, <2>1, <2>2
  <2>4. /\ more \in [DOMAIN after -> own \cup {h + 1}] /\ more[n + 1] = h + 1
        /\ \A i \in 1..n : more[i] = place[i]
    <3>1. n + 1 \in 1..(n + 1)
      BY <2>2
    <3>2. \A i \in 1..(n + 1) : i = n + 1 \/ i \in 1..n
      BY <2>2
    <3>. QED BY <2>2, <2>3, <3>1, <3>2
  <2>. HIDE DEF more
  <2>5. own \cup {h + 1} = {more[i] : i \in DOMAIN after}
    <3>1. \A i \in 1..(n + 1) : i = n + 1 \/ i \in 1..n
      BY <2>2
    <3>2. \A k \in own : \E i \in 1..n : k = more[i]
      BY <1>1, <2>2, <2>4
    <3>3. n + 1 \in 1..(n + 1) /\ 1..n \subseteq 1..(n + 1)
      BY <2>2
    <3>. QED BY <2>2, <2>4, <3>1, <3>2, <3>3
  <2>6. ASSUME NEW i \in DOMAIN after, NEW j \in DOMAIN after, i < j PROVE more[i] < more[j]
    <3>1. i \in 1..n /\ (j \in 1..n \/ j = n + 1)
      BY <2>2, <2>6
    <3>2. CASE j \in 1..n
      BY <1>1, <2>2, <2>4, <2>6, <3>1, <3>2
    <3>3. CASE j = n + 1
      BY <2>3, <2>4, <3>1, <3>3
    <3>. QED BY <3>1, <3>2, <3>3
  <2>7. \A i \in DOMAIN after : after[i] = script[more[i]].text
    <3>1. \A i \in DOMAIN text : text[i] = script[place[i]].text
      BY <1>1
    <3>2. \A i \in 1..(n + 1) : i = n + 1 \/ i \in 1..n
      BY <2>2
    <3>. QED BY <2>2, <2>4, <3>1, <3>2
  <2>8. after = [i \in DOMAIN after |-> script[more[i]].text]
    BY <2>2, <2>7
  <2>9. more \in [DOMAIN after -> Own(script, h + 1)]
    BY <2>1, <2>4
  <2>10. TextIs(after, script, h + 1)
    BY <2>1, <2>5, <2>6, <2>8, <2>9 DEF TextIs
  <2>. QED BY <1>2, <2>10 DEF after
<1>3. CASE script[h + 1].type # "AGENT_FRAMEWORK"
  <2>1. Own(script, h + 1) = Own(script, h)
    BY <1>3, OneMore
  <2>. QED BY <1>3, <2>1 DEF TextIs
<1>. QED BY <1>2, <1>3

LEMMA StructureGrows ==
  ASSUME NEW structure, NEW script \in Seq(Messages), NEW h \in Nat, h < Len(script),
         StructureIs(structure, script, h)
  PROVE  LET m == script[h + 1] IN
         /\ m.type = "AGENT_FRAMEWORK" =>
              StructureIs(IF m.structure = "none" THEN structure ELSE m.structure, script, h + 1)
         /\ m.type # "AGENT_FRAMEWORK" => StructureIs(structure, script, h + 1)
<1>. DEFINE m == script[h + 1]
<1>1. CASE m.type = "AGENT_FRAMEWORK" /\ m.structure # "none"
  <2>1. Structured(script, h + 1) = Structured(script, h) \cup {h + 1}
    BY <1>1, OneMore
  <2>2. \A j \in Structured(script, h) : j <= h + 1
    BY DEF Structured, Own
  <2>3. StructureIs(m.structure, script, h + 1)
    BY <2>1, <2>2 DEF StructureIs
  <2>. QED BY <1>1, <2>3
<1>2. CASE m.type # "AGENT_FRAMEWORK" \/ m.structure = "none"
  <2>1. Structured(script, h + 1) = Structured(script, h)
    BY <1>2, OneMore
  <2>2. StructureIs(structure, script, h + 1)
    BY <2>1 DEF StructureIs
  <2>. QED BY <1>2, <2>2
<1>. QED BY <1>1, <1>2

LEMMA ChatsMove ==
  ASSUME McpInv, NEW r \in Requests, Mc!StartChat(r) \/ Mc!Hear(r) \/ Mc!EndStream(r)
  PROVE  \E q : Moves(r, q)
<1>. DEFINE p == posts[r]
<1>1. GoodPost(p) /\ p.steady \subseteq Stable /\ Finishing(p) /\ p \in PostRecords
  BY DEF McpInv, GoodPost, Finishing
<1>2. CASE Mc!StartChat(r)
  <2>1. /\ p.pc = "chat"
        /\ \/ Mc!Return(r, "failed")
           \/ \E script \in UNION {[1..k -> Messages] : k \in 0..MaxMessages}, timed \in BOOLEAN :
                posts' = [posts EXCEPT ![r].pc = "stream", ![r].script = script, ![r].timed = timed]
    BY <1>2 DEF Mc!StartChat
  <2>2. CASE Mc!Return(r, "failed")
    BY <2>1, <2>2, EarlyEndsMove DEF EarlyOutcomes
  <2>3. ASSUME NEW k \in 0..MaxMessages, NEW script \in [1..k -> Messages], NEW timed \in BOOLEAN,
               posts' = [posts EXCEPT ![r].pc = "stream", ![r].script = script, ![r].timed = timed]
        PROVE  \E q : Moves(r, q)
    <3>. DEFINE q == [p EXCEPT !.pc = "stream", !.script = script, !.timed = timed]
    <3>1. posts' = [posts EXCEPT ![r] = q]
      BY <2>3 DEF McpInv
    <3>2. script \in Seq(Messages) /\ "stream" \in Phases
      BY McpTypes DEF Phases
    <3>. HIDE DEF p
    <3>3. /\ q \in PostRecords /\ q.pc = "stream" /\ q.script = script /\ q.heard = p.heard /\ q.text = p.text
          /\ q.structure = p.structure /\ q.name = p.name /\ q.steady = p.steady
          /\ q.finishes = p.finishes /\ q.outcome = p.outcome
      BY <1>1, <3>2 DEF PostRecords
    <3>. HIDE DEF q
    <3>4. p.text = <<>> /\ p.structure = "none" /\ p.heard = 0 /\ p.outcome = "none"
      BY <1>1, <2>1 DEF Finishing
    <3>5. Own(script, 0) = {} /\ Structured(script, 0) = {}
      BY DEF Own, Structured
    <3>6. TextIs(<<>>, script, 0)
      <4>1. <<>> \in [DOMAIN <<>> -> Own(script, 0)] /\ DOMAIN <<>> = {}
        BY <3>5
      <4>2. <<>> = [i \in DOMAIN <<>> |-> script[<<>>[i]].text]
        OBVIOUS
      <4>3. Own(script, 0) = {<<>>[i] : i \in DOMAIN <<>>}
        BY <3>5
      <4>. QED BY <4>1, <4>2, <4>3 DEF TextIs
    <3>7. StructureIs("none", script, 0)
      BY <3>5 DEF StructureIs
    <3>8. 0 <= Len(script)
      BY <3>2
    <3>9. Telling(q)
      BY <3>3, <3>4, <3>6, <3>7, <3>8 DEF Telling
    <3>10. Finishing(q) /\ Listing(q)
      BY <1>1, <2>1, <3>3, <3>4 DEF Finishing, Listing
    <3>11. Moves(r, q)
      BY <1>1, <3>1, <3>3, <3>9, <3>10 DEF Moves, GoodPost
    <3>. QED BY <3>11
  <2>4. CASE ~Mc!Return(r, "failed")
    <3>1. PICK script \in UNION {[1..k -> Messages] : k \in 0..MaxMessages}, timed \in BOOLEAN :
            posts' = [posts EXCEPT ![r].pc = "stream", ![r].script = script, ![r].timed = timed]
      BY <2>1, <2>4
    <3>2. PICK k \in 0..MaxMessages : script \in [1..k -> Messages]
      OBVIOUS
    <3>. HIDE DEF p
    <3>. QED BY <2>3, <3>1, <3>2
  <2>. QED BY <2>2, <2>4
<1>3. CASE Mc!Hear(r)
  <2>. DEFINE h == p.heard
              m == p.script[h + 1]
              q == Mc!WithPart(p, m)
  <2>1. p.pc = "stream" /\ h < Len(p.script) /\ posts' = [posts EXCEPT ![r] = q]
    BY <1>3 DEF Mc!Hear
  <2>2. /\ p.script \in Seq(Messages) /\ h \in Nat /\ p.text \in Seq({x.text : x \in Messages})
        /\ p.structure \in Structures
    BY <1>1 DEF PostRecords
  <2>3. TextIs(p.text, p.script, h) /\ StructureIs(p.structure, p.script, h) /\ p.outcome = "none"
    BY <1>1, <2>1 DEF GoodPost, Telling, Finishing
  <2>4. m \in Messages
    BY <2>1, <2>2, OneMore
  <2>. DEFINE said1 == Append(p.text, m.text)
              last == IF m.structure = "none" THEN p.structure ELSE m.structure
  <2>5. said1 \in Seq({x.text : x \in Messages}) /\ last \in Structures /\ h + 1 \in Nat /\ h + 1 <= Len(p.script)
    BY <2>1, <2>2, <2>4 DEF Structures
  <2>6. CASE m.type = "AGENT_FRAMEWORK"
    <3>1. q = [p EXCEPT !.heard = h + 1, !.text = said1, !.structure = last]
      BY <2>6 DEF Mc!WithPart
    <3>2. TextIs(said1, p.script, h + 1) /\ StructureIs(last, p.script, h + 1)
      BY <2>1, <2>2, <2>3, <2>4, <2>6, TextGrows, StructureGrows
    <3>. HIDE DEF p, said1, last, q, h
    <3>3. /\ q \in PostRecords /\ q.pc = p.pc /\ q.script = p.script /\ q.heard = h + 1 /\ q.text = said1
          /\ q.structure = last /\ q.name = p.name /\ q.steady = p.steady
          /\ q.finishes = p.finishes /\ q.outcome = p.outcome
      BY <1>1, <2>5, <3>1 DEF PostRecords
    <3>4. Telling(q)
      BY <2>3, <2>5, <3>2, <3>3 DEF Telling
    <3>5. Finishing(q) /\ Listing(q)
      BY <1>1, <2>1, <2>3, <3>3 DEF Finishing, Listing
    <3>6. Moves(r, q)
      BY <1>1, <2>1, <3>3, <3>4, <3>5 DEF Moves, GoodPost
    <3>. QED BY <3>6
  <2>7. CASE m.type # "AGENT_FRAMEWORK"
    <3>1. q = [p EXCEPT !.heard = h + 1]
      BY <2>7 DEF Mc!WithPart
    <3>2. TextIs(p.text, p.script, h + 1) /\ StructureIs(p.structure, p.script, h + 1)
      BY <2>1, <2>2, <2>3, <2>4, <2>7, TextGrows, StructureGrows
    <3>. HIDE DEF p, q, h
    <3>3. /\ q \in PostRecords /\ q.pc = p.pc /\ q.script = p.script /\ q.heard = h + 1 /\ q.text = p.text
          /\ q.structure = p.structure /\ q.name = p.name /\ q.steady = p.steady
          /\ q.finishes = p.finishes /\ q.outcome = p.outcome
      BY <1>1, <2>5, <3>1 DEF PostRecords
    <3>4. Telling(q)
      BY <2>3, <2>5, <3>2, <3>3 DEF Telling
    <3>5. Finishing(q) /\ Listing(q)
      BY <1>1, <2>1, <2>3, <3>3 DEF Finishing, Listing
    <3>6. Moves(r, q)
      BY <1>1, <2>1, <3>3, <3>4, <3>5 DEF Moves, GoodPost
    <3>. QED BY <3>6
  <2>. QED BY <2>6, <2>7
<1>4. CASE Mc!EndStream(r)
  <2>. DEFINE q == Mc!Finished(p, 200, "result")
  <2>1. p.pc = "stream" /\ p.heard = Len(p.script) /\ posts' = [posts EXCEPT ![r] = q]
    BY <1>4 DEF Mc!EndStream, Mc!Return
  <2>2. 200 \in Codes /\ "result" \in Outcomes
    BY CodesAndOutcomes
  <2>3. /\ q \in PostRecords /\ q.pc = "done" /\ SameList(q, p) /\ SameTalk(q, p)
        /\ q.finishes = p.finishes + 1 /\ q.outcome = "result"
    BY <1>1, <2>2, FinishedFields
  <2>. HIDE DEF p, q
  <2>4. Finishing(q)
    BY <1>1, <2>1, <2>3 DEF Finishing, SameList
  <2>5. Listing(q)
    BY <2>3 DEF Listing
  <2>6. Telling(q)
    BY <1>1, <2>1, <2>3 DEF GoodPost, Telling, SameTalk
  <2>7. Moves(r, q)
    BY <1>1, <2>1, <2>3, <2>4, <2>5, <2>6 DEF Moves, GoodPost, SameList
  <2>. QED BY <2>7
<1>. QED BY <1>2, <1>3, <1>4

\* The names of the storage in any order: each comes once.
LEMMA OrdersAreWhole ==
  ASSUME allowed \subseteq Names, NEW order \in [1..Mc!Cardinality(Mc!Present) -> Mc!Present],
         {order[i] : i \in DOMAIN order} = Mc!Present
  PROVE  /\ order \in Seq(Names) /\ SetOf(order) = Mc!Present
         /\ \A i, j \in DOMAIN order : order[i] = order[j] => i = j
<1>. DEFINE P == Mc!Present
            N == Cardinality(P)
<1>1. P \subseteq Names
  BY DEF Mc!Present
<1>2. IsFiniteSet(P) /\ N \in Nat
  BY <1>1, McpTypes, FS_Subset, FS_CardinalityType
<1>3. order \in [1..N -> P] /\ {order[i] : i \in 1..N} = P
  BY CardinalityOfMcp
<1>. HIDE DEF P, N
<1>4. IsFiniteSet(1..N) /\ Cardinality(1..N) = N
  <2>1. 1 \in Int /\ N \in Int
    BY <1>2
  <2>2. IsFiniteSet(1..N) /\ Cardinality(1..N) = (IF 1 > N THEN 0 ELSE N - 1 + 1)
    BY <2>1, FS_Interval
  <2>. QED BY <1>2, <2>2
<1>5. order \in Surjection(1..N, P)
  BY <1>3 DEF Surjection
<1>6. Cardinality(1..N) = Cardinality(P)
  BY <1>4 DEF N
<1>7. order \in Injection(1..N, P)
  BY <1>4, <1>5, <1>6, FS_SurjSameCardinalityImpliesInj
<1>8. order \in Seq(Names)
  BY <1>1, <1>2, <1>3
<1>9. \A i, j \in DOMAIN order : order[i] = order[j] => i = j
  BY <1>3, <1>7 DEF Injection, IsInjective
<1>. QED BY <1>8, <1>9 DEF SetOf

\* The beginning of a list.
LEMMA ListsBegin ==
  ASSUME McpInv, NEW r \in Requests, Mc!StartList(r) \/ Mc!TakeNames(r)
  PROVE  \E q : Moves(r, q)
<1>. DEFINE p == posts[r]
<1>1. GoodPost(p) /\ p.steady \subseteq Stable /\ Finishing(p) /\ p \in PostRecords
  BY DEF McpInv, GoodPost, Finishing
<1>2. Stable \subseteq Names /\ Stable \subseteq Mc!Permitted \cap allowed /\ Stable \subseteq Mc!Present
  BY DEF Stable, McpInv, Mc!Present
<1>3. CASE Mc!StartList(r)
  <2>. DEFINE q == [p EXCEPT !.pc = "policy", !.steady = Stable]
  <2>1. p.pc = "new" /\ posts' = [posts EXCEPT ![r].pc = "policy", ![r].steady = Stable]
    BY <1>3 DEF Mc!StartList, Stable
  <2>2. posts' = [posts EXCEPT ![r] = q]
    BY <2>1 DEF McpInv
  <2>3. "policy" \in Phases
    BY DEF Phases
  <2>. HIDE DEF p
  <2>4. /\ q \in PostRecords /\ q.pc = "policy" /\ SameTalk(q, p) /\ q.steady = Stable
        /\ q.listed = p.listed /\ q.finishes = p.finishes /\ q.outcome = p.outcome
    BY <1>1, <1>2, <2>3 DEF PostRecords, SameTalk
  <2>. HIDE DEF q
  <2>5. GoodPost(q)
    BY <1>1, <2>1, <2>4 DEF GoodPost, Finishing, Listing, Telling, SameTalk
  <2>6. Moves(r, q)
    BY <2>2, <2>4, <2>5 DEF Moves
  <2>. QED BY <2>6
<1>4. CASE Mc!TakeNames(r)
  <2>1. p.pc = "policy"
    BY <1>4 DEF Mc!TakeNames
  <2>2. PICK order \in [1..Mc!Cardinality(Mc!Present) -> Mc!Present] :
          /\ {order[i] : i \in DOMAIN order} = Mc!Present
          /\ posts' = [posts EXCEPT ![r].pc = "next", ![r].todo = order,
                                    ![r].authorized = Mc!Permitted \cap allowed]
    BY <1>4 DEF Mc!TakeNames
  <2>. DEFINE q == [p EXCEPT !.pc = "next", !.todo = order, !.authorized = Mc!Permitted \cap allowed]
  <2>3. posts' = [posts EXCEPT ![r] = q]
    BY <2>2 DEF McpInv
  <2>4. /\ order \in Seq(Names) /\ SetOf(order) = Mc!Present
        /\ \A i, j \in DOMAIN order : order[i] = order[j] => i = j
    BY <2>2, OrdersAreWhole DEF McpInv
  <2>5. "next" \in Phases /\ Mc!Permitted \cap allowed \subseteq Names
    BY DEF Phases, McpInv
  <2>. HIDE DEF p
  <2>6. /\ q \in PostRecords /\ q.pc = "next" /\ SameTalk(q, p) /\ q.steady = p.steady
        /\ q.todo = order /\ q.authorized = Mc!Permitted \cap allowed
        /\ q.listed = p.listed /\ q.finishes = p.finishes /\ q.outcome = p.outcome
    BY <1>1, <2>4, <2>5 DEF PostRecords, SameTalk
  <2>. HIDE DEF q
  <2>7. q.listed = <<>> /\ q.outcome = "none"
    BY <1>1, <2>1, <2>6 DEF Finishing
  <2>8. SetOf(<<>>) = {} /\ DOMAIN <<>> = {}
    BY DEF SetOf
  <2>9. At(q) = {}
    BY <2>6 DEF At
  <2>10. q.steady \subseteq SetOf(q.todo) /\ q.steady \subseteq q.authorized
    BY <1>1, <1>2, <2>4, <2>6
  <2>11. Listing(q)
    BY <2>4, <2>6, <2>7, <2>8, <2>9, <2>10 DEF Listing
  <2>12. Finishing(q) /\ Telling(q)
    BY <1>1, <2>1, <2>6, <2>7 DEF Finishing, Telling, SameTalk
  <2>13. Moves(r, q)
    BY <1>1, <2>3, <2>6, <2>11, <2>12 DEF Moves, GoodPost
  <2>. QED BY <2>13
<1>. QED BY <1>3, <1>4

\* The next name: it is not skipped when it is steady.
LEMMA NamesMove ==
  ASSUME McpInv, NEW r \in Requests, Mc!NextName(r)
  PROVE  \E q : Moves(r, q)
<1>. DEFINE p == posts[r]
            n == Head(p.todo)
            taken == Mc!Lists(p, n) /\ n \in Mc!Present
            pc == IF taken THEN "network" ELSE "next"
            q == [p EXCEPT !.pc = pc, !.todo = Tail(p.todo), !.name = n]
<1>1. GoodPost(p) /\ p.steady \subseteq Stable /\ Finishing(p) /\ p \in PostRecords
  BY DEF McpInv, GoodPost, Finishing
<1>2. /\ p.pc = "next" /\ p.todo # <<>>
      /\ posts' = [posts EXCEPT ![r].todo = Tail(@), ![r].name = n, ![r].pc = pc]
  BY DEF Mc!NextName
<1>3. posts' = [posts EXCEPT ![r] = q]
  BY <1>2 DEF McpInv
<1>4. p.todo \in Seq(Names)
  BY <1>1 DEF PostRecords
<1>5. n \in Names /\ Tail(p.todo) \in Seq(Names) /\ SetOf(p.todo) = {n} \cup SetOf(Tail(p.todo))
  BY <1>2, <1>4, HeadAndTail
<1>6. Listing(p) /\ p.outcome = "none" /\ At(p) = {}
  BY <1>1, <1>2 DEF GoodPost, Finishing, At
<1>7. /\ \A i, j \in DOMAIN p.todo : p.todo[i] = p.todo[j] => i = j
      /\ \A m \in SetOf(p.todo) : m \notin SetOf(p.listed)
      /\ \A i, j \in DOMAIN p.listed : p.listed[i] = p.listed[j] /\ p.listed[i] \in Names => i = j
      /\ \A m \in SetOf(p.listed) : m \in Names => m \in Mc!Permitted
      /\ p.steady \subseteq SetOf(p.todo) \cup SetOf(p.listed)
      /\ p.steady \subseteq p.authorized
  BY <1>2, <1>6 DEF Listing
<1>8. /\ \A i, j \in DOMAIN Tail(p.todo) : Tail(p.todo)[i] = Tail(p.todo)[j] => i = j
      /\ n \notin SetOf(Tail(p.todo))
  BY <1>2, <1>4, <1>7, TailWithoutHead
<1>9. n \in p.steady => taken
  BY <1>1, <1>7 DEF Stable, Mc!Lists, Mc!Present, McpInv
<1>10. pc \in {"network", "next"} /\ pc \in Phases /\ (pc = "network" <=> taken)
  BY DEF Phases
<1>. HIDE DEF p, n, pc, taken
<1>11. /\ q \in PostRecords /\ q.pc = pc /\ SameTalk(q, p) /\ q.steady = p.steady
       /\ q.todo = Tail(p.todo) /\ q.name = n /\ q.authorized = p.authorized
       /\ q.listed = p.listed /\ q.finishes = p.finishes /\ q.outcome = p.outcome
  BY <1>1, <1>5, <1>10 DEF PostRecords, SameTalk
<1>. HIDE DEF q
<1>12. At(q) = IF taken THEN {n} ELSE {}
  BY <1>10, <1>11 DEF At
<1>13. q.steady \subseteq SetOf(q.todo) \cup SetOf(q.listed) \cup At(q)
  BY <1>5, <1>7, <1>9, <1>11, <1>12
<1>14. Listing(q)
  BY <1>5, <1>6, <1>7, <1>8, <1>10, <1>11, <1>12, <1>13 DEF Listing
<1>15. Finishing(q) /\ Telling(q)
  BY <1>1, <1>2, <1>6, <1>10, <1>11 DEF Finishing, Telling
<1>16. Moves(r, q)
  BY <1>1, <1>3, <1>11, <1>14, <1>15 DEF Moves, GoodPost
<1>. QED BY <1>16

\* The name at hand is left behind: not listed, which no steady one can be, or listed as
\* what is described.
LEMMA NameLeft ==
  ASSUME NEW p, GoodPost(p), p.pc \in {"network", "describe", "function"},
         p.name \notin p.steady
  PROVE  /\ GoodPost([p EXCEPT !.pc = "next"]) /\ [p EXCEPT !.pc = "next"].steady = p.steady
         /\ LET q == [p EXCEPT !.pc = "next", !.listed = Append(@, "None")] IN
            GoodPost(q) /\ q.steady = p.steady
<1>1. Listing(p) /\ Finishing(p) /\ p \in PostRecords /\ p.outcome = "none"
  BY DEF GoodPost, Finishing
<1>2. "next" \in Phases
  BY DEF Phases
<1>3. At(p) = {p.name} /\ p.name \in Names
  BY <1>1 DEF Listing, At
<1>4. /\ \A i, j \in DOMAIN p.todo : p.todo[i] = p.todo[j] => i = j
      /\ \A m \in SetOf(p.todo) : m \notin SetOf(p.listed) /\ m \in Names
      /\ \A i, j \in DOMAIN p.listed : p.listed[i] = p.listed[j] /\ p.listed[i] \in Names => i = j
      /\ \A m \in SetOf(p.listed) : m \in Names => m \in Mc!Permitted
      /\ p.steady \subseteq SetOf(p.todo) \cup SetOf(p.listed)
      /\ p.steady \subseteq p.authorized
  <2>1. SetOf(p.todo) \subseteq Names
    <3>1. p.todo \in Seq(Names)
      BY <1>1 DEF PostRecords
    <3>. QED BY <3>1 DEF SetOf
  <2>. QED BY <1>1, <1>3, <2>1 DEF Listing
<1>5. GoodPost([p EXCEPT !.pc = "next"]) /\ [p EXCEPT !.pc = "next"].steady = p.steady
  <2>. DEFINE q == [p EXCEPT !.pc = "next"]
  <2>1. /\ q \in PostRecords /\ q.pc = "next" /\ SameList(q, p) /\ SameTalk(q, p)
        /\ q.finishes = p.finishes /\ q.outcome = p.outcome
    BY <1>1, <1>2, GotoFields
  <2>. HIDE DEF q
  <2>2. At(q) = {}
    BY <2>1 DEF At
  <2>3. Listing(q)
    BY <1>1, <1>4, <2>1, <2>2 DEF Listing, SameList
  <2>4. Finishing(q) /\ Telling(q)
    BY <1>1, <2>1 DEF Finishing, Telling
  <2>. QED BY <2>1, <2>3, <2>4 DEF GoodPost, q, SameList
<1>6. LET q == [p EXCEPT !.pc = "next", !.listed = Append(@, "None")] IN
      GoodPost(q) /\ q.steady = p.steady
  <2>. DEFINE after == Append(p.listed, "None")
              q == [p EXCEPT !.pc = "next", !.listed = after]
  <2>1. p.listed \in Seq(Names \cup {"None"}) /\ "None" \notin Names
    BY <1>1, McpTypes DEF PostRecords
  <2>2. /\ after \in Seq(Names \cup {"None"}) /\ SetOf(after) = SetOf(p.listed) \cup {"None"}
        /\ \A i, j \in DOMAIN after : after[i] = after[j] /\ after[i] \in Names => i = j
    BY <1>4, <2>1, AppendedSet
  <2>. HIDE DEF after
  <2>3. /\ q \in PostRecords /\ q.pc = "next" /\ SameTalk(q, p) /\ q.steady = p.steady
        /\ q.todo = p.todo /\ q.authorized = p.authorized /\ q.listed = after
        /\ q.finishes = p.finishes /\ q.outcome = p.outcome
    BY <1>1, <1>2, <2>2 DEF PostRecords, SameTalk
  <2>. HIDE DEF q
  <2>4. At(q) = {}
    BY <2>3 DEF At
  <2>5. Listing(q)
    BY <1>1, <1>4, <2>1, <2>2, <2>3, <2>4 DEF Listing
  <2>6. Finishing(q) /\ Telling(q)
    BY <1>1, <2>3 DEF Finishing, Telling
  <2>. QED BY <2>3, <2>5, <2>6 DEF GoodPost, q, after
<1>. QED BY <1>5, <1>6

\* The name at hand is listed.
LEMMA NameListed ==
  ASSUME NEW p, GoodPost(p), p.pc = "function"
  PROVE  LET q == [p EXCEPT !.pc = "next", !.listed = Append(@, p.name)] IN
         GoodPost(q) /\ q.steady = p.steady
<1>1. Listing(p) /\ Finishing(p) /\ p \in PostRecords /\ p.outcome = "none"
  BY DEF GoodPost, Finishing
<1>2. "next" \in Phases
  BY DEF Phases
<1>3. At(p) = {p.name} /\ p.name \in Names /\ p.name \in Mc!Permitted
  BY <1>1 DEF Listing, At
<1>4. /\ \A i, j \in DOMAIN p.todo : p.todo[i] = p.todo[j] => i = j
      /\ \A m \in SetOf(p.todo) : m \notin SetOf(p.listed)
      /\ p.name \notin SetOf(p.todo) /\ p.name \notin SetOf(p.listed)
      /\ \A i, j \in DOMAIN p.listed : p.listed[i] = p.listed[j] /\ p.listed[i] \in Names => i = j
      /\ \A m \in SetOf(p.listed) : m \in Names => m \in Mc!Permitted
      /\ p.steady \subseteq SetOf(p.todo) \cup SetOf(p.listed) \cup {p.name}
      /\ p.steady \subseteq p.authorized
  BY <1>1, <1>3 DEF Listing
<1>. DEFINE after == Append(p.listed, p.name)
            q == [p EXCEPT !.pc = "next", !.listed = after]
<1>5. p.listed \in Seq(Names \cup {"None"}) /\ p.name \in Names \cup {"None"}
  BY <1>1, <1>3 DEF PostRecords
<1>6. /\ after \in Seq(Names \cup {"None"}) /\ SetOf(after) = SetOf(p.listed) \cup {p.name}
      /\ \A i, j \in DOMAIN after : after[i] = after[j] /\ after[i] \in Names => i = j
  BY <1>4, <1>5, AppendedSet
<1>. HIDE DEF after
<1>7. /\ q \in PostRecords /\ q.pc = "next" /\ SameTalk(q, p) /\ q.steady = p.steady
      /\ q.todo = p.todo /\ q.authorized = p.authorized /\ q.listed = after
      /\ q.finishes = p.finishes /\ q.outcome = p.outcome
  BY <1>1, <1>2, <1>6 DEF PostRecords, SameTalk
<1>. HIDE DEF q
<1>8. At(q) = {}
  BY <1>7 DEF At
<1>9. Listing(q)
  BY <1>1, <1>3, <1>4, <1>6, <1>7, <1>8 DEF Listing
<1>10. Finishing(q) /\ Telling(q)
  BY <1>1, <1>7 DEF Finishing, Telling
<1>. QED BY <1>7, <1>9, <1>10 DEF GoodPost, q, after

LEMMA ListsMove ==
  ASSUME McpInv, NEW r \in Requests,
         Mc!LookAtNetwork(r) \/ Mc!Describe(r) \/ Mc!Function(r) \/ Mc!EndList(r)
  PROVE  \E q : Moves(r, q)
<1>. DEFINE p == posts[r]
<1>1. GoodPost(p) /\ p.steady \subseteq Stable /\ Finishing(p) /\ p \in PostRecords
  BY DEF McpInv, GoodPost, Finishing
<1>2. posts = [s \in Requests |-> posts[s]]
  BY DEF McpInv
<1>3. CASE Mc!LookAtNetwork(r)
  <2>1. /\ p.pc = "network"
        /\ \/ Mc!Raise(r)
           \/ Mc!Goto(r, "describe")
           \/ table[p.name] = "plain" /\ Mc!Goto(r, "next")
    BY <1>3 DEF Mc!LookAtNetwork, Mc!LookForTool
  <2>2. CASE Mc!Raise(r)
    BY <2>1, <2>2, EarlyEndsMove
  <2>3. CASE Mc!Goto(r, "describe")
    <3>. DEFINE q == [p EXCEPT !.pc = "describe"]
    <3>1. posts' = [posts EXCEPT ![r] = q]
      BY <2>3 DEF Mc!Goto
    <3>2. "describe" \in Phases
      BY DEF Phases
    <3>3. /\ q \in PostRecords /\ q.pc = "describe" /\ SameList(q, p) /\ SameTalk(q, p)
          /\ q.finishes = p.finishes /\ q.outcome = p.outcome
      BY <1>1, <3>2, GotoFields
    <3>. HIDE DEF p, q
    <3>4. At(q) = At(p)
      BY <2>1, <3>3 DEF At, SameList
    <3>5. GoodPost(q)
      BY <1>1, <2>1, <3>3, <3>4 DEF GoodPost, Finishing, Listing, Telling, SameList
    <3>6. Moves(r, q)
      BY <1>1, <3>1, <3>3, <3>5 DEF Moves, SameList
    <3>. QED BY <3>6
  <2>4. CASE table[p.name] = "plain" /\ Mc!Goto(r, "next")
    <3>. DEFINE q == [p EXCEPT !.pc = "next"]
    <3>1. posts' = [posts EXCEPT ![r] = q]
      BY <2>4 DEF Mc!Goto
    <3>2. p.name \notin p.steady
      BY <1>1, <2>4 DEF Stable
    <3>3. GoodPost(q) /\ q.steady = p.steady
      BY <1>1, <2>1, <3>2, NameLeft
    <3>. HIDE DEF q
    <3>4. Moves(r, q)
      BY <1>1, <3>1, <3>3 DEF Moves
    <3>. QED BY <3>4
  <2>. QED BY <2>1, <2>2, <2>3, <2>4
<1>4. CASE Mc!Describe(r)
  <2>1. /\ p.pc = "describe"
        /\ IF p.name \in allowed \cap Mc!Permitted THEN Mc!Goto(r, "function")
           ELSE posts' = [posts EXCEPT ![r].pc = "next", ![r].listed = Append(@, "None")]
    BY <1>4 DEF Mc!Describe
  <2>2. CASE p.name \in allowed \cap Mc!Permitted
    <3>. DEFINE q == [p EXCEPT !.pc = "function"]
    <3>1. posts' = [posts EXCEPT ![r] = q]
      BY <2>1, <2>2 DEF Mc!Goto
    <3>2. "function" \in Phases
      BY DEF Phases
    <3>3. /\ q \in PostRecords /\ q.pc = "function" /\ SameList(q, p) /\ SameTalk(q, p)
          /\ q.finishes = p.finishes /\ q.outcome = p.outcome
      BY <1>1, <3>2, GotoFields
    <3>. HIDE DEF p, q
    <3>4. At(q) = At(p)
      BY <2>1, <3>3 DEF At, SameList
    <3>5. GoodPost(q)
      BY <1>1, <2>1, <2>2, <3>3, <3>4 DEF GoodPost, Finishing, Listing, Telling, SameList
    <3>6. Moves(r, q)
      BY <1>1, <3>1, <3>3, <3>5 DEF Moves, SameList
    <3>. QED BY <3>6
  <2>3. CASE p.name \notin allowed \cap Mc!Permitted
    <3>. DEFINE q == [p EXCEPT !.pc = "next", !.listed = Append(@, "None")]
    <3>1. posts' = [posts EXCEPT ![r] = q]
      BY <1>2, <2>1, <2>3
    <3>2. p.name \notin p.steady
      BY <1>1, <2>3 DEF Stable
    <3>3. GoodPost(q) /\ q.steady = p.steady
      BY <1>1, <2>1, <3>2, NameLeft
    <3>. HIDE DEF q
    <3>4. Moves(r, q)
      BY <1>1, <3>1, <3>3 DEF Moves
    <3>. QED BY <3>4
  <2>. QED BY <2>2, <2>3
<1>5. CASE Mc!Function(r)
  <2>1. /\ p.pc = "function"
        /\ \/ Mc!Raise(r)
           \/ posts' = [posts EXCEPT ![r].pc = "next", ![r].listed = Append(@, p.name)]
    BY <1>5 DEF Mc!Function
  <2>2. CASE Mc!Raise(r)
    BY <2>1, <2>2, EarlyEndsMove
  <2>3. CASE posts' = [posts EXCEPT ![r].pc = "next", ![r].listed = Append(@, p.name)]
    <3>. DEFINE q == [p EXCEPT !.pc = "next", !.listed = Append(@, p.name)]
    <3>1. posts' = [posts EXCEPT ![r] = q]
      BY <1>2, <2>3
    <3>2. GoodPost(q) /\ q.steady = p.steady
      BY <1>1, <2>1, NameListed
    <3>. HIDE DEF q
    <3>3. Moves(r, q)
      BY <1>1, <3>1, <3>2 DEF Moves
    <3>. QED BY <3>3
  <2>. QED BY <2>1, <2>2, <2>3
<1>6. CASE Mc!EndList(r)
  <2>. DEFINE q == Mc!Finished(p, 200, "list")
  <2>1. p.pc = "next" /\ p.todo = <<>> /\ posts' = [posts EXCEPT ![r] = q]
    BY <1>6 DEF Mc!EndList, Mc!Return
  <2>2. 200 \in Codes /\ "list" \in Outcomes
    BY CodesAndOutcomes
  <2>3. /\ q \in PostRecords /\ q.pc = "done" /\ SameList(q, p) /\ SameTalk(q, p)
        /\ q.finishes = p.finishes + 1 /\ q.outcome = "list"
    BY <1>1, <2>2, FinishedFields
  <2>. HIDE DEF p, q
  <2>4. Finishing(q) /\ Telling(q)
    BY <1>1, <2>1, <2>3 DEF Finishing, Telling
  <2>5. At(p) = {} /\ At(q) = {}
    BY <2>1, <2>3 DEF At
  <2>6. Listing(q)
    BY <1>1, <2>1, <2>3, <2>5 DEF GoodPost, Listing, SameList
  <2>7. Moves(r, q)
    BY <1>1, <2>1, <2>3, <2>4, <2>6 DEF Moves, GoodPost, SameList
  <2>. QED BY <2>7
<1>. QED BY <1>3, <1>4, <1>5, <1>6

LEMMA McpStep == ASSUME McpInv, [Mc!Next]_McVars PROVE McpInv'
<1>1. CASE UNCHANGED McVars
  <2>1. UNCHANGED <<policy, table, allowed, news, mcpChanges, posts>>
    BY <1>1 DEF McVars
  <2>2. Stable' = Stable /\ Mc!Permitted' = Mc!Permitted
    BY <2>1 DEF Stable, Mc!Permitted
  <2>3. ASSUME NEW p, GoodPost(p) PROVE GoodPost(p)'
    BY <2>2, <2>3 DEF GoodPost, Finishing, Listing, Telling
  <2>4. ASSUME NEW s \in Requests PROVE (GoodPost(posts[s]) /\ posts[s].steady \subseteq Stable)'
    <3>1. GoodPost(posts[s]) /\ posts[s].steady \subseteq Stable
      BY DEF McpInv
    <3>. QED BY <2>1, <2>2, <2>3, <3>1
  <2>. QED BY <2>1, <2>4 DEF McpInv
<1>2. CASE (\E n \in Names, k \in {"tool", "plain", "none"} : Mc!Change(n, k)) \/ Mc!Announce
  BY <1>2, WatcherMoves
<1>3. ASSUME NEW r \in Requests, Mc!RegistryAsItWas, \E q : Moves(r, q) PROVE McpInv'
  <2>1. PICK q : Moves(r, q)
    BY <1>3
  <2>. QED BY <1>3, <2>1, PostMoves DEF Moves
<1>4. ASSUME NEW r \in Requests,
             \/ \E k \in DOMAIN Mc!Statuses : Mc!Answer(r, k)
             \/ Mc!StartList(r) \/ \E n \in Names : Mc!StartCall(r, n)
             \/ Mc!PostStep(r) \/ Mc!StopStream(r)
      PROVE  McpInv'
  <2>1. ASSUME NEW k \in DOMAIN Mc!Statuses, Mc!Answer(r, k) PROVE McpInv'
    <3>1. Mc!RegistryAsItWas
      BY <2>1 DEF Mc!Answer
    <3>. QED BY <1>3, <2>1, <3>1, AnswersMove
  <2>2. CASE Mc!StartList(r) \/ Mc!TakeNames(r)
    <3>1. Mc!RegistryAsItWas
      BY <2>2 DEF Mc!StartList, Mc!TakeNames
    <3>. QED BY <1>3, <2>2, <3>1, ListsBegin
  <2>3. CASE Mc!NextName(r)
    <3>1. Mc!RegistryAsItWas
      BY <2>3 DEF Mc!NextName
    <3>. QED BY <1>3, <2>3, <3>1, NamesMove
  <2>4. CASE Mc!LookAtNetwork(r) \/ Mc!Describe(r) \/ Mc!Function(r) \/ Mc!EndList(r)
    <3>1. Mc!RegistryAsItWas
      BY <2>4 DEF Mc!LookAtNetwork, Mc!LookForTool, Mc!Describe, Mc!Function, Mc!EndList
    <3>. QED BY <1>3, <2>4, <3>1, ListsMove
  <2>5. CASE \/ \E n \in Names : Mc!StartCall(r, n)
             \/ Mc!AllowAgent(r) \/ Mc!IsMcpTool(r) \/ Mc!GetTimeout(r) \/ Mc!StopStream(r)
    <3>1. Mc!RegistryAsItWas
      BY <2>5 DEF Mc!StartCall, Mc!AllowAgent, Mc!IsMcpTool, Mc!LookForTool, Mc!GetTimeout, Mc!StopStream
    <3>. QED BY <1>3, <2>5, <3>1, CallsMove
  <2>6. CASE Mc!StartChat(r) \/ Mc!Hear(r) \/ Mc!EndStream(r)
    <3>1. Mc!RegistryAsItWas
      BY <2>6 DEF Mc!StartChat, Mc!Hear, Mc!EndStream
    <3>. QED BY <1>3, <2>6, <3>1, ChatsMove
  <2>. QED BY <1>4, <2>1, <2>2, <2>3, <2>4, <2>5, <2>6 DEF Mc!PostStep
<1>. QED BY <1>1, <1>2, <1>4 DEF Mc!Next

LEMMA McpFollows == McpInv => Mc!TypeOK /\ Mc!AnsweredOnce /\ Mc!ListIsWhole /\ Mc!ResultIsWhole
<1>. SUFFICES ASSUME McpInv PROVE Mc!TypeOK /\ Mc!AnsweredOnce /\ Mc!ListIsWhole /\ Mc!ResultIsWhole
  OBVIOUS
<1>1. ASSUME NEW r \in Requests
      PROVE  Finishing(posts[r]) /\ Listing(posts[r]) /\ Telling(posts[r]) /\ posts[r] \in PostRecords
  BY DEF McpInv, GoodPost, Finishing
<1>2. Mc!TypeOK
  <2>1. ASSUME NEW r \in Requests
        PROVE  posts[r].status \in {0, 500} \cup {Mc!Statuses[k] : k \in DOMAIN Mc!Statuses}
    BY <1>1 DEF PostRecords, Codes, AnswerKinds
  <2>2. DOMAIN table = Names
    BY DEF McpInv
  <2>. QED BY <2>1, <2>2 DEF Mc!TypeOK, McpInv
<1>3. Mc!AnsweredOnce
  BY <1>1 DEF Mc!AnsweredOnce, Finishing
<1>4. Mc!ListIsWhole
  <2>. SUFFICES ASSUME NEW r \in Requests, posts[r].outcome = "list"
                PROVE  LET places(n) == {i \in DOMAIN posts[r].listed : posts[r].listed[i] = n}
                       IN /\ \A n \in posts[r].steady : Mc!Cardinality(places(n)) = 1
                          /\ \A n \in Names : Mc!Cardinality(places(n)) <= 1
                          /\ \A n \in Names \ Mc!Permitted : places(n) = {}
    BY DEF Mc!ListIsWhole
  <2>. DEFINE list == posts[r].listed
              steady == posts[r].steady
              places(n) == {i \in DOMAIN list : list[i] = n}
  <2>1. /\ \A i, j \in DOMAIN list : list[i] = list[j] /\ list[i] \in Names => i = j
        /\ \A n \in SetOf(list) : n \in Names => n \in Mc!Permitted
        /\ steady \subseteq SetOf(posts[r].todo) \cup SetOf(list) \cup At(posts[r])
        /\ posts[r].todo = <<>> /\ At(posts[r]) = {} /\ steady \subseteq Names
    BY <1>1 DEF Listing, PostRecords
  <2>2. steady \subseteq SetOf(list)
    BY <2>1 DEF SetOf
  <2>. HIDE DEF list, steady
  <2>3. ASSUME NEW n \in Names PROVE Cardinality(places(n)) <= 1
    <3>1. CASE places(n) = {}
      BY <3>1, FS_EmptySet
    <3>2. CASE places(n) # {}
      <4>1. PICK i : i \in places(n)
        BY <3>2
      <4>2. places(n) = {i}
        BY <2>1, <4>1
      <4>. HIDE DEF places
      <4>3. Cardinality(places(n)) = 1
        BY <4>2, FS_Singleton
      <4>. QED BY <4>3
    <3>. QED BY <3>1, <3>2
  <2>4. ASSUME NEW n \in steady PROVE Cardinality(places(n)) = 1
    <3>1. PICK i \in DOMAIN list : list[i] = n
      BY <2>2 DEF SetOf
    <3>2. places(n) = {i}
      BY <2>1, <3>1
    <3>. HIDE DEF places
    <3>. QED BY <3>2, FS_Singleton
  <2>5. ASSUME NEW n \in Names \ Mc!Permitted PROVE places(n) = {}
    BY <2>1 DEF SetOf
  <2>6. /\ \A n \in steady : Mc!Cardinality(places(n)) = 1
        /\ \A n \in Names : Mc!Cardinality(places(n)) <= 1
        /\ \A n \in Names \ Mc!Permitted : places(n) = {}
    <3>. HIDE DEF places
    <3>. QED BY <2>3, <2>4, <2>5, CardinalityOfMcp
  <2>. QED BY <2>6 DEF list, steady
<1>5. Mc!ResultIsWhole
  <2>. SUFFICES ASSUME NEW r \in Requests, posts[r].outcome = "result"
                PROVE  LET p == posts[r]
                           own == {i \in DOMAIN p.script : p.script[i].type = "AGENT_FRAMEWORK"}
                           structured == {i \in own : p.script[i].structure # "none"}
                       IN /\ p.name \in Mc!Permitted
                          /\ \E place \in [DOMAIN p.text -> own] :
                               /\ own = {place[i] : i \in DOMAIN p.text}
                               /\ \A i, j \in DOMAIN p.text : i < j => place[i] < place[j]
                               /\ p.text = [i \in DOMAIN p.text |-> p.script[place[i]].text]
                          /\ IF structured = {} THEN p.structure = "none"
                             ELSE \E i \in structured : /\ p.structure = p.script[i].structure
                                                        /\ \A j \in structured : j <= i
    BY DEF Mc!ResultIsWhole
  <2>. DEFINE p == posts[r]
              own == {i \in DOMAIN p.script : p.script[i].type = "AGENT_FRAMEWORK"}
              structured == {i \in own : p.script[i].structure # "none"}
  <2>1. /\ p.name \in Mc!Permitted /\ p.script \in Seq(Messages)
        /\ TextIs(p.text, p.script, Len(p.script)) /\ StructureIs(p.structure, p.script, Len(p.script))
    BY <1>1 DEF Finishing, Telling, PostRecords
  <2>. HIDE DEF p
  <2>2. own = Own(p.script, Len(p.script)) /\ structured = Structured(p.script, Len(p.script))
    BY <2>1 DEF Own, Structured
  <2>. HIDE DEF own, structured
  <2>3. /\ p.name \in Mc!Permitted
        /\ \E place \in [DOMAIN p.text -> own] :
             /\ own = {place[i] : i \in DOMAIN p.text}
             /\ \A i, j \in DOMAIN p.text : i < j => place[i] < place[j]
             /\ p.text = [i \in DOMAIN p.text |-> p.script[place[i]].text]
        /\ IF structured = {} THEN p.structure = "none"
           ELSE \E i \in structured : /\ p.structure = p.script[i].structure
                                      /\ \A j \in structured : j <= i
    BY <2>1, <2>2 DEF TextIs, StructureIs
  <2>. QED BY <2>3 DEF p, own, structured
<1>. QED BY <1>2, <1>3, <1>4, <1>5
-----------------------------------------------------------------------------
\* While the registry changes, a list of tools that is returned has every tool that was
\* there all the time, once, and none the client may not use, the result of a call is all
\* its agents said to the client, every response is finished once, and the tools run that
\* a model was offered on the call that called them, and no others
\* (mcp_root_handler.py, mcp_tools_processor.py, llm_config_tool_selector_middleware.py).
THEOREM ToolsAreAlwaysServed == Spec => []ToolsAreServed
<1>. DEFINE Inv == (part = "mcp" => McpInv) /\ (part = "selection" => SelectionInv)
<1>1. Init => Inv
  BY McpBegins, SelectionBegins DEF Init
<1>2. Inv /\ [Next]_ServiceVars => Inv'
  BY PartSteps, McpStep, SelectionStep
<1>3. Inv => ToolsAreServed
  BY McpFollows, SelectionFollows DEF ToolsAreServed
<1>. HIDE DEF Inv
<1>. QED BY <1>1, <1>2, <1>3, PTL DEF Spec
(* Clients of S3: client and session go together, and only what could sign is kept. *)

Keepable == [id : Nat, cred : Nat]

CallTypes(c) ==
  c \in [pc : {"get", "lock", "client", "work", "rejected", "done", "raised", "exhausted"},
         attempt : 1..ClientAttempts, tries : 1..ClientTries, own : Keepable, cred : Nat]

ClientInv ==
  /\ worker \in Workers /\ chain \in 0..MaxRotations + 1 /\ accepted \in 1..MaxRotations + 1
  /\ session \in Keepable /\ s3Client \in Keepable /\ made \in Nat
  /\ worker # "sync" => s3Client = Cl!Nothing
  /\ s3Client # Cl!Nothing => s3Client.cred # 0 /\ s3Client.cred = session.cred
  /\ worker = "sync" /\ s3Client = Cl!Nothing => session.cred = 0
  /\ calls = [t \in Threads |-> calls[t]] /\ \A t \in Threads : CallTypes(calls[t])

LEMMA ClientTypes ==
  /\ Workers \subseteq {"sync", "async"} /\ MaxRotations \in Nat
  /\ ClientAttempts \in Nat \ {0} /\ ClientTries \in Nat \ {0}
BY PartsAssumption DEF Cl!WorkerAssumption

LEMMA ClientsBegin == Cl!Init => ClientInv
<1>. SUFFICES ASSUME Cl!Init PROVE ClientInv
  OBVIOUS
<1>1. Cl!Nothing \in Keepable /\ Cl!Nothing.cred = 0
  BY DEF Cl!Nothing, Keepable
<1>2. \A t \in Threads : CallTypes(calls[t])
  BY <1>1, ClientTypes DEF Cl!Init, CallTypes
<1>. QED BY <1>1, <1>2, ClientTypes DEF Cl!Init, ClientInv

\* What one thread's call becomes.
LEMMA CallMoves ==
  ASSUME ClientInv, NEW t \in Threads, NEW c, CallTypes(c), calls' = [calls EXCEPT ![t] = c]
  PROVE  /\ calls' = [u \in Threads |-> calls'[u]] /\ \A u \in Threads : CallTypes(calls'[u])
BY DEF ClientInv

\* What a step does to the shared client and session.
Shared ==
  /\ session' \in Keepable /\ s3Client' \in Keepable /\ made' \in Nat
  /\ worker # "sync" => s3Client' = Cl!Nothing
  /\ s3Client' # Cl!Nothing => s3Client'.cred # 0 /\ s3Client'.cred = session'.cred
  /\ worker = "sync" /\ s3Client' = Cl!Nothing => session'.cred = 0

ClientSafe == Cl!NewClientsAreFresh /\ Cl!OnlyFailedOnesAreDiscarded

LEMMA ClientsKept ==
  ASSUME ClientInv, UNCHANGED <<session, s3Client, made>>
  PROVE  Shared /\ ClientSafe
<1>1. Shared
  BY DEF ClientInv, Shared
<1>2. Cl!NewClientsAreFresh
  BY DEF Cl!NewClientsAreFresh
<1>3. Cl!OnlyFailedOnesAreDiscarded
  BY DEF Cl!OnlyFailedOnesAreDiscarded
<1>. QED BY <1>1, <1>2, <1>3 DEF ClientSafe

LEMMA ClientStep == ASSUME ClientInv, Cl!Next PROVE ClientInv' /\ ClientSafe
<1>1. CASE Cl!Expire
  <2>1. accepted' \in 1..MaxRotations + 1 /\ UNCHANGED <<worker, chain, session, s3Client, made, calls>>
    BY <1>1, ClientTypes DEF Cl!Expire, ClientInv
  <2>2. ClientInv'
    BY <2>1 DEF ClientInv
  <2>. QED BY <2>1, <2>2, ClientsKept DEF ClientSafe
<1>2. CASE Cl!Rewrite
  <2>1. chain' \in 0..MaxRotations + 1 /\ UNCHANGED <<worker, accepted, session, s3Client, made, calls>>
    BY <1>2, ClientTypes DEF Cl!Rewrite, ClientInv
  <2>2. ClientInv'
    BY <2>1 DEF ClientInv
  <2>. QED BY <2>1, <2>2, ClientsKept DEF ClientSafe
<1>3. ASSUME NEW t \in Threads, Cl!CallStep(t) PROVE ClientInv' /\ ClientSafe
  <2>. DEFINE c == calls[t]
  <2>1. CallTypes(c)
    BY DEF ClientInv
  <2>2. Cl!ChainOnly
    BY <1>3 DEF Cl!CallStep, Cl!GetCachedClient, Cl!MakeClient, Cl!GetSession, Cl!MakeOwnClient,
                Cl!Work, Cl!Rejected
  <2>3. ASSUME Shared, NEW d, CallTypes(d), calls' = [calls EXCEPT ![t] = d] PROVE ClientInv'
    <3>1. UNCHANGED <<worker, chain, accepted>>
      BY <2>2 DEF Cl!ChainOnly
    <3>2. calls' = [u \in Threads |-> calls'[u]] /\ \A u \in Threads : CallTypes(calls'[u])
      BY <2>3, CallMoves
    <3>. QED BY <2>3, <3>1, <3>2 DEF ClientInv, Shared
  <2>4. calls = [u \in Threads |-> calls[u]] /\ Cl!Nothing \in Keepable /\ Cl!Nothing.cred = 0
    BY DEF ClientInv, Cl!Nothing, Keepable
  <2>5. CASE Cl!GetCachedClient(t)
    <3>. DEFINE d == IF s3Client # Cl!Nothing
                     THEN [c EXCEPT !.pc = "work", !.own = s3Client, !.cred = s3Client.cred]
                     ELSE [c EXCEPT !.pc = "lock"]
    <3>1. calls' = [calls EXCEPT ![t] = d] /\ UNCHANGED <<session, s3Client, made>>
      BY <2>5 DEF Cl!GetCachedClient
    <3>2. s3Client \in Keepable /\ s3Client.cred \in Nat
      BY DEF ClientInv, Keepable
    <3>. HIDE DEF c
    <3>3. CallTypes(d)
      BY <2>1, <3>2 DEF CallTypes
    <3>. HIDE DEF d
    <3>. QED BY <2>3, <3>1, <3>3, ClientsKept
  <2>6. CASE Cl!MakeClient(t)
    <3>. DEFINE s == IF session = Cl!Nothing THEN [id |-> made + 1, cred |-> 0] ELSE session
                built == [id |-> made + 2, cred |-> Cl!Resolved(s)]
    <3>1. /\ worker = "sync" /\ c.pc = "lock"
          /\ \/ /\ s3Client # Cl!Nothing
                /\ calls' = [calls EXCEPT ![t].pc = "work", ![t].own = s3Client, ![t].cred = s3Client.cred]
                /\ UNCHANGED <<session, s3Client, made>>
             \/ /\ s3Client = Cl!Nothing /\ Cl!Resolved(s) = 0
                /\ session' = s /\ made' = made + 2
                /\ calls' = [calls EXCEPT ![t].pc = "rejected", ![t].own = Cl!Nothing]
                /\ UNCHANGED s3Client
             \/ /\ s3Client = Cl!Nothing /\ Cl!Resolved(s) # 0
                /\ session' = [s EXCEPT !.cred = Cl!Resolved(s)]
                /\ s3Client' = built /\ made' = made + 2
                /\ calls' = [calls EXCEPT ![t].pc = "work", ![t].own = built, ![t].cred = built.cred]
      BY <2>6 DEF Cl!MakeClient
    <3>2. s \in Keepable /\ built \in Keepable /\ made + 2 \in Nat /\ chain \in Nat
      BY ClientTypes DEF ClientInv, Keepable, Cl!Resolved
    <3>3. CASE s3Client # Cl!Nothing
      <4>. DEFINE d == [c EXCEPT !.pc = "work", !.own = s3Client, !.cred = s3Client.cred]
      <4>1. calls' = [calls EXCEPT ![t] = d] /\ UNCHANGED <<session, s3Client, made>>
        BY <2>4, <3>1, <3>3
      <4>2. s3Client \in Keepable /\ s3Client.cred \in Nat
        BY DEF ClientInv, Keepable
      <4>. HIDE DEF c
      <4>3. CallTypes(d)
        BY <2>1, <4>2 DEF CallTypes
      <4>. HIDE DEF d
      <4>. QED BY <2>3, <4>1, <4>3, ClientsKept
    <3>4. CASE s3Client = Cl!Nothing /\ Cl!Resolved(s) = 0
      <4>. DEFINE d == [c EXCEPT !.pc = "rejected", !.own = Cl!Nothing]
      <4>1. /\ calls' = [calls EXCEPT ![t] = d] /\ session' = s /\ made' = made + 2
            /\ s3Client' = s3Client
        BY <2>4, <3>1, <3>4
      <4>2. s.cred = 0
        BY <3>1, <3>4 DEF ClientInv
      <4>. HIDE DEF c, s, built
      <4>3. CallTypes(d)
        BY <2>1, <2>4 DEF CallTypes
      <4>4. Shared
        BY <3>1, <3>2, <3>4, <4>1, <4>2 DEF Shared, ClientInv
      <4>5. ClientInv'
        <5>. HIDE DEF d
        <5>. QED BY <2>3, <4>1, <4>3, <4>4
      <4>6. ClientSafe
        BY <3>1, <3>4, <4>1 DEF ClientSafe, Cl!NewClientsAreFresh, Cl!OnlyFailedOnesAreDiscarded
      <4>. QED BY <4>5, <4>6
    <3>5. CASE s3Client = Cl!Nothing /\ Cl!Resolved(s) # 0
      <4>. DEFINE d == [c EXCEPT !.pc = "work", !.own = built, !.cred = built.cred]
      <4>1. /\ calls' = [calls EXCEPT ![t] = d] /\ session' = [s EXCEPT !.cred = Cl!Resolved(s)]
            /\ s3Client' = built /\ made' = made + 2
        BY <2>4, <3>1, <3>5
      <4>2. s.cred = 0 /\ Cl!Resolved(s) = chain
        BY <3>1, <3>5 DEF ClientInv, Cl!Resolved
      <4>3. built.cred = Cl!Resolved(s) /\ built # Cl!Nothing
        BY <3>5, <2>4
      <4>. HIDE DEF c, s, built
      <4>4. CallTypes(d)
        BY <2>1, <3>2 DEF CallTypes, Keepable
      <4>5. session' \in Keepable /\ session'.cred = Cl!Resolved(s)
        BY <3>2, <4>1, <4>2 DEF Keepable
      <4>6. Shared
        BY <3>1, <3>2, <3>5, <4>1, <4>3, <4>5 DEF Shared
      <4>7. ClientInv'
        <5>. HIDE DEF d
        <5>. QED BY <2>3, <4>1, <4>4, <4>6
      <4>8. ClientSafe
        BY <3>1, <3>5, <4>1, <4>2, <4>3 DEF ClientSafe, Cl!NewClientsAreFresh, Cl!OnlyFailedOnesAreDiscarded
      <4>. QED BY <4>7, <4>8
    <3>. QED BY <3>3, <3>4, <3>5
  <2>7. CASE Cl!GetSession(t)
    <3>. DEFINE s == IF session = Cl!Nothing THEN [id |-> made + 1, cred |-> 0] ELSE session
                d == [c EXCEPT !.pc = "client", !.own = s]
    <3>1. /\ worker = "async" /\ session' = s /\ calls' = [calls EXCEPT ![t] = d] /\ s3Client' = s3Client
          /\ made' = IF session = Cl!Nothing THEN made + 1 ELSE made
      BY <2>4, <2>7 DEF Cl!GetSession
    <3>2. s \in Keepable /\ made' \in Nat /\ (session # Cl!Nothing => s = session)
      BY <3>1 DEF ClientInv, Keepable
    <3>. HIDE DEF c, s
    <3>3. CallTypes(d)
      BY <2>1, <3>2 DEF CallTypes
    <3>4. Shared
      BY <3>1, <3>2 DEF Shared, ClientInv
    <3>5. ClientInv'
      <4>. HIDE DEF d
      <4>. QED BY <2>3, <3>1, <3>3, <3>4
    <3>6. ClientSafe
      BY <3>1, <3>2 DEF ClientSafe, Cl!NewClientsAreFresh, Cl!OnlyFailedOnesAreDiscarded
    <3>. QED BY <3>5, <3>6
  <2>8. CASE Cl!MakeOwnClient(t)
    <3>. DEFINE own == IF session.id = c.own.id THEN session ELSE c.own
                s == [own EXCEPT !.cred = Cl!Resolved(own)]
                d == [c EXCEPT !.pc = "work", !.own = s, !.cred = s.cred]
    <3>1. /\ worker = "async" /\ session' = (IF session.id = s.id THEN s ELSE session)
          /\ calls' = [calls EXCEPT ![t].pc = "work", ![t].own = s, ![t].cred = s.cred]
          /\ UNCHANGED <<s3Client, made>>
      BY <2>8 DEF Cl!MakeOwnClient
    <3>2. own \in Keepable /\ chain \in Nat /\ session \in Keepable
      BY <2>1, ClientTypes DEF ClientInv, CallTypes
    <3>3. session.id = own.id => own = session
      OBVIOUS
    <3>. HIDE DEF c, own
    <3>4. s \in Keepable /\ s.id = own.id /\ s.cred = Cl!Resolved(own) /\ s.cred \in Nat
      BY <3>2 DEF Keepable, Cl!Resolved
    <3>5. session # Cl!Nothing /\ session.id = s.id => s # Cl!Nothing
      <4>. SUFFICES ASSUME session # Cl!Nothing, session.id = s.id, s = Cl!Nothing PROVE FALSE
        OBVIOUS
      <4>1. own = session /\ s.id = 0 /\ s.cred = 0
        BY <3>3, <3>4 DEF Cl!Nothing
      <4>2. own.id = 0 /\ own.cred = 0
        BY <3>4, <4>1 DEF Cl!Resolved
      <4>3. own = Cl!Nothing
        BY <3>2, <4>2 DEF Keepable, Cl!Nothing
      <4>. QED BY <4>1, <4>3
    <3>. HIDE DEF s
    <3>6. CallTypes(d) /\ calls' = [calls EXCEPT ![t] = d]
      <4>1. calls' = [calls EXCEPT ![t] = d]
        BY <2>4, <3>1 DEF c
      <4>2. CallTypes(d)
        BY <2>1, <3>4 DEF CallTypes
      <4>. QED BY <4>1, <4>2
    <3>7. Shared
      BY <3>1, <3>2, <3>4 DEF Shared, ClientInv
    <3>8. ClientInv'
      <4>. HIDE DEF d
      <4>. QED BY <2>3, <3>1, <3>6, <3>7
    <3>9. ClientSafe
      BY <3>1, <3>5 DEF ClientSafe, Cl!NewClientsAreFresh, Cl!OnlyFailedOnesAreDiscarded
    <3>. QED BY <3>8, <3>9
  <2>9. CASE Cl!Work(t)
    <3>1. /\ UNCHANGED <<session, s3Client, made>>
          /\ \/ \E pc \in {"done", "rejected", "raised"} : calls' = [calls EXCEPT ![t].pc = pc]
             \/ c.tries < ClientTries /\ calls' = [calls EXCEPT ![t].tries = @ + 1]
      BY <2>9 DEF Cl!Work
    <3>2. ASSUME NEW pc \in {"done", "rejected", "raised"}, calls' = [calls EXCEPT ![t].pc = pc]
          PROVE  ClientInv'
      <4>. DEFINE d == [c EXCEPT !.pc = pc]
      <4>1. calls' = [calls EXCEPT ![t] = d]
        BY <3>2
      <4>. HIDE DEF c
      <4>2. CallTypes(d)
        BY <2>1 DEF CallTypes
      <4>. HIDE DEF d
      <4>. QED BY <2>3, <3>1, <4>1, <4>2, ClientsKept
    <3>3. CASE c.tries < ClientTries /\ calls' = [calls EXCEPT ![t].tries = @ + 1]
      <4>. DEFINE d == [c EXCEPT !.tries = c.tries + 1]
      <4>1. calls' = [calls EXCEPT ![t] = d]
        BY <3>3
      <4>2. c.tries + 1 \in 1..ClientTries
        BY <2>1, <3>3, ClientTypes DEF CallTypes
      <4>. HIDE DEF c
      <4>3. CallTypes(d)
        BY <2>1, <4>2 DEF CallTypes
      <4>. HIDE DEF d
      <4>. QED BY <2>3, <3>1, <4>1, <4>3, ClientsKept
    <3>. QED BY <3>1, <3>2, <3>3, ClientsKept
  <2>10. CASE Cl!Rejected(t)
    <3>. DEFINE attempt == IF c.attempt < ClientAttempts THEN c.attempt + 1 ELSE c.attempt
                d == [c EXCEPT !.pc = Cl!AfterRejection(c), !.tries = 1, !.attempt = attempt]
    <3>1. /\ c.pc = "rejected" /\ Cl!Reset(c.own) /\ made' = made
          /\ calls' = [calls EXCEPT ![t] = d]
      BY <2>4, <2>10 DEF Cl!Rejected
    <3>2. Cl!AfterRejection(c) \in {"get", "exhausted"} /\ attempt \in 1..ClientAttempts /\ 1 \in 1..ClientTries
      BY <2>1, ClientTypes DEF Cl!AfterRejection, CallTypes
    <3>3. \/ UNCHANGED <<session, s3Client>>
          \/ /\ s3Client' = Cl!Nothing /\ session' = Cl!Nothing
             /\ IF worker = "sync" THEN s3Client # Cl!Nothing /\ s3Client.id = c.own.id
                ELSE session # Cl!Nothing /\ session.id = c.own.id
      BY <3>1 DEF Cl!Reset
    <3>. HIDE DEF c, attempt
    <3>4. CallTypes(d)
      BY <2>1, <3>2 DEF CallTypes
    <3>5. Shared
      BY <2>4, <3>1, <3>3 DEF Shared, ClientInv
    <3>6. ClientInv'
      <4>. HIDE DEF d
      <4>. QED BY <2>3, <3>1, <3>4, <3>5
    <3>7. CASE UNCHANGED <<session, s3Client>>
      BY <3>1, <3>6, <3>7, ClientsKept
    <3>8. CASE /\ s3Client' = Cl!Nothing /\ session' = Cl!Nothing
               /\ IF worker = "sync" THEN s3Client # Cl!Nothing /\ s3Client.id = c.own.id
                  ELSE session # Cl!Nothing /\ session.id = c.own.id
      <4>1. calls[t].pc = "rejected" /\ c.own = calls[t].own
        BY <3>1 DEF c
      <4>2. Cl!NewClientsAreFresh
        BY <3>8 DEF Cl!NewClientsAreFresh
      <4>3. Cl!OnlyFailedOnesAreDiscarded
        BY <3>8, <4>1 DEF Cl!OnlyFailedOnesAreDiscarded
      <4>. QED BY <3>6, <4>2, <4>3 DEF ClientSafe
    <3>. QED BY <3>3, <3>7, <3>8
  <2>. QED BY <1>3, <2>5, <2>6, <2>7, <2>8, <2>9, <2>10 DEF Cl!CallStep
<1>. QED BY <1>1, <1>2, <1>3 DEF Cl!Next

\* The shared S3 client was made from a session with credentials, a new one carries the
\* credentials of the moment, and a client or session is discarded only by a thread that
\* failed on it, for any number of threads and attempts (aws_sync_client_worker.py,
\* aws_async_client_worker.py).
THEOREM ClientsAlwaysReplaced == Spec => ClientsAreReplaced
<1>. DEFINE Inv == part = "clients" => ClientInv
            Safe == part = "clients" =>
                      /\ (Cl!TypeOK)'
                      /\ (Cl!ClientIsUsable)'
                      /\ Cl!NewClientsAreFresh
                      /\ Cl!OnlyFailedOnesAreDiscarded
<1>1. Init => Inv
  BY ClientsBegin DEF Init
<1>2. Inv /\ [Next]_ServiceVars => Inv'
  <2>. SUFFICES ASSUME Inv, [Next]_ServiceVars, part' = "clients" PROVE ClientInv'
    OBVIOUS
  <2>1. part = "clients" /\ ClientInv /\ [Cl!Next]_ClVars
    BY PartSteps
  <2>2. CASE UNCHANGED ClVars
    BY <2>1, <2>2 DEF ClVars, ClientInv
  <2>. QED BY <2>1, <2>2, ClientStep
<1>3. Inv /\ Inv' /\ [Next]_ServiceVars => [Safe]_ClVars
  <2>. SUFFICES ASSUME Inv, Inv', [Next]_ServiceVars, ~(UNCHANGED ClVars), part = "clients" PROVE Safe
    OBVIOUS
  <2>1. ClientInv /\ Cl!Next /\ ClientInv'
    BY PartSteps
  <2>2. ClientInv => Cl!TypeOK /\ Cl!ClientIsUsable
    BY DEF ClientInv, Cl!TypeOK, Cl!ClientIsUsable, CallTypes
  <2>3. (Cl!TypeOK)' /\ (Cl!ClientIsUsable)'
    <3>1. ClientInv' => (Cl!TypeOK)' /\ (Cl!ClientIsUsable)'
      BY DEF ClientInv, Cl!TypeOK, Cl!ClientIsUsable, CallTypes
    <3>. QED BY <2>1, <3>1
  <2>. QED BY <2>1, <2>3, ClientStep DEF ClientSafe
<1>4. Spec => [][Safe]_ClVars
  <2>. HIDE DEF Inv, Safe
  <2>. QED BY <1>1, <1>2, <1>3, PTL DEF Spec
<1>. QED BY <1>4 DEF ClientsAreReplaced
-----------------------------------------------------------------------------
(* Finite sets of integers have ends *)

HasEnds(S) ==
  /\ \E k \in S : \A j \in S : k <= j
  /\ \E k \in S : \A j \in S : k >= j

LEMMA FiniteHasEnds ==
  ASSUME NEW S, S \subseteq Int, IsFiniteSet(S), S # {}
  PROVE  HasEnds(S)
<1>. DEFINE Endless == {T \in SUBSET Int : IsFiniteSet(T) /\ T # {} /\ ~HasEnds(T)}
            Sizes == {n \in Nat : \E T \in Endless : Cardinality(T) = n}
<1>. SUFFICES ASSUME ~HasEnds(S) PROVE FALSE
  OBVIOUS
<1>1. S \in Endless /\ Cardinality(S) \in Nat
  BY FS_CardinalityType
<1>2. Sizes \subseteq Nat /\ Sizes # {}
  BY <1>1
<1>3. PICK n \in Sizes : \A m \in Sizes : n <= m
  <2>. HIDE DEF Sizes
  <2>. QED BY <1>2, LeastNatural
<1>4. PICK T \in Endless : Cardinality(T) = n
  OBVIOUS
<1>5. T \subseteq Int /\ IsFiniteSet(T) /\ T # {} /\ ~HasEnds(T) /\ n \in Nat
  OBVIOUS
<1>6. PICK x \in T : TRUE
  BY <1>5
<1>. DEFINE U == T \ {x}
<1>7. U \subseteq Int /\ IsFiniteSet(U) /\ Cardinality(U) = n - 1 /\ Cardinality(U) \in Nat
  BY <1>4, <1>5, <1>6, FS_RemoveElement, FS_CardinalityType
<1>8. CASE U = {}
  <2>1. T = {x} /\ x \in Int
    BY <1>5, <1>6, <1>8
  <2>2. HasEnds(T)
    BY <2>1 DEF HasEnds
  <2>. QED BY <1>5, <2>2
<1>9. CASE U # {} /\ ~HasEnds(U)
  <2>1. n - 1 \in Sizes
    BY <1>7, <1>9
  <2>2. n <= n - 1
    BY <1>3, <2>1
  <2>. QED BY <1>5, <2>2
<1>10. CASE HasEnds(U)
  <2>1. PICK low \in U : \A j \in U : low <= j
    BY <1>10 DEF HasEnds
  <2>2. PICK high \in U : \A j \in U : high >= j
    BY <1>10 DEF HasEnds
  <2>3. x \in Int /\ low \in Int /\ high \in Int /\ low \in T /\ high \in T /\ \A j \in T : j \in Int
    BY <1>5, <1>6, <2>1, <2>2
  <2>4. \A j \in T : j = x \/ j \in U
    OBVIOUS
  <2>. HIDE DEF U
  <2>5. \E k \in T : \A j \in T : k <= j
    <3>1. CASE x <= low
      BY <1>6, <2>1, <2>3, <2>4, <3>1
    <3>2. CASE ~(x <= low)
      BY <2>1, <2>3, <2>4, <3>2
    <3>. QED BY <3>1, <3>2
  <2>6. \E k \in T : \A j \in T : k >= j
    <3>1. CASE x >= high
      BY <1>6, <2>2, <2>3, <2>4, <3>1
    <3>2. CASE ~(x >= high)
      BY <2>2, <2>3, <2>4, <3>2
    <3>. QED BY <3>1, <3>2
  <2>. QED BY <1>5, <2>5, <2>6 DEF HasEnds
<1>. QED BY <1>8, <1>9, <1>10
-----------------------------------------------------------------------------
(* The base storages: pages, verdicts, and what a pass has still ahead *)

LEMMA ObjectTypes ==
  /\ ObjectIds \subseteq Nat \ {0} /\ Strays \subseteq Nat \ {0} /\ ObjectIds \cap Strays = {}
  /\ IsFiniteSet(ObjectIds \cup Strays) /\ Kinds \subseteq {"s3", "azure", "local"}
  /\ Shapes \subseteq {"reservation", "foreign", "nullmeta", "text", "bytes"}
  /\ MaxLifetime \in Nat \ {0} /\ PageSize \in Nat \ {0} /\ ObjectAttempts \in Nat \ {0}
  /\ Grace \in Nat /\ Grace >= MaxLifetime /\ ObjectMaxTime \in Nat /\ MaxFailedCalls \in Nat
<1>1. Ob!IsFiniteSet(ObjectIds \cup Strays) <=> IsFiniteSet(ObjectIds \cup Strays)
  BY DEF Ob!IsFiniteSet, IsFiniteSet
<1>. QED BY <1>1, PartsAssumption DEF Ob!ObjectAssumption

LEMMA CardinalityOfObjects == ASSUME NEW S PROVE Ob!Cardinality(S) = Cardinality(S)
BY DEF Ob!Cardinality, Cardinality

LEMMA KeysAreFinite == Ob!Keys \subseteq Int /\ IsFiniteSet(Ob!Keys)
<1>. DEFINE negative == {-i : i \in ObjectIds}
            f == [i \in ObjectIds |-> -i]
<1>1. Ob!Keys = (ObjectIds \cup Strays) \cup negative
  BY DEF Ob!Keys
<1>2. Ob!Keys \subseteq Int
  <2>1. \A i \in ObjectIds : i \in Int /\ -i \in Int
    BY ObjectTypes
  <2>2. Strays \subseteq Int
    BY ObjectTypes
  <2>. QED BY <1>1, <2>1, <2>2
<1>3. IsFiniteSet(ObjectIds)
  BY ObjectTypes, FS_Subset
<1>4. f \in Surjection(ObjectIds, negative)
  BY DEF Surjection
<1>. HIDE DEF f, negative
<1>5. IsFiniteSet(negative)
  BY <1>3, <1>4, FS_Surjection
<1>. QED BY <1>1, <1>2, <1>5, ObjectTypes, FS_Union

LEMMA FirstIsLeast ==
  ASSUME NEW S, S \subseteq Ob!Keys, S # {}
  PROVE  Ob!First(S) \in S /\ \A j \in S : Ob!First(S) <= j
<1>1. \E k \in S : \A j \in S : k <= j
  BY KeysAreFinite, FS_Subset, FiniteHasEnds DEF HasEnds
<1>. QED BY <1>1 DEF Ob!First

\* A page has what comes first, and nothing that comes later than something left out.
LEMMA PagesAreFirst ==
  ASSUME NEW S, S \subseteq Ob!Keys, S # {}
  PROVE  /\ Ob!Page(S) \subseteq S /\ Ob!Page(S) # {} /\ Ob!Last(Ob!Page(S)) \in Int
         /\ \A k \in S : k \in Ob!Page(S) \/ k > Ob!Last(Ob!Page(S))
         /\ \A k \in Ob!Page(S) : k <= Ob!Last(Ob!Page(S))
<1>. DEFINE before(k) == {j \in S : j < k}
            page == Ob!Page(S)
            last == Ob!Last(page)
<1>1. S \subseteq Int /\ IsFiniteSet(S)
  BY KeysAreFinite, FS_Subset
<1>2. page = {k \in S : Cardinality(before(k)) < PageSize}
  BY CardinalityOfObjects DEF Ob!Page
<1>3. PageSize \in Nat /\ PageSize > 0
  BY ObjectTypes
<1>4. Ob!First(S) \in page
  <2>1. Ob!First(S) \in S /\ \A j \in S : Ob!First(S) <= j
    BY FirstIsLeast
  <2>2. before(Ob!First(S)) = {}
    <3>1. ASSUME NEW j \in S, j < Ob!First(S) PROVE FALSE
      <4>1. j \in Int /\ Ob!First(S) \in Int /\ Ob!First(S) <= j
        BY <1>1, <2>1
      <4>. QED BY <3>1, <4>1
    <3>. QED BY <3>1
  <2>3. Cardinality(before(Ob!First(S))) = 0
    BY <2>2, FS_EmptySet
  <2>. QED BY <1>2, <1>3, <2>1, <2>3
<1>5. page \subseteq S /\ page # {}
  BY <1>2, <1>4
<1>. HIDE DEF page
<1>6. last \in page /\ \A k \in page : k <= last
  <2>1. \E k \in page : \A j \in page : k >= j
    <3>1. page \subseteq Int /\ IsFiniteSet(page)
      BY <1>1, <1>5, FS_Subset
    <3>. QED BY <1>5, <3>1, FiniteHasEnds DEF HasEnds
  <2>2. last \in page /\ \A k \in page : last >= k
    BY <2>1 DEF Ob!Last
  <2>. HIDE DEF last
  <2>. QED BY <1>1, <1>5, <2>2
<1>. HIDE DEF last
<1>7. ASSUME NEW k \in S, ~(k > last) PROVE k \in page
  <2>1. k \in Int /\ last \in Int /\ last \in S
    BY <1>1, <1>5, <1>6
  <2>2. before(k) \subseteq before(last)
    <3>1. ASSUME NEW j \in S, j < k PROVE j < last
      <4>1. j \in Int
        BY <1>1
      <4>. QED BY <1>7, <2>1, <3>1, <4>1
    <3>. QED BY <3>1
  <2>3. IsFiniteSet(before(last))
    BY <1>1, FS_Subset
  <2>4. /\ Cardinality(before(k)) <= Cardinality(before(last))
        /\ Cardinality(before(k)) \in Nat /\ Cardinality(before(last)) \in Nat
    <3>. HIDE DEF before
    <3>1. IsFiniteSet(before(k))
      BY <2>2, <2>3, FS_Subset
    <3>. QED BY <2>2, <2>3, <3>1, FS_Subset, FS_CardinalityType
  <2>5. Cardinality(before(last)) < PageSize
    BY <1>2, <1>6
  <2>6. Cardinality(before(k)) < PageSize
    <3>. HIDE DEF before
    <3>. QED BY <1>3, <2>4, <2>5
  <2>. QED BY <1>2, <2>6
<1>. QED BY <1>1, <1>5, <1>6, <1>7 DEF page, last

\* When the reservation of a key that the writer uses expires.
Lease(k) == IF k \in ObjectIds THEN leases[k] ELSE leases[-k]

ObjectRecords == [shape : Shapes \cup {"reservation", "none"}, expiration : Int, modified : Int]

\* Strays do not outlive the longest lease, all others are reservations; in Azure they have
\* other keys than those they are looked for under.
GoodObject(k, o) ==
  /\ o \in ObjectRecords
  /\ o # Ob!NoObject => o.shape # "none"
  /\ k \in Strays /\ o # Ob!NoObject => o.expiration <= o.modified + MaxLifetime
  /\ k \notin Strays /\ o # Ob!NoObject => o.shape = "reservation" /\ o.expiration = Lease(k)
  /\ kind = "azure" /\ k \in ObjectIds => o = Ob!NoObject

\* What is written and gone has expired.
WriterInv ==
  /\ writer \in [pc : {"writing", "returned", "raised"}, todo : SUBSET ObjectIds, attempt : 1..ObjectAttempts]
  /\ writer.pc = "returned" => writer.todo = {}
  /\ writer.pc # "raised" => \A i \in ObjectIds \ writer.todo :
       objects[Ob!KeyWritten(i)] = Ob!NoObject => now > leases[i]

SweepTypes(s) ==
  /\ s \in [pc : {"idle", "list", "get", "delete", "batch", "ended"}, time : Nat,
            token : Int \cup {Ob!Start}, page : SUBSET Ob!Keys, doomed : SUBSET Ob!Keys,
            attempt : 1..ObjectAttempts, clean : BOOLEAN]
  /\ s.pc = "list" => s.page = {}
  /\ s.pc \in {"get", "delete"} => s.page # {}
  /\ \A k \in s.page : k <= s.token

\* Whatever is written there, it has expired.
Condemned(k, time) ==
  IF k \in Strays THEN objects[k] = Ob!NoObject \/ time > objects[k].expiration ELSE time > Lease(k)

SweepDooms(s) ==
  /\ \A k \in s.doomed : Condemned(k, s.time)
  /\ s.pc = "delete" => Condemned(Ob!First(s.page), s.time)

\* What the pass has not deleted is ahead of it, or comes after what ended it.
Behind(o, s) == o.shape = "reservation" /\ s.time > o.expiration /\ o.modified < s.time
Ahead(s) ==
  (IF kind = "azure" THEN s.doomed ELSE {})
    \cup (IF s.pc = "batch" THEN {} ELSE s.page \cup {k \in Ob!Keys : k > s.token})
Stuck(k, time) ==
  \E j \in Ob!Keys : objects[j] # Ob!NoObject /\ Ob!Verdict(objects[j], time) = "raise" /\ (j < k \/ kind = "azure")

SweepSees(s) ==
  /\ s.clean /\ s.pc \in {"list", "get", "delete", "batch"} =>
       \A k \in Ob!Keys : Behind(objects[k], s) => k \in Ahead(s)
  /\ s.clean /\ s.pc = "ended" => \A k \in Ob!Keys : Behind(objects[k], s) => Stuck(k, s.time)

SweepInv(s) == SweepTypes(s) /\ s.time <= now /\ SweepDooms(s) /\ SweepSees(s)

ObjectsInv ==
  /\ kind \in Kinds /\ now \in 0..ObjectMaxTime /\ failures \in 0..MaxFailedCalls
  /\ leases \in [ObjectIds -> 1..MaxLifetime]
  /\ objects = [k \in Ob!Keys |-> objects[k]] /\ \A k \in Ob!Keys : GoodObject(k, objects[k])
  /\ WriterInv /\ SweepInv(sweep)

LEMMA KeysWritten ==
  ASSUME NEW i \in ObjectIds
  PROVE  /\ Ob!KeyWritten(i) \in Ob!Keys /\ Ob!KeyWritten(i) \notin Strays /\ Lease(Ob!KeyWritten(i)) = leases[i]
         /\ \A j \in ObjectIds : Ob!KeyWritten(j) = Ob!KeyWritten(i) => j = i
         /\ kind = "azure" => Ob!KeyWritten(i) \notin ObjectIds
<1>1. i \in Nat /\ i # 0 /\ -i \notin ObjectIds /\ -i \notin Strays /\ -(-i) = i /\ i \notin Strays
      /\ \A j \in ObjectIds : j \in Int
  BY ObjectTypes
<1>2. i \in Ob!Keys /\ -i \in Ob!Keys
  BY DEF Ob!Keys
<1>. QED BY <1>1, <1>2 DEF Ob!KeyWritten, Lease

LEMMA Verdicts ==
  ASSUME kind \in Kinds, NEW k, NEW o, GoodObject(k, o), o # Ob!NoObject, NEW time \in Nat
  PROVE  /\ Ob!Verdict(o, time) = "delete" => time > o.expiration
         /\ o.shape = "reservation" => Ob!Verdict(o, time) \in {"keep", "delete"}
         /\ o.shape = "reservation" /\ time > o.expiration => Ob!Verdict(o, time) = "delete"
<1>1. /\ o.shape \in {"reservation", "foreign", "nullmeta", "text", "bytes"}
      /\ o.expiration \in Int /\ o.modified \in Int
      /\ o.shape # "reservation" => o.expiration <= o.modified + MaxLifetime
  BY ObjectTypes DEF GoodObject, ObjectRecords
<1>2. kind \in {"s3", "azure", "local"}
  BY ObjectTypes
<1>3. MaxLifetime \in Nat /\ Grace \in Nat /\ Grace >= MaxLifetime
  BY ObjectTypes
<1>4. /\ Ob!Due(o, time) \in {"keep", "delete"}
      /\ Ob!Due(o, time) = "delete" <=> time > o.expiration
  BY DEF Ob!Due, Ob!Expired
<1>5. o.shape # "reservation" /\ Ob!Malformed(o, time) = "delete" => time > o.expiration
  BY <1>1, <1>3 DEF Ob!Malformed
<1>6. CASE kind = "s3"
  <2>1. Ob!Verdict(o, time) = Ob!S3Verdict(o, time)
    BY <1>6 DEF Ob!Verdict
  <2>2. /\ o.shape = "reservation" => Ob!S3Verdict(o, time) = Ob!Due(o, time)
        /\ o.shape \in {"foreign", "nullmeta"} => Ob!S3Verdict(o, time) = Ob!Malformed(o, time)
        /\ o.shape = "bytes" => Ob!S3Verdict(o, time) = "raise"
        /\ o.shape = "text" => Ob!S3Verdict(o, time) = "keep"
    BY DEF Ob!S3Verdict
  <2>. QED BY <1>1, <1>4, <1>5, <2>1, <2>2
<1>7. CASE kind = "azure"
  <2>1. Ob!Verdict(o, time) = Ob!AzureVerdict(o, time)
    BY <1>7 DEF Ob!Verdict
  <2>2. /\ o.shape = "reservation" => Ob!AzureVerdict(o, time) = Ob!Due(o, time)
        /\ o.shape = "nullmeta" => Ob!AzureVerdict(o, time) = "raise"
        /\ o.shape \in {"foreign", "bytes", "text"} => Ob!AzureVerdict(o, time) = "keep"
    BY DEF Ob!AzureVerdict
  <2>. QED BY <1>1, <1>4, <2>1, <2>2
<1>8. CASE kind = "local"
  <2>1. Ob!Verdict(o, time) = Ob!LocalVerdict(o, time)
    BY <1>8 DEF Ob!Verdict
  <2>2. /\ o.shape = "reservation" => Ob!LocalVerdict(o, time) = Ob!Due(o, time)
        /\ o.shape = "bytes" => Ob!LocalVerdict(o, time) = "raise"
        /\ o.shape \in {"foreign", "nullmeta", "text"} => Ob!LocalVerdict(o, time) = "keep"
    BY DEF Ob!LocalVerdict
  <2>. QED BY <1>1, <1>4, <2>1, <2>2
<1>. QED BY <1>2, <1>6, <1>7, <1>8

LEMMA IdleSweeps ==
  /\ SweepTypes(Ob!Idle) /\ Ob!Idle.pc = "idle" /\ Ob!Idle.time = 0 /\ Ob!Idle.doomed = {}
  /\ \A attempt \in 1..ObjectAttempts, time \in Nat :
       LET s == [Ob!Idle EXCEPT !.pc = "list", !.time = time, !.attempt = attempt] IN
       SweepTypes(s) /\ s.pc = "list" /\ s.time = time /\ s.doomed = {} /\ s.token = Ob!Start
  /\ \A time \in Nat :
       LET s == [Ob!Idle EXCEPT !.pc = "list", !.time = time] IN
       SweepTypes(s) /\ s.pc = "list" /\ s.time = time /\ s.doomed = {} /\ s.token = Ob!Start
<1>. DEFINE Sweeps == [pc : {"idle", "list", "get", "delete", "batch", "ended"}, time : Nat,
                       token : Int \cup {Ob!Start}, page : SUBSET Ob!Keys, doomed : SUBSET Ob!Keys,
                       attempt : 1..ObjectAttempts, clean : BOOLEAN]
<1>1. Ob!Start \in Int \cup {Ob!Start} /\ 1 \in 1..ObjectAttempts
  BY ObjectTypes
<1>2. /\ Ob!Idle \in Sweeps /\ Ob!Idle.pc = "idle" /\ Ob!Idle.time = 0 /\ Ob!Idle.doomed = {}
      /\ Ob!Idle.page = {} /\ Ob!Idle.token = Ob!Start
  BY <1>1 DEF Ob!Idle
<1>3. SweepTypes(Ob!Idle)
  BY <1>2 DEF SweepTypes
<1>4. ASSUME NEW attempt \in 1..ObjectAttempts, NEW time \in Nat
      PROVE  LET s == [Ob!Idle EXCEPT !.pc = "list", !.time = time, !.attempt = attempt] IN
             SweepTypes(s) /\ s.pc = "list" /\ s.time = time /\ s.doomed = {} /\ s.token = Ob!Start
  BY <1>2 DEF SweepTypes
<1>5. ASSUME NEW time \in Nat
      PROVE  LET s == [Ob!Idle EXCEPT !.pc = "list", !.time = time] IN
             SweepTypes(s) /\ s.pc = "list" /\ s.time = time /\ s.doomed = {} /\ s.token = Ob!Start
  BY <1>2 DEF SweepTypes
<1>. QED BY <1>2, <1>3, <1>4, <1>5

LEMMA StartIsFirst == \A k \in Ob!Keys : k > Ob!Start
<1>. SUFFICES ASSUME NEW k \in Ob!Keys PROVE k > Ob!Start
  OBVIOUS
<1>1. Ob!First(Ob!Keys) \in Ob!Keys /\ Ob!First(Ob!Keys) <= k
  BY FirstIsLeast
<1>2. Ob!First(Ob!Keys) \in Int /\ k \in Int
  BY <1>1, KeysAreFinite
<1>3. Ob!Start = Ob!First(Ob!Keys) - 1
  BY DEF Ob!Start
<1>. QED BY <1>1, <1>2, <1>3

LEMMA ObjectsBegin == Ob!Init => ObjectsInv
<1>. SUFFICES ASSUME Ob!Init PROVE ObjectsInv
  OBVIOUS
<1>1. /\ kind \in Kinds /\ now = 0 /\ failures = 0 /\ leases \in [ObjectIds -> 1..MaxLifetime]
      /\ writer = [pc |-> "writing", todo |-> ObjectIds, attempt |-> 1] /\ sweep = Ob!Idle
  BY DEF Ob!Init
<1>2. PICK stray \in [Strays -> [shape : Shapes, expiration : (-MaxLifetime)..MaxLifetime,
                                 modified : {-MaxLifetime, 0}]] :
        /\ \A k \in Strays : stray[k].expiration <= stray[k].modified + MaxLifetime
        /\ objects = [k \in Ob!Keys |-> IF k \in Strays THEN stray[k] ELSE Ob!NoObject]
  BY DEF Ob!Init
<1>3. ASSUME NEW k \in Ob!Keys PROVE GoodObject(k, objects[k])
  <2>1. CASE k \in Strays
    <3>1. objects[k] = stray[k] /\ stray[k] \in [shape : Shapes, expiration : (-MaxLifetime)..MaxLifetime,
                                                 modified : {-MaxLifetime, 0}]
      BY <1>2, <2>1
    <3>2. objects[k] \in ObjectRecords /\ objects[k].shape \in Shapes
      BY <3>1, ObjectTypes DEF ObjectRecords
    <3>3. objects[k].shape # "none"
      BY <3>2, ObjectTypes
    <3>. QED BY <1>2, <2>1, <3>1, <3>2, <3>3, ObjectTypes DEF GoodObject
  <2>2. CASE k \notin Strays
    <3>1. objects[k] = Ob!NoObject /\ Ob!NoObject \in ObjectRecords
      BY <1>2, <2>2 DEF Ob!NoObject, ObjectRecords
    <3>. QED BY <2>2, <3>1 DEF GoodObject
  <2>. QED BY <2>1, <2>2
<1>4. WriterInv
  BY <1>1, ObjectTypes DEF WriterInv
<1>5. SweepInv(sweep)
  <2>0. SweepTypes(Ob!Idle) /\ Ob!Idle.pc = "idle" /\ Ob!Idle.time = 0 /\ Ob!Idle.doomed = {}
    BY IdleSweeps
  <2>1. SweepTypes(sweep) /\ sweep.pc = "idle" /\ sweep.time <= now /\ sweep.doomed = {}
    BY <1>1, <2>0
  <2>. QED BY <2>1 DEF SweepInv, SweepDooms, SweepSees
<1>. QED BY <1>1, <1>2, <1>3, <1>4, <1>5, ObjectTypes DEF ObjectsInv

\* No object is deleted under a lease by a step that deletes none.
LEMMA NoneDeleted == ASSUME UNCHANGED objects PROVE Ob!LeasedStay
BY DEF Ob!LeasedStay

\* What a step leaves as it was.
LEMMA ObjectsKept ==
  ASSUME ObjectsInv, UNCHANGED <<kind, objects, leases>>, now' \in Int, now <= now'
  PROVE  /\ kind' \in Kinds /\ leases' \in [ObjectIds -> 1..MaxLifetime]
         /\ objects' = [k \in Ob!Keys |-> objects'[k]] /\ \A k \in Ob!Keys : GoodObject(k, objects[k])'
         /\ writer' = writer => WriterInv'
         /\ sweep' = sweep => SweepInv(sweep)'
<1>1. \A k : Lease(k)' = Lease(k)
  BY DEF Lease
<1>2. ASSUME NEW k \in Ob!Keys PROVE GoodObject(k, objects[k])'
  BY <1>1 DEF ObjectsInv, GoodObject
<1>3. ASSUME writer' = writer PROVE WriterInv'
  <2>1. \A i \in ObjectIds : leases[i] \in Int /\ Ob!KeyWritten(i)' = Ob!KeyWritten(i)
    BY DEF ObjectsInv, Ob!KeyWritten
  <2>2. now \in Int
    BY DEF ObjectsInv
  <2>. QED BY <1>3, <2>1, <2>2 DEF ObjectsInv, WriterInv
<1>4. ASSUME sweep' = sweep PROVE SweepInv(sweep)'
  <2>1. SweepTypes(sweep) /\ sweep.time <= now /\ SweepDooms(sweep) /\ SweepSees(sweep)
    BY DEF ObjectsInv, SweepInv
  <2>2. SweepTypes(sweep)'
    BY <1>4, <2>1 DEF SweepTypes
  <2>3. (sweep.time <= now)'
    BY <1>4, <2>1 DEF ObjectsInv, SweepTypes
  <2>4. SweepDooms(sweep)'
    BY <1>1, <1>4, <2>1 DEF SweepDooms, Condemned
  <2>5. \A k : Stuck(k, sweep.time)' <=> Stuck(k, sweep.time)
    BY <1>4 DEF Stuck, Ob!Verdict
  <2>6. SweepSees(sweep)'
    BY <1>4, <2>1, <2>5 DEF SweepSees, Ahead, Behind
  <2>. QED BY <2>2, <2>3, <2>4, <2>6 DEF SweepInv
<1>. QED BY <1>2, <1>3, <1>4 DEF ObjectsInv

\* A reservation is stored.
LEMMA StoredKeeps ==
  ASSUME ObjectsInv, NEW i \in ObjectIds, UNCHANGED <<kind, now, leases, sweep>>,
         objects' = [objects EXCEPT ![Ob!KeyWritten(i)] = Ob!Stored(i)]
  PROVE  /\ objects' = [k \in Ob!Keys |-> objects'[k]] /\ \A k \in Ob!Keys : GoodObject(k, objects[k])'
         /\ SweepInv(sweep)' /\ Ob!LeasedStay
         /\ \A j \in ObjectIds : objects'[Ob!KeyWritten(j)] = Ob!NoObject =>
              j # i /\ objects[Ob!KeyWritten(j)] = Ob!NoObject
<1>. DEFINE key == Ob!KeyWritten(i)
            new == Ob!Stored(i)
<1>1. /\ key \in Ob!Keys /\ key \notin Strays /\ Lease(key) = leases[i]
      /\ \A j \in ObjectIds : Ob!KeyWritten(j) = key => j = i
      /\ kind = "azure" => key \notin ObjectIds
      /\ \A j \in ObjectIds : Ob!KeyWritten(j) \in Ob!Keys
  BY KeysWritten
<1>2. /\ new \in ObjectRecords /\ new.shape = "reservation" /\ new.expiration = leases[i]
      /\ new.modified = now /\ new # Ob!NoObject
  <2>1. leases[i] \in Int /\ now \in Int
    BY DEF ObjectsInv
  <2>2. new = [shape |-> "reservation", expiration |-> leases[i], modified |-> now]
    BY DEF Ob!Stored
  <2>3. Ob!NoObject.shape = "none"
    BY DEF Ob!NoObject
  <2>. HIDE DEF new
  <2>4. /\ new \in ObjectRecords /\ new.shape = "reservation" /\ new.expiration = leases[i]
        /\ new.modified = now
    BY <2>1, <2>2 DEF ObjectRecords
  <2>. QED BY <2>3, <2>4
<1>. HIDE DEF key, new
<1>3. /\ objects' = [k \in Ob!Keys |-> objects'[k]] /\ objects'[key] = new
      /\ \A k \in Ob!Keys : k # key => objects'[k] = objects[k]
  BY <1>1 DEF ObjectsInv, key, new
<1>4. \A k : Lease(k)' = Lease(k)
  BY DEF Lease
<1>5. GoodObject(key, new)
  BY <1>1, <1>2 DEF GoodObject
<1>6. ASSUME NEW k \in Ob!Keys PROVE GoodObject(k, objects[k])'
  <2>1. GoodObject(k, objects'[k])
    BY <1>3, <1>5 DEF ObjectsInv
  <2>. QED BY <1>4, <2>1 DEF GoodObject
<1>7. SweepTypes(sweep) /\ sweep.time <= now /\ SweepDooms(sweep) /\ SweepSees(sweep)
  BY DEF ObjectsInv, SweepInv
<1>8. sweep.time \in Int /\ now \in Int /\ sweep.doomed \subseteq Ob!Keys /\ sweep.page \subseteq Ob!Keys
  BY <1>7 DEF SweepTypes, ObjectsInv
<1>9. \A k \in Ob!Keys : Condemned(k, sweep.time) => Condemned(k, sweep.time)'
  BY <1>1, <1>3, <1>4 DEF Condemned
<1>10. SweepDooms(sweep)'
  <2>1. sweep.pc = "delete" => Ob!First(sweep.page) \in Ob!Keys
    BY <1>7, <1>8, FirstIsLeast DEF SweepTypes
  <2>2. \A k \in sweep.doomed : Condemned(k, sweep.time)'
    BY <1>7, <1>8, <1>9 DEF SweepDooms
  <2>3. sweep.pc = "delete" => Condemned(Ob!First(sweep.page), sweep.time)'
    BY <1>7, <1>9, <2>1 DEF SweepDooms
  <2>4. SweepDooms(sweep)' <=> /\ \A k \in sweep.doomed : Condemned(k, sweep.time)'
                               /\ sweep.pc = "delete" => Condemned(Ob!First(sweep.page), sweep.time)'
    BY DEF SweepDooms
  <2>. QED BY <2>2, <2>3, <2>4
<1>11. \A k \in Ob!Keys : Behind(objects'[k], sweep) => Behind(objects[k], sweep)
  <2>1. ~Behind(new, sweep)
    BY <1>2, <1>7, <1>8 DEF Behind
  <2>. QED BY <1>3, <2>1
<1>12. \A n : Stuck(n, sweep.time) => Stuck(n, sweep.time)'
  <2>. SUFFICES ASSUME NEW n, NEW k \in Ob!Keys, objects[k] # Ob!NoObject,
                       Ob!Verdict(objects[k], sweep.time) = "raise", k < n \/ kind = "azure"
                PROVE  Stuck(n, sweep.time)'
    BY DEF Stuck
  <2>1. sweep.time \in Nat /\ GoodObject(k, objects[k]) /\ kind \in Kinds
    BY <1>7 DEF SweepTypes, ObjectsInv
  <2>2. objects[k].shape # "reservation"
    BY <2>1, Verdicts
  <2>3. k # key
    BY <1>1, <2>1, <2>2 DEF GoodObject
  <2>4. objects'[k] = objects[k] /\ Ob!Verdict(objects[k], sweep.time)' = Ob!Verdict(objects'[k], sweep.time)
    BY <1>3, <2>3 DEF Ob!Verdict
  <2>5. objects'[k] # Ob!NoObject /\ Ob!Verdict(objects[k], sweep.time)' = "raise"
    BY <2>4
  <2>. QED BY <2>5 DEF Stuck
<1>13. SweepSees(sweep)'
  <2>1. Ahead(sweep)' = Ahead(sweep)
    BY DEF Ahead
  <2>2. SweepSees(sweep)' <=>
          /\ sweep.clean /\ sweep.pc \in {"list", "get", "delete", "batch"} =>
               \A k \in Ob!Keys : Behind(objects'[k], sweep) => k \in Ahead(sweep)
          /\ sweep.clean /\ sweep.pc = "ended" =>
               \A k \in Ob!Keys : Behind(objects'[k], sweep) => Stuck(k, sweep.time)'
    BY <2>1 DEF SweepSees, Behind
  <2>. QED BY <1>7, <1>11, <1>12, <2>2 DEF SweepSees
<1>14. SweepInv(sweep)'
  BY <1>7, <1>10, <1>13 DEF SweepInv, SweepTypes
<1>15. Ob!LeasedStay
  BY <1>2, <1>3 DEF Ob!LeasedStay
<1>16. \A j \in ObjectIds : objects'[Ob!KeyWritten(j)] = Ob!NoObject =>
         j # i /\ objects[Ob!KeyWritten(j)] = Ob!NoObject
  BY <1>1, <1>2, <1>3 DEF key
<1>. QED BY <1>3, <1>6, <1>14, <1>15, <1>16

\* Objects whose leases have expired are deleted.
LEMMA DeletedKeeps ==
  ASSUME ObjectsInv, NEW gone \in SUBSET Ob!Keys, UNCHANGED <<kind, now, leases, writer>>,
         \A k \in gone : objects[k] # Ob!NoObject => now > objects[k].expiration,
         objects' = [k \in Ob!Keys |-> IF k \in gone THEN Ob!NoObject ELSE objects[k]]
  PROVE  /\ objects' = [k \in Ob!Keys |-> objects'[k]] /\ \A k \in Ob!Keys : GoodObject(k, objects[k])'
         /\ WriterInv' /\ Ob!LeasedStay
         /\ \A k \in Ob!Keys : objects'[k] = Ob!NoObject \/ objects'[k] = objects[k]
         /\ \A k \in Ob!Keys : \A time : Condemned(k, time) => Condemned(k, time)'
         /\ \A k \in Ob!Keys : \A s : Behind(objects'[k], s) => k \notin gone /\ Behind(objects[k], s)
<1>1. /\ objects' = [k \in Ob!Keys |-> objects'[k]]
      /\ \A k \in Ob!Keys : objects'[k] = IF k \in gone THEN Ob!NoObject ELSE objects[k]
  OBVIOUS
<1>2. \A k : Lease(k)' = Lease(k)
  BY DEF Lease
<1>3. Ob!NoObject \in ObjectRecords /\ Ob!NoObject.shape = "none"
  BY DEF Ob!NoObject, ObjectRecords
<1>4. ASSUME NEW k \in Ob!Keys PROVE GoodObject(k, objects[k])'
  <2>1. GoodObject(k, Ob!NoObject)
    BY <1>3 DEF GoodObject
  <2>2. GoodObject(k, objects'[k])
    BY <1>1, <2>1 DEF ObjectsInv
  <2>. QED BY <1>2, <2>2 DEF GoodObject
<1>5. WriterInv'
  <2>1. WriterInv
    BY DEF ObjectsInv
  <2>2. ASSUME NEW i \in ObjectIds, objects'[Ob!KeyWritten(i)] = Ob!NoObject
        PROVE  objects[Ob!KeyWritten(i)] = Ob!NoObject \/ now > leases[i]
    <3>1. /\ Ob!KeyWritten(i) \in Ob!Keys /\ Ob!KeyWritten(i) \notin Strays
          /\ Lease(Ob!KeyWritten(i)) = leases[i]
      BY KeysWritten
    <3>2. CASE Ob!KeyWritten(i) \in gone /\ objects[Ob!KeyWritten(i)] # Ob!NoObject
      <4>1. now > objects[Ob!KeyWritten(i)].expiration
        BY <3>2
      <4>2. GoodObject(Ob!KeyWritten(i), objects[Ob!KeyWritten(i)])
        BY <3>1 DEF ObjectsInv
      <4>. QED BY <3>1, <3>2, <4>1, <4>2 DEF GoodObject
    <3>. QED BY <1>1, <2>2, <3>1, <3>2
  <2>3. \A i \in ObjectIds : Ob!KeyWritten(i)' = Ob!KeyWritten(i)
    BY DEF Ob!KeyWritten
  <2>. QED BY <2>1, <2>2, <2>3 DEF WriterInv
<1>6. Ob!LeasedStay
  BY <1>1 DEF Ob!LeasedStay
<1>7. \A k \in Ob!Keys : \A time : Condemned(k, time) => Condemned(k, time)'
  BY <1>1, <1>2 DEF Condemned
<1>8. \A k \in Ob!Keys : \A s : Behind(objects'[k], s) => k \notin gone /\ Behind(objects[k], s)
  BY <1>1, <1>3 DEF Behind
<1>. QED BY <1>1, <1>4, <1>5, <1>6, <1>7, <1>8

\* The pass goes on to the next object of the page, or to the next page.
LEMMA OnwardKeeps ==
  ASSUME NEW s, SweepTypes(s), s.pc \in {"get", "delete"}
  PROVE  LET t == Ob!Onward(s) IN
         /\ SweepTypes(t) /\ t.time = s.time /\ t.doomed = s.doomed /\ t.clean = s.clean
         /\ t.pc \in {"list", "get"} /\ t.token = s.token
         /\ \A k \in Ahead(s) : k = Ob!First(s.page) \/ k \in Ahead(t)
<1>. DEFINE page == s.page \ {Ob!First(s.page)}
            pc == IF page = {} THEN "list" ELSE "get"
            t == [s EXCEPT !.page = page, !.pc = pc]
<1>1. Ob!Onward(s) = t
  BY DEF Ob!Onward
<1>2. /\ page \subseteq Ob!Keys /\ pc \in {"list", "get"} /\ (pc = "list" => page = {}) /\ (pc = "get" => page # {})
      /\ \A k \in page : k <= s.token
  BY DEF SweepTypes
<1>. HIDE DEF pc
<1>3. /\ SweepTypes(t) /\ t.time = s.time /\ t.doomed = s.doomed /\ t.clean = s.clean
      /\ t.pc = pc /\ t.token = s.token /\ t.page = page
  <2>. HIDE DEF page
  <2>. QED BY <1>2 DEF SweepTypes
<1>. HIDE DEF t
<1>4. \A k \in Ahead(s) : k = Ob!First(s.page) \/ k \in Ahead(t)
  BY <1>2, <1>3 DEF Ahead
<1>. QED BY <1>1, <1>2, <1>3, <1>4
-----------------------------------------------------------------------------
(* The steps of the base storages *)

\* Reading, listing and failing change no object.
LEMMA SweepGoesOn ==
  ASSUME ObjectsInv, UNCHANGED <<kind, now, objects, leases, writer>>, SweepInv(sweep'),
         failures' \in 0..MaxFailedCalls
  PROVE  ObjectsInv' /\ Ob!LeasedStay
<1>1. now' \in Int /\ now <= now' /\ now' \in 0..ObjectMaxTime
  BY DEF ObjectsInv
<1>2. /\ kind' \in Kinds /\ leases' \in [ObjectIds -> 1..MaxLifetime]
      /\ objects' = [k \in Ob!Keys |-> objects'[k]] /\ \A k \in Ob!Keys : GoodObject(k, objects[k])'
      /\ WriterInv'
  BY <1>1, ObjectsKept
<1>3. \A k : Lease(k)' = Lease(k)
  BY DEF Lease
<1>4. SweepTypes(sweep') /\ sweep'.time <= now /\ SweepDooms(sweep') /\ SweepSees(sweep')
  BY DEF SweepInv
<1>5. SweepTypes(sweep)'
  BY <1>4 DEF SweepTypes
<1>6. SweepDooms(sweep)'
  BY <1>3, <1>4 DEF SweepDooms, Condemned
<1>7. \A k : Stuck(k, sweep.time)' <=> Stuck(k, sweep'.time)
  BY DEF Stuck, Ob!Verdict
<1>8. SweepSees(sweep)'
  BY <1>4, <1>7 DEF SweepSees, Ahead, Behind
<1>9. SweepInv(sweep)'
  BY <1>4, <1>5, <1>6, <1>8 DEF SweepInv
<1>. QED BY <1>1, <1>2, <1>9, NoneDeleted DEF ObjectsInv

LEMMA CallFails == ASSUME ObjectsInv, Ob!Fails PROVE failures' \in 0..MaxFailedCalls
BY ObjectTypes DEF ObjectsInv, Ob!Fails

\* A pass that begins, or begins again, has everything ahead.
LEMMA FreshSweeps ==
  ASSUME NEW s, SweepTypes(s), s.pc \in {"idle", "list"}, s.time <= now, s.doomed = {},
         s.pc = "list" => s.token = Ob!Start
  PROVE  SweepInv(s)
<1>1. SweepDooms(s)
  BY DEF SweepDooms
<1>2. SweepSees(s)
  BY StartIsFirst DEF SweepSees, Ahead
<1>. QED BY <1>1, <1>2 DEF SweepInv

\* A pass that ended, or did not see everything.
LEMMA Interrupted ==
  ASSUME ObjectsInv, NEW s, SweepTypes(s), s.time = sweep.time, s.doomed = sweep.doomed, ~s.clean,
         s.pc # "delete"
  PROVE  SweepInv(s)
<1>1. SweepInv(sweep)
  BY DEF ObjectsInv
<1>. QED BY <1>1 DEF SweepInv, SweepDooms, SweepSees

\* A page is listed from where the last one ended.
LEMMA ListKeeps ==
  ASSUME ObjectsInv, sweep.pc = "list",
         sweep' = LET rest == {k \in Ob!Present : k > sweep.token} IN
                  IF rest # {}
                  THEN [sweep EXCEPT !.pc = "get", !.page = Ob!Page(rest), !.token = Ob!Last(Ob!Page(rest))]
                  ELSE [sweep EXCEPT !.pc = IF sweep.doomed = {} THEN "ended" ELSE "batch"]
  PROVE  SweepInv(sweep')
<1>. DEFINE rest == {k \in Ob!Present : k > sweep.token}
<1>1. SweepTypes(sweep) /\ sweep.time <= now /\ SweepDooms(sweep) /\ SweepSees(sweep) /\ sweep.page = {}
  BY DEF ObjectsInv, SweepInv, SweepTypes
<1>2. \A k \in Ob!Keys : Behind(objects[k], sweep) => objects[k] # Ob!NoObject
  BY DEF Behind, Ob!NoObject
<1>3. sweep.clean => \A k \in Ob!Keys : Behind(objects[k], sweep) =>
        (kind = "azure" /\ k \in sweep.doomed) \/ k \in rest
  BY <1>1, <1>2 DEF SweepSees, Ahead, Ob!Present
<1>4. CASE rest # {}
  <2>. DEFINE page == Ob!Page(rest)
              last == Ob!Last(page)
              s == [sweep EXCEPT !.pc = "get", !.page = page, !.token = last]
  <2>1. sweep' = s
    BY <1>4
  <2>2. /\ page \subseteq Ob!Keys /\ page # {} /\ last \in Int /\ \A k \in rest : k \in page \/ k > last
        /\ \A k \in page : k <= last
    <3>1. rest \subseteq Ob!Keys
      BY DEF Ob!Present
    <3>. HIDE DEF rest
    <3>. QED BY <1>4, <3>1, PagesAreFirst
  <2>. HIDE DEF last, page
  <2>3. /\ SweepTypes(s) /\ s.pc = "get" /\ s.page = page /\ s.token = last /\ s.time = sweep.time
        /\ s.doomed = sweep.doomed /\ s.clean = sweep.clean
    BY <1>1, <2>2 DEF SweepTypes
  <2>. HIDE DEF s, rest
  <2>4. SweepDooms(s)
    BY <1>1, <2>3 DEF SweepDooms
  <2>5. SweepSees(s)
    <3>1. \A k \in Ob!Keys : Behind(objects[k], s) => Behind(objects[k], sweep)
      BY <2>3 DEF Behind
    <3>2. s.clean => \A k \in Ob!Keys : Behind(objects[k], s) => k \in Ahead(s)
      BY <1>3, <2>2, <2>3, <3>1 DEF Ahead
    <3>. QED BY <2>3, <3>2 DEF SweepSees
  <2>. QED BY <1>1, <2>1, <2>3, <2>4, <2>5 DEF SweepInv
<1>5. CASE rest = {}
  <2>. DEFINE pc == IF sweep.doomed = {} THEN "ended" ELSE "batch"
              s == [sweep EXCEPT !.pc = pc]
  <2>1. sweep' = s
    BY <1>5
  <2>2. pc \in {"ended", "batch"} /\ (pc = "ended" => sweep.doomed = {})
    OBVIOUS
  <2>. HIDE DEF pc
  <2>3. /\ SweepTypes(s) /\ s.pc = pc /\ s.time = sweep.time
        /\ s.doomed = sweep.doomed /\ s.clean = sweep.clean
    BY <1>1, <2>2 DEF SweepTypes
  <2>4. sweep.clean => \A k \in Ob!Keys : Behind(objects[k], sweep) => kind = "azure" /\ k \in sweep.doomed
    BY <1>3, <1>5
  <2>. HIDE DEF s, rest
  <2>5. SweepDooms(s)
    BY <1>1, <2>2, <2>3 DEF SweepDooms
  <2>6. SweepSees(s)
    <3>1. \A k \in Ob!Keys : Behind(objects[k], s) => Behind(objects[k], sweep)
      BY <2>3 DEF Behind
    <3>. QED BY <2>2, <2>3, <2>4, <3>1 DEF SweepSees, Ahead
  <2>. QED BY <1>1, <2>1, <2>3, <2>5, <2>6 DEF SweepInv
<1>. QED BY <1>4, <1>5

\* The pass goes on: it saw nothing of the object, or that its lease lasts, or condemned it.
LEMMA OnwardSees ==
  ASSUME ObjectsInv, sweep.pc \in {"get", "delete"}, NEW D, D \subseteq Ob!Keys, sweep.doomed \subseteq D,
         \A k \in D : Condemned(k, sweep.time),
         ~Behind(objects[Ob!First(sweep.page)], sweep) \/ (kind = "azure" /\ Ob!First(sweep.page) \in D)
  PROVE  SweepInv([Ob!Onward(sweep) EXCEPT !.doomed = D])
<1>. DEFINE k1 == Ob!First(sweep.page)
            t == Ob!Onward(sweep)
            s == [t EXCEPT !.doomed = D]
<1>1. SweepTypes(sweep) /\ sweep.time <= now /\ SweepDooms(sweep) /\ SweepSees(sweep)
  BY DEF ObjectsInv, SweepInv
<1>2. /\ SweepTypes(t) /\ t.time = sweep.time /\ t.doomed = sweep.doomed /\ t.clean = sweep.clean
      /\ t.pc \in {"list", "get"}
      /\ \A k \in Ahead(sweep) : k = k1 \/ k \in Ahead(t)
  BY <1>1, OnwardKeeps
<1>. HIDE DEF t
<1>3. /\ SweepTypes(s) /\ s.time = sweep.time /\ s.doomed = D /\ s.clean = sweep.clean
      /\ s.pc \in {"list", "get"} /\ s.pc = t.pc /\ s.page = t.page /\ s.token = t.token
  BY <1>2 DEF SweepTypes
<1>. HIDE DEF s
<1>4. SweepDooms(s)
  BY <1>3 DEF SweepDooms
<1>5. SweepSees(s)
  <2>1. \A k \in Ahead(t) : k \in Ahead(s)
    BY <1>2, <1>3 DEF Ahead
  <2>2. \A k \in Ob!Keys : Behind(objects[k], s) => Behind(objects[k], sweep)
    BY <1>3 DEF Behind
  <2>3. kind = "azure" /\ k1 \in D => k1 \in Ahead(s)
    BY <1>3 DEF Ahead
  <2>4. s.clean => \A k \in Ob!Keys : Behind(objects[k], s) => k \in Ahead(s)
    BY <1>1, <1>2, <1>3, <2>1, <2>2, <2>3 DEF SweepSees
  <2>. QED BY <1>3, <2>4 DEF SweepSees
<1>. QED BY <1>1, <1>3, <1>4, <1>5 DEF SweepInv, s, t

LEMMA ExamineStep == ASSUME ObjectsInv, Ob!Examine PROVE ObjectsInv' /\ Ob!LeasedStay
<1>. DEFINE k == Ob!First(sweep.page)
            o == objects[k]
            verdict == Ob!Verdict(o, sweep.time)
<1>1. sweep.pc = "get" /\ UNCHANGED <<kind, now, objects, leases, writer, failures>>
  BY DEF Ob!Examine
<1>2. sweep' = CASE o = Ob!NoObject -> Ob!Onward(sweep)
                 [] verdict = "raise" -> [sweep EXCEPT !.pc = "ended"]
                 [] verdict = "delete" /\ kind = "azure" -> [Ob!Onward(sweep) EXCEPT !.doomed = @ \cup {k}]
                 [] verdict = "delete" /\ kind # "azure" -> [sweep EXCEPT !.pc = "delete"]
                 [] OTHER -> Ob!Onward(sweep)
  BY DEF Ob!Examine
<1>3. SweepTypes(sweep) /\ sweep.time <= now /\ SweepDooms(sweep) /\ SweepSees(sweep)
      /\ sweep.page # {} /\ sweep.page \subseteq Ob!Keys /\ sweep.doomed \subseteq Ob!Keys /\ sweep.time \in Nat
      /\ kind \in Kinds /\ failures \in 0..MaxFailedCalls
  BY <1>1 DEF ObjectsInv, SweepInv, SweepTypes
<1>4. k \in sweep.page /\ k \in Ob!Keys
  BY <1>3, FirstIsLeast
<1>5. GoodObject(k, o)
  BY <1>4 DEF ObjectsInv
<1>6. o # Ob!NoObject =>
        /\ verdict = "delete" => sweep.time > o.expiration
        /\ o.shape = "reservation" => verdict \in {"keep", "delete"}
        /\ o.shape = "reservation" /\ sweep.time > o.expiration => verdict = "delete"
  <2>. HIDE DEF k
  <2>. QED BY <1>3, <1>5, Verdicts
<1>7. LET t == Ob!Onward(sweep) IN SweepTypes(t) /\ t.doomed = sweep.doomed
  BY <1>1, <1>3, OnwardKeeps
<1>8. Ob!NoObject.shape = "none"
  BY DEF Ob!NoObject
<1>9. o # Ob!NoObject /\ verdict = "delete" => Condemned(k, sweep.time)
  BY <1>4, <1>5, <1>6 DEF Condemned, GoodObject
<1>. HIDE DEF verdict, k
<1>10. CASE sweep' = Ob!Onward(sweep) /\ (o = Ob!NoObject \/ verdict # "delete")
  <2>1. ~Behind(o, sweep)
    BY <1>6, <1>8, <1>10 DEF Behind
  <2>2. \A d \in sweep.doomed : Condemned(d, sweep.time)
    BY <1>3 DEF SweepDooms
  <2>3. SweepInv([Ob!Onward(sweep) EXCEPT !.doomed = sweep.doomed])
    BY <1>1, <1>3, <2>1, <2>2, OnwardSees DEF k
  <2>4. [Ob!Onward(sweep) EXCEPT !.doomed = sweep.doomed] = Ob!Onward(sweep)
    BY <1>7 DEF SweepTypes
  <2>5. SweepInv(sweep')
    BY <1>10, <2>3, <2>4
  <2>. QED BY <1>1, <1>3, <2>5, SweepGoesOn
<1>11. CASE sweep' = [sweep EXCEPT !.pc = "ended"] /\ o # Ob!NoObject /\ verdict = "raise"
  <2>. DEFINE s == [sweep EXCEPT !.pc = "ended"]
  <2>1. /\ SweepTypes(s) /\ s.pc = "ended" /\ s.time = sweep.time /\ s.doomed = sweep.doomed
        /\ s.clean = sweep.clean
    BY <1>3 DEF SweepTypes
  <2>. HIDE DEF s
  <2>2. ASSUME sweep.clean, NEW j \in Ob!Keys, Behind(objects[j], sweep) PROVE Stuck(j, sweep.time)
    <3>1. j \in Ahead(sweep)
      BY <1>1, <1>3, <2>2 DEF SweepSees
    <3>2. j # k
      BY <1>6, <1>11, <2>2 DEF Behind
    <3>3. k <= sweep.token /\ \A n \in sweep.page : k <= n
      BY <1>3, <1>4, FirstIsLeast DEF SweepTypes, k
    <3>4. j \in Int /\ k \in Int /\ sweep.token \in Int
      <4>1. Ob!First(Ob!Keys) \in Int
        BY <1>4, KeysAreFinite, FirstIsLeast
      <4>. QED BY <1>3, <1>4, <4>1, KeysAreFinite DEF SweepTypes, Ob!Start
    <3>5. kind = "azure" \/ j \in sweep.page \/ j > sweep.token
      BY <1>1, <3>1 DEF Ahead
    <3>6. kind = "azure" \/ k < j
      BY <3>2, <3>3, <3>4, <3>5
    <3>. QED BY <1>4, <1>11, <3>6 DEF Stuck, verdict
  <2>4. \A j \in Ob!Keys : Behind(objects[j], s) => Behind(objects[j], sweep)
    BY <2>1 DEF Behind
  <2>5. SweepSees(s)
    BY <2>1, <2>2, <2>4 DEF SweepSees
  <2>3. SweepInv(s)
    BY <1>3, <2>1, <2>5 DEF SweepInv, SweepDooms
  <2>. QED BY <1>1, <1>3, <1>11, <2>3, SweepGoesOn DEF s
<1>12. CASE /\ sweep' = [Ob!Onward(sweep) EXCEPT !.doomed = @ \cup {k}]
            /\ o # Ob!NoObject /\ verdict = "delete" /\ kind = "azure"
  <2>. DEFINE D == sweep.doomed \cup {k}
  <2>1. \A d \in D : Condemned(d, sweep.time)
    BY <1>3, <1>9, <1>12 DEF SweepDooms
  <2>2. D \subseteq Ob!Keys /\ sweep.doomed \subseteq D /\ k \in D
    BY <1>3, <1>4
  <2>3. sweep' = [Ob!Onward(sweep) EXCEPT !.doomed = D]
    BY <1>7, <1>12
  <2>. HIDE DEF D
  <2>4. SweepInv([Ob!Onward(sweep) EXCEPT !.doomed = D])
    BY <1>1, <1>12, <2>1, <2>2, OnwardSees DEF k
  <2>. QED BY <1>1, <1>3, <2>3, <2>4, SweepGoesOn
<1>13. CASE sweep' = [sweep EXCEPT !.pc = "delete"] /\ o # Ob!NoObject /\ verdict = "delete"
  <2>. DEFINE s == [sweep EXCEPT !.pc = "delete"]
  <2>1. /\ SweepTypes(s) /\ s.pc = "delete" /\ s.time = sweep.time /\ s.doomed = sweep.doomed
        /\ s.page = sweep.page /\ s.token = sweep.token /\ s.clean = sweep.clean
    BY <1>3 DEF SweepTypes
  <2>. HIDE DEF s
  <2>2. SweepDooms(s)
    BY <1>3, <1>9, <1>13, <2>1 DEF SweepDooms, k
  <2>3. \A j \in Ob!Keys : Behind(objects[j], s) => Behind(objects[j], sweep)
    BY <2>1 DEF Behind
  <2>4. Ahead(s) = Ahead(sweep)
    BY <1>1, <2>1 DEF Ahead
  <2>5. SweepSees(s)
    BY <1>1, <1>3, <2>1, <2>3, <2>4 DEF SweepSees
  <2>6. SweepInv(s)
    BY <1>3, <2>1, <2>2, <2>5 DEF SweepInv
  <2>. QED BY <1>1, <1>3, <1>13, <2>6, SweepGoesOn DEF s
<1>15. o = Ob!NoObject => verdict \notin {"raise", "delete"}
  BY <1>3, <1>8, ObjectTypes DEF verdict, Ob!Verdict, Ob!S3Verdict, Ob!AzureVerdict, Ob!LocalVerdict
<1>14. \/ sweep' = Ob!Onward(sweep) /\ (o = Ob!NoObject \/ verdict # "delete")
       \/ sweep' = [sweep EXCEPT !.pc = "ended"] /\ o # Ob!NoObject /\ verdict = "raise"
       \/ /\ sweep' = [Ob!Onward(sweep) EXCEPT !.doomed = @ \cup {k}]
          /\ o # Ob!NoObject /\ verdict = "delete" /\ kind = "azure"
       \/ sweep' = [sweep EXCEPT !.pc = "delete"] /\ o # Ob!NoObject /\ verdict = "delete"
  <2>. HIDE DEF o
  <2>. QED BY <1>2, <1>15
<1>. QED BY <1>10, <1>11, <1>12, <1>13, <1>14

LEMMA DeleteOneStep == ASSUME ObjectsInv, Ob!DeleteOne PROVE ObjectsInv' /\ Ob!LeasedStay
<1>. DEFINE k1 == Ob!First(sweep.page)
<1>1. /\ sweep.pc = "delete" /\ sweep' = Ob!Onward(sweep) /\ UNCHANGED <<kind, now, leases, writer, failures>>
      /\ objects' = [objects EXCEPT ![k1] = Ob!NoObject]
  BY DEF Ob!DeleteOne
<1>2. SweepTypes(sweep) /\ sweep.time <= now /\ SweepDooms(sweep) /\ SweepSees(sweep)
      /\ sweep.page # {} /\ sweep.page \subseteq Ob!Keys /\ sweep.doomed \subseteq Ob!Keys /\ sweep.time \in Nat
      /\ now \in Int
  BY <1>1 DEF ObjectsInv, SweepInv, SweepTypes
<1>3. k1 \in sweep.page /\ k1 \in Ob!Keys
  BY <1>2, FirstIsLeast
<1>4. objects = [k \in Ob!Keys |-> objects[k]] /\ GoodObject(k1, objects[k1])
  BY <1>3 DEF ObjectsInv
<1>5. objects' = [k \in Ob!Keys |-> IF k \in {k1} THEN Ob!NoObject ELSE objects[k]]
  BY <1>1, <1>3, <1>4
<1>6. objects[k1] # Ob!NoObject => now > objects[k1].expiration
  <2>1. Condemned(k1, sweep.time)
    BY <1>1, <1>2 DEF SweepDooms
  <2>. HIDE DEF k1
  <2>2. objects[k1] # Ob!NoObject => sweep.time > objects[k1].expiration /\ objects[k1].expiration \in Int
    BY <1>4, <2>1 DEF Condemned, GoodObject, ObjectRecords
  <2>. QED BY <1>2, <2>2
<1>. HIDE DEF k1
<1>7. /\ objects' = [k \in Ob!Keys |-> objects'[k]] /\ \A k \in Ob!Keys : GoodObject(k, objects[k])'
      /\ WriterInv' /\ Ob!LeasedStay
      /\ \A k \in Ob!Keys : \A time : Condemned(k, time) => Condemned(k, time)'
      /\ \A k \in Ob!Keys : \A s : Behind(objects'[k], s) => k \notin {k1} /\ Behind(objects[k], s)
  BY <1>1, <1>3, <1>5, <1>6, DeletedKeeps
<1>8. LET t == Ob!Onward(sweep) IN
      /\ SweepTypes(t) /\ t.time = sweep.time /\ t.doomed = sweep.doomed /\ t.clean = sweep.clean
      /\ t.pc \in {"list", "get"}
      /\ \A k \in Ahead(sweep) : k = k1 \/ k \in Ahead(t)
  BY <1>1, <1>2, OnwardKeeps DEF k1
<1>9. /\ SweepTypes(sweep') /\ sweep'.time = sweep.time /\ sweep'.doomed = sweep.doomed
      /\ sweep'.clean = sweep.clean /\ sweep'.pc \in {"list", "get"}
      /\ \A k \in Ahead(sweep) : k = k1 \/ k \in Ahead(sweep')
  BY <1>1, <1>8
<1>10. SweepTypes(sweep)' /\ sweep'.time <= now'
  BY <1>1, <1>2, <1>9 DEF SweepTypes
<1>11. SweepDooms(sweep)'
  <2>1. ASSUME NEW time, time = sweep.time PROVE \A k \in sweep.doomed : Condemned(k, time)'
    BY <1>2, <1>7, <2>1 DEF SweepDooms
  <2>2. \A time : time = sweep'.time => \A k : Condemned(k, time)' <=> Condemned(k, sweep.time)'
    BY DEF Condemned
  <2>3. \A k \in sweep'.doomed : Condemned(k, sweep.time)'
    BY <1>9, <2>1, <2>2
  <2>. QED BY <1>9, <2>3 DEF SweepDooms
<1>12. SweepSees(sweep)'
  <2>1. sweep.clean => \A k \in Ob!Keys : Behind(objects'[k], sweep) => k \in Ahead(sweep')
    BY <1>1, <1>2, <1>7, <1>9 DEF SweepSees
  <2>2. \A k \in Ob!Keys : Behind(objects'[k], sweep') => Behind(objects'[k], sweep)
    BY <1>9 DEF Behind
  <2>3. Ahead(sweep)' = Ahead(sweep')
    BY <1>1 DEF Ahead
  <2>4. SweepSees(sweep)' <=>
          /\ sweep'.clean /\ sweep'.pc \in {"list", "get", "delete", "batch"} =>
               \A k \in Ob!Keys : Behind(objects'[k], sweep') => k \in Ahead(sweep')
          /\ sweep'.clean /\ sweep'.pc = "ended" =>
               \A k \in Ob!Keys : Behind(objects'[k], sweep') => Stuck(k, sweep.time)'
    BY <2>3 DEF SweepSees, Behind
  <2>. QED BY <1>9, <2>1, <2>2, <2>4
<1>13. SweepInv(sweep)'
  BY <1>10, <1>11, <1>12 DEF SweepInv
<1>. QED BY <1>1, <1>7, <1>13 DEF ObjectsInv

LEMMA DeleteBatchStep == ASSUME ObjectsInv, Ob!DeleteBatch PROVE ObjectsInv' /\ Ob!LeasedStay
<1>1. sweep.pc = "batch" /\ UNCHANGED <<kind, now, leases, writer>>
  BY DEF Ob!DeleteBatch
<1>2. PICK gone \in SUBSET sweep.doomed :
        /\ IF gone = sweep.doomed THEN UNCHANGED failures ELSE Ob!Fails
        /\ objects' = [k \in Ob!Keys |-> IF k \in gone THEN Ob!NoObject ELSE objects[k]]
        /\ sweep' = [sweep EXCEPT !.pc = "ended", !.clean = @ /\ gone = sweep.doomed]
  BY DEF Ob!DeleteBatch
<1>3. SweepTypes(sweep) /\ sweep.time <= now /\ SweepDooms(sweep) /\ SweepSees(sweep)
      /\ sweep.doomed \subseteq Ob!Keys /\ sweep.time \in Nat /\ now \in Int /\ sweep.clean \in BOOLEAN
  BY <1>1 DEF ObjectsInv, SweepInv, SweepTypes
<1>4. failures' \in 0..MaxFailedCalls
  BY <1>2, CallFails DEF ObjectsInv
<1>5. gone \in SUBSET Ob!Keys
  BY <1>3
<1>6. ASSUME NEW k \in gone, objects[k] # Ob!NoObject PROVE now > objects[k].expiration
  <2>1. Condemned(k, sweep.time) /\ GoodObject(k, objects[k])
    BY <1>3, <1>5 DEF SweepDooms, ObjectsInv
  <2>2. sweep.time > objects[k].expiration /\ objects[k].expiration \in Int
    BY <1>6, <2>1 DEF Condemned, GoodObject, ObjectRecords
  <2>. QED BY <1>3, <2>2
<1>7. /\ objects' = [k \in Ob!Keys |-> objects'[k]] /\ \A k \in Ob!Keys : GoodObject(k, objects[k])'
      /\ WriterInv' /\ Ob!LeasedStay
      /\ \A k \in Ob!Keys : \A time : Condemned(k, time) => Condemned(k, time)'
      /\ \A k \in Ob!Keys : \A s : Behind(objects'[k], s) => k \notin gone /\ Behind(objects[k], s)
  BY <1>1, <1>2, <1>5, <1>6, DeletedKeeps
<1>. DEFINE clean == sweep.clean /\ gone = sweep.doomed
            s == [sweep EXCEPT !.pc = "ended", !.clean = clean]
<1>8. sweep' = s
  BY <1>2
<1>9. clean \in BOOLEAN /\ (clean => sweep.clean /\ gone = sweep.doomed)
  OBVIOUS
<1>. HIDE DEF clean
<1>10. SweepTypes(s) /\ s.pc = "ended" /\ s.time = sweep.time /\ s.doomed = sweep.doomed /\ s.clean = clean
  BY <1>3, <1>9 DEF SweepTypes
<1>. HIDE DEF s
<1>11. SweepTypes(sweep)' /\ sweep'.time <= now'
  BY <1>1, <1>3, <1>8, <1>10 DEF SweepTypes
<1>12. SweepDooms(sweep)'
  <2>1. ASSUME NEW time, time = sweep.time PROVE \A k \in sweep.doomed : Condemned(k, time)'
    BY <1>3, <1>7, <2>1 DEF SweepDooms
  <2>2. \A time : time = sweep'.time => \A k : Condemned(k, time)' <=> Condemned(k, sweep.time)'
    BY DEF Condemned
  <2>3. \A k \in sweep'.doomed : Condemned(k, sweep.time)'
    BY <1>8, <1>10, <2>1, <2>2
  <2>. QED BY <1>8, <1>10, <2>3 DEF SweepDooms
<1>13. SweepSees(sweep)'
  <2>1. clean => \A k \in Ob!Keys : ~Behind(objects'[k], sweep)
    BY <1>1, <1>3, <1>7, <1>9 DEF SweepSees, Ahead
  <2>2. \A k \in Ob!Keys : Behind(objects'[k], sweep') => Behind(objects'[k], sweep)
    BY <1>8, <1>10 DEF Behind
  <2>. QED BY <1>8, <1>10, <2>1, <2>2 DEF SweepSees, Behind
<1>14. SweepInv(sweep)'
  BY <1>11, <1>12, <1>13 DEF SweepInv
<1>. QED BY <1>1, <1>4, <1>7, <1>14 DEF ObjectsInv

\* A reservation is stored: the writer has one less to write.
LEMMA WriteKeeps ==
  ASSUME ObjectsInv, NEW i \in ObjectIds, UNCHANGED <<kind, now, leases, sweep, failures>>,
         objects' = [objects EXCEPT ![Ob!KeyWritten(i)] = Ob!Stored(i)],
         NEW pc \in {"writing", "returned", "raised"}, pc = "returned" => writer.todo \subseteq {i},
         pc = "raised" \/ writer.pc = "writing",
         writer' = [writer EXCEPT !.todo = writer.todo \ {i}, !.pc = pc]
  PROVE  ObjectsInv' /\ Ob!LeasedStay
<1>1. /\ objects' = [k \in Ob!Keys |-> objects'[k]] /\ \A k \in Ob!Keys : GoodObject(k, objects[k])'
      /\ SweepInv(sweep)' /\ Ob!LeasedStay
      /\ \A j \in ObjectIds : objects'[Ob!KeyWritten(j)] = Ob!NoObject =>
           j # i /\ objects[Ob!KeyWritten(j)] = Ob!NoObject
  BY StoredKeeps
<1>2. WriterInv
  BY DEF ObjectsInv
<1>3. /\ writer' \in [pc : {"writing", "returned", "raised"}, todo : SUBSET ObjectIds, attempt : 1..ObjectAttempts]
      /\ writer'.pc = pc /\ writer'.todo = writer.todo \ {i}
  BY <1>2 DEF WriterInv
<1>4. \A j \in ObjectIds : Ob!KeyWritten(j)' = Ob!KeyWritten(j)
  BY DEF Ob!KeyWritten
<1>5. ASSUME pc # "raised", NEW j \in ObjectIds, j \notin writer'.todo,
             objects'[Ob!KeyWritten(j)] = Ob!NoObject
      PROVE  now > leases[j]
  BY <1>1, <1>2, <1>3, <1>5 DEF WriterInv
<1>6. WriterInv'
  BY <1>3, <1>4, <1>5 DEF WriterInv
<1>. QED BY <1>1, <1>6 DEF ObjectsInv

\* Nothing is stored, the batch is written again or given up.
LEMMA WriterGoesOn ==
  ASSUME ObjectsInv, UNCHANGED <<kind, now, objects, leases, sweep>>, Ob!Fails,
         writer' \in [pc : {"writing", "returned", "raised"}, todo : SUBSET ObjectIds, attempt : 1..ObjectAttempts],
         writer'.pc = "raised" \/ (writer'.pc = "writing" /\ writer'.todo = ObjectIds)
  PROVE  ObjectsInv' /\ Ob!LeasedStay
<1>1. now' \in Int /\ now <= now'
  BY DEF ObjectsInv
<1>2. WriterInv'
  BY DEF WriterInv
<1>. QED BY <1>1, <1>2, CallFails, ObjectsKept, NoneDeleted DEF ObjectsInv

LEMMA WriterStep ==
  ASSUME ObjectsInv,
         \/ Ob!PutFails \/ Ob!WriteFails \/ Ob!PutRejected
         \/ \E i \in ObjectIds : Ob!PutOne(i) \/ Ob!WriteOne(i) \/ Ob!PutLate(i)
  PROVE  ObjectsInv' /\ Ob!LeasedStay
<1>. DEFINE Writers == [pc : {"writing", "returned", "raised"}, todo : SUBSET ObjectIds,
                        attempt : 1..ObjectAttempts]
<1>1. WriterInv /\ writer \in Writers
  BY DEF ObjectsInv, WriterInv
<1>2. CASE Ob!PutFails \/ Ob!WriteFails
  <2>1. UNCHANGED <<kind, now, objects, leases, sweep>> /\ Ob!Fails
    BY <1>2 DEF Ob!PutFails, Ob!WriteFails
  <2>2. writer' = [writer EXCEPT !.pc = "raised", !.todo = {}] \/ writer' = [writer EXCEPT !.pc = "raised"]
    BY <1>2 DEF Ob!PutFails, Ob!WriteFails
  <2>3. writer' \in Writers /\ writer'.pc = "raised"
    BY <1>1, <2>2
  <2>. QED BY <2>1, <2>3, WriterGoesOn
<1>3. CASE Ob!PutRejected
  <2>1. /\ UNCHANGED <<kind, now, objects, leases, sweep>> /\ Ob!Fails
        /\ writer.pc = "writing" /\ writer.attempt < ObjectAttempts
    BY <1>3 DEF Ob!PutRejected
  <2>2. writer' = [writer EXCEPT !.todo = ObjectIds, !.attempt = writer.attempt + 1]
    BY <1>3 DEF Ob!PutRejected, Ob!WriteAgain
  <2>3. writer.attempt + 1 \in 1..ObjectAttempts
    BY <1>1, <2>1, ObjectTypes
  <2>4. writer' \in Writers /\ writer'.pc = "writing" /\ writer'.todo = ObjectIds
    BY <1>1, <2>1, <2>2, <2>3
  <2>. QED BY <2>1, <2>4, WriterGoesOn
<1>4. ASSUME NEW i \in ObjectIds, Ob!Put(i) PROVE ObjectsInv' /\ Ob!LeasedStay
  <2>. DEFINE pc == IF writer.todo = {i} THEN "returned" ELSE writer.pc
  <2>1. /\ writer.pc = "writing" /\ UNCHANGED <<kind, now, leases, sweep, failures>>
        /\ objects' = [objects EXCEPT ![Ob!KeyWritten(i)] = Ob!Stored(i)]
        /\ writer' = [writer EXCEPT !.todo = writer.todo \ {i}, !.pc = pc]
    BY <1>4 DEF Ob!Put
  <2>2. pc \in {"writing", "returned", "raised"} /\ (pc = "returned" => writer.todo \subseteq {i})
    BY <2>1
  <2>. HIDE DEF pc
  <2>. QED BY <2>1, <2>2, WriteKeeps
<1>5. ASSUME NEW i \in ObjectIds, Ob!PutLate(i) PROVE ObjectsInv' /\ Ob!LeasedStay
  <2>1. /\ kind = "local" /\ writer.pc = "raised" /\ UNCHANGED <<kind, now, leases, sweep, failures>>
        /\ objects' = [objects EXCEPT ![i] = Ob!Stored(i)]
        /\ writer' = [writer EXCEPT !.todo = writer.todo \ {i}]
    BY <1>5 DEF Ob!PutLate
  <2>2. Ob!KeyWritten(i) = i
    BY <2>1 DEF Ob!KeyWritten
  <2>3. writer' = [writer EXCEPT !.todo = writer.todo \ {i}, !.pc = "raised"]
    BY <1>1, <2>1
  <2>. QED BY <2>1, <2>2, <2>3, WriteKeeps
<1>6. \A i \in ObjectIds : Ob!PutOne(i) \/ Ob!WriteOne(i) => Ob!Put(i)
  BY DEF Ob!PutOne, Ob!WriteOne
<1>. QED BY <1>2, <1>3, <1>4, <1>5, <1>6

\* Another server deletes what has expired; what ends the pass it does not delete.
LEMMA ExpireElsewhereStep == ASSUME ObjectsInv, Ob!ExpireElsewhere PROVE ObjectsInv' /\ Ob!LeasedStay
<1>1. PICK k1 \in Ob!Present :
        /\ objects[k1].shape = "reservation" /\ Ob!Expired(objects[k1], now)
        /\ objects' = [objects EXCEPT ![k1] = Ob!NoObject]
  BY DEF Ob!ExpireElsewhere
<1>2. UNCHANGED <<kind, now, leases, writer, sweep, failures>>
  BY DEF Ob!ExpireElsewhere
<1>3. k1 \in Ob!Keys /\ now > objects[k1].expiration
  BY <1>1 DEF Ob!Present, Ob!Expired
<1>4. objects = [k \in Ob!Keys |-> objects[k]] /\ GoodObject(k1, objects[k1])
  BY <1>3 DEF ObjectsInv
<1>5. objects' = [k \in Ob!Keys |-> IF k \in {k1} THEN Ob!NoObject ELSE objects[k]]
  BY <1>1, <1>3, <1>4
<1>6. /\ objects' = [k \in Ob!Keys |-> objects'[k]] /\ \A k \in Ob!Keys : GoodObject(k, objects[k])'
      /\ WriterInv' /\ Ob!LeasedStay
      /\ \A k \in Ob!Keys : \A time : Condemned(k, time) => Condemned(k, time)'
      /\ \A k \in Ob!Keys : \A s : Behind(objects'[k], s) => k \notin {k1} /\ Behind(objects[k], s)
  <2>1. {k1} \in SUBSET Ob!Keys /\ \A k \in {k1} : objects[k] # Ob!NoObject => now > objects[k].expiration
    BY <1>3
  <2>. QED BY <1>2, <1>5, <2>1, DeletedKeeps
<1>7. SweepTypes(sweep) /\ sweep.time <= now /\ SweepDooms(sweep) /\ SweepSees(sweep) /\ kind \in Kinds
  BY DEF ObjectsInv, SweepInv
<1>8. sweep.doomed \subseteq Ob!Keys /\ sweep.page \subseteq Ob!Keys /\ sweep.time \in Nat
  BY <1>7 DEF SweepTypes
<1>9. SweepDooms(sweep)'
  <2>1. sweep.pc = "delete" => Ob!First(sweep.page) \in Ob!Keys
    BY <1>7, <1>8, FirstIsLeast DEF SweepTypes
  <2>2. ASSUME NEW time, time = sweep.time
        PROVE  /\ \A k \in sweep.doomed : Condemned(k, time)'
               /\ sweep.pc = "delete" =>
                    \A k \in Ob!Keys : k = Ob!First(sweep.page) => Condemned(k, time)'
    <3>1. \A k \in sweep.doomed : Condemned(k, time)
      BY <1>7, <2>2 DEF SweepDooms
    <3>2. sweep.pc = "delete" => Condemned(Ob!First(sweep.page), time)
      BY <1>7, <2>2 DEF SweepDooms
    <3>3. \A k \in Ob!Keys : Condemned(k, time) => Condemned(k, time)'
      BY <1>6
    <3>. QED BY <1>8, <3>1, <3>2, <3>3
  <2>3. \A k : Condemned(k, sweep.time)' <=> \A time : time = sweep.time => Condemned(k, time)'
    BY <1>2 DEF Condemned
  <2>4. /\ \A k \in sweep.doomed : Condemned(k, sweep.time)'
        /\ sweep.pc = "delete" =>
             \A k \in Ob!Keys : k = Ob!First(sweep.page) => Condemned(k, sweep.time)'
    BY <2>2, <2>3
  <2>5. sweep.pc = "delete" => Condemned(Ob!First(sweep.page), sweep.time)'
    <3>1. Condemned(Ob!First(sweep.page), sweep.time)' <=>
            \A k : k = Ob!First(sweep.page) => Condemned(k, sweep.time)'
      BY <1>2 DEF Condemned
    <3>. QED BY <2>1, <2>4, <3>1
  <2>. QED BY <1>2, <2>4, <2>5 DEF SweepDooms
<1>10. \A n : Stuck(n, sweep.time) => Stuck(n, sweep.time)'
  <2>. SUFFICES ASSUME NEW n, NEW k \in Ob!Keys, objects[k] # Ob!NoObject,
                       Ob!Verdict(objects[k], sweep.time) = "raise", k < n \/ kind = "azure"
                PROVE  Stuck(n, sweep.time)'
    BY DEF Stuck
  <2>1. GoodObject(k, objects[k])
    BY DEF ObjectsInv
  <2>2. objects[k].shape # "reservation"
    BY <1>7, <1>8, <2>1, Verdicts
  <2>3. k # k1
    BY <1>1, <2>2
  <2>4. objects'[k] = objects[k] /\ Ob!Verdict(objects[k], sweep.time)' = Ob!Verdict(objects'[k], sweep.time)
    BY <1>2, <1>5, <2>3 DEF Ob!Verdict
  <2>5. objects'[k] # Ob!NoObject /\ Ob!Verdict(objects[k], sweep.time)' = "raise"
    BY <2>4
  <2>. QED BY <1>2, <2>5 DEF Stuck
<1>11. SweepSees(sweep)'
  <2>1. Ahead(sweep)' = Ahead(sweep)
    BY <1>2 DEF Ahead
  <2>2. \A k \in Ob!Keys : Behind(objects'[k], sweep) => Behind(objects[k], sweep)
    BY <1>6
  <2>3. SweepSees(sweep)' <=>
          /\ sweep.clean /\ sweep.pc \in {"list", "get", "delete", "batch"} =>
               \A k \in Ob!Keys : Behind(objects'[k], sweep) => k \in Ahead(sweep)
          /\ sweep.clean /\ sweep.pc = "ended" =>
               \A k \in Ob!Keys : Behind(objects'[k], sweep) => Stuck(k, sweep.time)'
    BY <1>2, <2>1 DEF SweepSees, Behind
  <2>. QED BY <1>7, <1>10, <2>2, <2>3 DEF SweepSees
<1>12. SweepInv(sweep)'
  BY <1>2, <1>7, <1>9, <1>11 DEF SweepInv, SweepTypes
<1>. QED BY <1>2, <1>6, <1>12 DEF ObjectsInv

LEMMA PassStep ==
  ASSUME ObjectsInv,
         \/ Ob!BeginSweep \/ Ob!ListPage \/ Ob!SkipObject \/ Ob!PassFails \/ Ob!PassRejected \/ Ob!NextSweep
  PROVE  ObjectsInv' /\ Ob!LeasedStay
<1>1. SweepTypes(sweep) /\ sweep.time <= now /\ SweepDooms(sweep) /\ failures \in 0..MaxFailedCalls /\ now \in Nat
  BY DEF ObjectsInv, SweepInv
<1>2. CASE Ob!BeginSweep
  <2>. DEFINE s == [Ob!Idle EXCEPT !.pc = "list", !.time = now]
  <2>1. sweep' = s /\ UNCHANGED <<kind, now, objects, leases, writer, failures>>
    BY <1>2 DEF Ob!BeginSweep
  <2>2. SweepTypes(s) /\ s.pc = "list" /\ s.time = now /\ s.doomed = {} /\ s.token = Ob!Start
    BY <1>1, IdleSweeps
  <2>. HIDE DEF s
  <2>3. SweepInv(s)
    BY <1>1, <2>2, FreshSweeps
  <2>. QED BY <1>1, <2>1, <2>3, SweepGoesOn
<1>3. CASE Ob!ListPage
  <2>1. SweepInv(sweep')
    BY <1>3, ListKeeps DEF Ob!ListPage
  <2>. QED BY <1>1, <1>3, <2>1, SweepGoesOn DEF Ob!ListPage
<1>4. CASE Ob!SkipObject
  <2>. DEFINE t == Ob!Onward(sweep)
              s == [t EXCEPT !.clean = FALSE]
  <2>1. /\ sweep.pc \in {"get", "delete"} /\ sweep' = s /\ Ob!Fails
        /\ UNCHANGED <<kind, now, objects, leases, writer>>
    BY <1>4 DEF Ob!SkipObject
  <2>2. SweepTypes(t) /\ t.time = sweep.time /\ t.doomed = sweep.doomed /\ t.pc \in {"list", "get"}
    BY <1>1, <2>1, OnwardKeeps
  <2>. HIDE DEF t
  <2>3. SweepTypes(s) /\ s.time = sweep.time /\ s.doomed = sweep.doomed /\ ~s.clean /\ s.pc # "delete"
    BY <2>2 DEF SweepTypes
  <2>. HIDE DEF s
  <2>4. SweepInv(s)
    BY <2>3, Interrupted
  <2>. QED BY <2>1, <2>4, CallFails, SweepGoesOn
<1>5. CASE Ob!PassFails
  <2>. DEFINE s == [sweep EXCEPT !.pc = "ended", !.clean = FALSE]
  <2>1. sweep' = s /\ Ob!Fails /\ UNCHANGED <<kind, now, objects, leases, writer>>
    BY <1>5 DEF Ob!PassFails
  <2>2. SweepTypes(s) /\ s.time = sweep.time /\ s.doomed = sweep.doomed /\ ~s.clean /\ s.pc # "delete"
    BY <1>1 DEF SweepTypes
  <2>. HIDE DEF s
  <2>3. SweepInv(s)
    BY <2>2, Interrupted
  <2>. QED BY <2>1, <2>3, CallFails, SweepGoesOn
<1>6. CASE Ob!PassRejected
  <2>. DEFINE attempt == sweep.attempt + 1
              s == [Ob!Idle EXCEPT !.pc = "list", !.time = now, !.attempt = attempt]
  <2>1. /\ sweep' = s /\ Ob!Fails /\ UNCHANGED <<kind, now, objects, leases, writer>>
        /\ sweep.attempt < ObjectAttempts
    BY <1>6 DEF Ob!PassRejected
  <2>2. attempt \in 1..ObjectAttempts
    BY <1>1, <2>1, ObjectTypes DEF SweepTypes
  <2>. HIDE DEF attempt
  <2>3. SweepTypes(s) /\ s.pc = "list" /\ s.time = now /\ s.doomed = {} /\ s.token = Ob!Start
    BY <1>1, <2>2, IdleSweeps
  <2>. HIDE DEF s
  <2>4. SweepInv(s)
    BY <1>1, <2>3, FreshSweeps
  <2>. QED BY <2>1, <2>4, CallFails, SweepGoesOn
<1>7. CASE Ob!NextSweep
  <2>1. sweep' = Ob!Idle /\ UNCHANGED <<kind, now, objects, leases, writer, failures>>
    BY <1>7 DEF Ob!NextSweep
  <2>2. SweepTypes(Ob!Idle) /\ Ob!Idle.pc = "idle" /\ Ob!Idle.time = 0 /\ Ob!Idle.doomed = {}
    BY IdleSweeps
  <2>3. SweepInv(Ob!Idle)
    BY <1>1, <2>2, FreshSweeps
  <2>. QED BY <1>1, <2>1, <2>3, SweepGoesOn
<1>. QED BY <1>2, <1>3, <1>4, <1>5, <1>6, <1>7

LEMMA ObjectsStep == ASSUME ObjectsInv, Ob!Next PROVE ObjectsInv' /\ Ob!LeasedStay
<1>1. CASE Ob!Tick
  <2>1. /\ now < ObjectMaxTime /\ now' = now + 1
        /\ UNCHANGED <<kind, objects, leases, writer, sweep, failures>>
    BY <1>1 DEF Ob!Tick
  <2>2. now' \in 0..ObjectMaxTime /\ now' \in Int /\ now <= now'
    BY <2>1, ObjectTypes DEF ObjectsInv
  <2>. QED BY <2>1, <2>2, ObjectsKept, NoneDeleted DEF ObjectsInv
<1>2. CASE Ob!SweepStep
  BY <1>2, PassStep, ExamineStep, DeleteOneStep, DeleteBatchStep DEF Ob!SweepStep
<1>. QED BY <1>1, <1>2, WriterStep, ExpireElsewhereStep DEF Ob!Next

\* What the properties of the storages say of a state.
LEMMA ObjectsFollow == ObjectsInv => Ob!TypeOK /\ Ob!AddedAreFound /\ Ob!SweptClean
<1>. SUFFICES ASSUME ObjectsInv PROVE Ob!TypeOK /\ Ob!AddedAreFound /\ Ob!SweptClean
  OBVIOUS
<1>1. SweepTypes(sweep) /\ SweepSees(sweep) /\ WriterInv
  BY DEF ObjectsInv, SweepInv
<1>2. Ob!TypeOK
  <2>1. ASSUME NEW k \in Ob!Keys PROVE objects[k].shape \in Shapes \cup {"reservation", "none"}
    BY DEF ObjectsInv, GoodObject, ObjectRecords
  <2>2. /\ writer.pc \in {"writing", "returned", "raised"} /\ writer.attempt \in 1..ObjectAttempts
        /\ sweep.pc \in {"idle", "list", "get", "delete", "batch", "ended"} /\ sweep.attempt \in 1..ObjectAttempts
        /\ sweep.doomed \subseteq Ob!Keys
    BY <1>1 DEF WriterInv, SweepTypes
  <2>. QED BY <2>1, <2>2 DEF Ob!TypeOK, ObjectsInv
<1>3. Ob!AddedAreFound
  <2>. SUFFICES ASSUME writer.pc = "returned", NEW i \in ObjectIds, now <= leases[i]
                PROVE  Ob!Found(i) = IF kind = "azure" THEN "none" ELSE "network"
    BY DEF Ob!AddedAreFound
  <2>0. CASE kind = "azure"
    <3>1. GoodObject(i, objects[i])
      BY DEF ObjectsInv, Ob!Keys
    <3>2. objects[i].shape = "none"
      BY <2>0, <3>1 DEF GoodObject, Ob!NoObject
    <3>. QED BY <2>0, <3>2 DEF Ob!Found, Ob!AzureFound
  <2>. SUFFICES ASSUME kind # "azure" PROVE Ob!Found(i) = "network"
    BY <2>0
  <2>1. kind \in {"s3", "local"}
    BY ObjectTypes DEF ObjectsInv
  <2>2. Ob!KeyWritten(i) = i
    BY <2>1 DEF Ob!KeyWritten
  <2>3. i \in Ob!Keys /\ i \notin Strays /\ Lease(i) = leases[i]
    BY <2>2, KeysWritten
  <2>4. objects[i] # Ob!NoObject
    <3>1. objects[i] = Ob!NoObject => now > leases[i]
      BY <1>1, <2>2 DEF WriterInv
    <3>2. now \in Int /\ leases[i] \in Int
      BY DEF ObjectsInv
    <3>. QED BY <3>1, <3>2
  <2>5. objects[i].shape = "reservation" /\ objects[i].expiration = leases[i]
    BY <2>3, <2>4 DEF ObjectsInv, GoodObject
  <2>6. Ob!S3Found(objects[i]) = "network" /\ Ob!LocalFound(objects[i]) = "network"
    BY <2>5 DEF Ob!S3Found, Ob!LocalFound
  <2>. QED BY <2>1, <2>6 DEF Ob!Found
<1>4. Ob!SweptClean
  <2>. SUFFICES ASSUME sweep.pc = "ended", sweep.clean, NEW k \in Ob!Present, Ob!LeftBehind(objects[k])
                PROVE  Ob!EndedBefore(k)
    BY DEF Ob!SweptClean
  <2>1. k \in Ob!Keys /\ Behind(objects[k], sweep)
    BY DEF Ob!Present, Ob!LeftBehind, Behind
  <2>2. Stuck(k, sweep.time)
    BY <1>1, <2>1 DEF SweepSees
  <2>. QED BY <2>2 DEF Stuck, Ob!EndedBefore, Ob!Present
<1>. QED BY <1>2, <1>3, <1>4

\* For any batch, page size and number of attempts, clocks and failures: what was stored is found
\* with its network as long as its lease lasts, but never in Azure; no pass deletes an object under
\* a lease; and what a pass without failed calls leaves behind expired is listed after an object
\* that ends the pass, or is in Azure, where such an object anywhere keeps everything
\* (S3ReservationsStorage, AzureBlobReservationsStorage, LocalReservationsStorage).
THEOREM StoredAlwaysKept == Spec => StoredAreKept
<1>. DEFINE Inv == part = "objects" => ObjectsInv
            Safe == part = "objects" =>
                      /\ (Ob!TypeOK)'
                      /\ (Ob!AddedAreFound)'
                      /\ (Ob!SweptClean)'
                      /\ Ob!LeasedStay
<1>1. Init => Inv
  BY ObjectsBegin DEF Init
<1>2. Inv /\ [Next]_ServiceVars => Inv'
  <2>. SUFFICES ASSUME Inv, [Next]_ServiceVars, part' = "objects" PROVE ObjectsInv'
    OBVIOUS
  <2>1. part = "objects" /\ ObjectsInv /\ [Ob!Next]_ObVars
    BY PartSteps
  <2>2. CASE UNCHANGED ObVars
    <3>1. UNCHANGED <<kind, now, objects, leases, writer, sweep, failures>>
      BY <2>2 DEF ObVars
    <3>2. SweepInv(sweep') /\ failures' \in 0..MaxFailedCalls
      BY <2>1, <3>1 DEF ObjectsInv
    <3>. QED BY <2>1, <3>1, <3>2, SweepGoesOn
  <2>. QED BY <2>1, <2>2, ObjectsStep
<1>3. Inv /\ Inv' /\ [Next]_ServiceVars => [Safe]_ObVars
  <2>. SUFFICES ASSUME Inv, Inv', [Next]_ServiceVars, ~(UNCHANGED ObVars), part = "objects" PROVE Safe
    OBVIOUS
  <2>1. ObjectsInv /\ Ob!Next /\ ObjectsInv'
    BY PartSteps
  <2>2. (Ob!TypeOK)' /\ (Ob!AddedAreFound)' /\ (Ob!SweptClean)'
    <3>1. ObjectsInv' => (Ob!TypeOK)' /\ (Ob!AddedAreFound)' /\ (Ob!SweptClean)'
      BY ObjectsFollow, PTL
    <3>. QED BY <2>1, <3>1
  <2>. QED BY <2>1, <2>2, ObjectsStep
<1>4. Spec => [][Safe]_ObVars
  <2>. HIDE DEF Inv, Safe
  <2>. QED BY <1>1, <1>2, <1>3, PTL DEF Spec
<1>. QED BY <1>4 DEF StoredAreKept

\* Both together: the object store, and the client it is reached with.
THEOREM ObjectsAlwaysKept == Spec => ObjectsAreKept
BY ClientsAlwaysReplaced, StoredAlwaysKept DEF ObjectsAreKept
-----------------------------------------------------------------------------
(* Authorization: the proofs of the component, for the part *)

Auth == INSTANCE OpenFgaAuthorizationProofs WITH Agents <- Networks, MaxChanges <- MaxFactChanges

\* The part is the component whose theorems OpenFgaAuthorizationProofs has.
LEMMA SameInit == Au!Init => Auth!Init
BY Zenon DEF Au!Init, Auth!Init, Au!NoClient, Auth!NoClient, Au!NoStore, Auth!NoStore, Au!Nobody,
       Auth!Nobody

LEMMA SameNext == Au!Next => Auth!Next
BY Zenon DEF Au!Next, Auth!Next, Au!Change, Auth!Change, Au!Grant, Auth!Grant, Au!Revoke,
       Auth!Revoke, Au!Unregister, Auth!Unregister, Au!NewClient, Auth!NewClient,
       Au!Asking, Auth!Asking, Au!GetClient, Auth!GetClient, Au!Close, Auth!Close,
       Au!Enter, Auth!Enter, Au!Become, Auth!Become, Au!At, Auth!At, Au!Others,
       Auth!Others, Au!Begin, Auth!Begin, Au!Closed, Auth!Closed, Au!ListStores,
       Auth!ListStores, Au!CreateStore, Auth!CreateStore, Au!PreparePolicy,
       Auth!PreparePolicy, Au!Released, Auth!Released, Au!InitializeFails,
       Auth!InitializeFails, Au!Leave, Auth!Leave, Au!Answered, Auth!Answered,
       Au!CheckFails, Auth!CheckFails, Au!Outcome, Auth!Outcome, Au!Listed, Auth!Listed,
       Au!Exited, Auth!Exited, Au!LookUp, Auth!LookUp, Au!RequestStep, Auth!RequestStep,
       Au!NoClient, Auth!NoClient, Au!NoStore, Auth!NoStore, Au!Nobody, Auth!Nobody,
       Au!P, Auth!P, Au!Calls, Auth!Calls

LEMMA SameProperties ==
  ASSUME Auth!TypeOK, Auth!OnlyWithConsent, Auth!OneReadyStore, Auth!AloneIsAnswered
  PROVE  Au!TypeOK /\ Au!OnlyWithConsent /\ Au!OneReadyStore /\ Au!AloneIsAnswered
BY DEF Au!TypeOK, Auth!TypeOK, Au!OnlyWithConsent, Auth!OnlyWithConsent, Au!OneReadyStore,
       Auth!OneReadyStore, Au!AloneIsAnswered, Auth!AloneIsAnswered, Au!P, Auth!P,
       Au!Calls, Auth!Calls, Au!NoStore, Auth!NoStore, Au!Nobody, Auth!Nobody

\* However the scopes of concurrent requests overlap and whatever call of the
\* authorization server fails, a service is given, and an agent listed, only to who
\* was told so by the server, the store a process asks has a policy and no process
\* creates two, and a request that has the scope for itself is answered
\* (open_fga_authorizer.py, open_fga_store_cache.py, agent_authorization_policy.py).
THEOREM AccessIsAlwaysAuthorized == Spec => []AccessIsAuthorized
<1>. DEFINE Runs == part = "authorization"
            Safe == Auth!TypeOK /\ Auth!OnlyWithConsent /\ Auth!OneReadyStore /\ Auth!AloneIsAnswered
<1>1. Auth!AuthorizationAssumption
  BY PartsAssumption DEF Au!AuthorizationAssumption, Auth!AuthorizationAssumption
<1>2. Auth!AuthorizationSpec => []Safe
  BY <1>1, Auth!TypeCorrect, Auth!OnlyOnTheServersWord, Auth!StoresAreReady, Auth!AloneIsServed, PTL
<1>3. Init => (Runs => Auth!Init)
  BY SameInit DEF Init
<1>4. [Next]_ServiceVars => (Runs' <=> Runs) /\ (Runs => [Auth!Next]_(Auth!authorizationVars))
  BY PartSteps, SameNext DEF AuVars, Auth!authorizationVars
<1>5. Spec => [](Runs => Safe)
  <2>. HIDE DEF Runs, Safe
  <2>. QED BY <1>2, <1>3, <1>4, PTL DEF Spec, Auth!AuthorizationSpec
<1>6. (Runs => Safe) => AccessIsAuthorized
  BY SameProperties DEF AccessIsAuthorized
<1>. QED BY <1>5, <1>6, PTL
=============================================================================

--------------------------- MODULE PeriodicEvents ---------------------------
(***************************************************************************)
(* The initiator of periodic events (PeriodicEventInitiator): a thread that   *)
(* wakes up every update period, fires what is due and asks the schedules     *)
(* for what comes next.  A schedule is the set of instants it names.         *)
(***************************************************************************)
EXTENDS Integers, Sequences, FiniteSets, FiniteSetsExt

CONSTANTS
  Configs,      \* periodic configs: name |-> sequence of [enable, times]
  SleepPeriod,  \* update_period_in_seconds
  Horizon       \* bound on the clock

HorizonAssumption ==
  /\ Horizon \in Nat /\ SleepPeriod \in Nat \ {0}
  /\ \A c \in Configs : \A a \in DOMAIN c : \A k \in DOMAIN c[a] : c[a][k].times \subseteq 0..Horizon

VARIABLES
  config,      \* the periodic configs read when the thread starts
  interactions,\* agent_interaction_list: [times, last], last the iterator's, by agent and place
  nextFiring,  \* next_firing: of each interaction; Never beyond the horizon
  passStart,   \* the start of the current pass
  pass,        \* where the thread is
  eventTime,   \* the clock
  fired,       \* (history) <<index, instant, when>> of all that was fired
  passes       \* (history) when the thread started, and when passes began

periodicVars == <<config, interactions, nextFiring, passStart, pass, eventTime, fired, passes>>

Never == Horizon + 1

\* get_next() of a croniter whose last answer was t.
GetNext(times, t) ==
  LET later == {u \in times : u > t} IN IF later = {} THEN Never ELSE Min(later)

Indices == DOMAIN interactions

\* set_up_agent_interactions(): one entry for each enabled interaction, named by its
\* agent and its place among the agent's (the code: by its place in one list of all).
SetUpInteractions(now) ==
  LET enabled == {i \in UNION {{a} \X DOMAIN config[a] : a \in DOMAIN config} : config[i[1]][i[2]].enable}
  IN [i \in enabled |-> [times |-> config[i[1]][i[2]].times, last |-> now]]

\* Mutant: the search for the next firing does not go on to the future.
FirstIn(times, last, now) == GetNext(times, last)

\* Mutant: the iterator is asked once to look, and once again to assign.
NextTwice(times, last, now) ==
  LET n == GetNext(times, last) IN IF n > now THEN GetNext(times, n) ELSE GetNext(times, now)

\* The next firing, advanced until it lies in the future.
NextIn(times, last, now) == IF GetNext(times, last) > now THEN GetNext(times, last) ELSE GetNext(times, now)

\* update_next_firing(): a firing in the future stays, the others advance.
UpdateNextFiring(list, firing, now) ==
  [i \in DOMAIN list |->
     IF i \in DOMAIN firing /\ firing[i] > now THEN firing[i]
     ELSE NextIn(list[i].times, list[i].last, now)]

\* The iterators after it: each at its last answer.
Advanced(list, firing) == [i \in DOMAIN list |-> [list[i] EXCEPT !.last = firing[i]]]

Init ==
  /\ config \in Configs
  /\ interactions = <<>> /\ nextFiring = <<>> /\ passStart = 0
  /\ pass = "start" /\ eventTime = 0 /\ fired = {} /\ passes = [from |-> 0, at |-> {}]

\* run() before its loop.
Start ==
  /\ pass = "start"
  /\ LET list == SetUpInteractions(eventTime)
         firing == UpdateNextFiring(list, <<>>, eventTime)
     IN interactions' = Advanced(list, firing) /\ nextFiring' = firing
  /\ pass' = "begin"
  /\ passes' = [passes EXCEPT !.from = eventTime]
  /\ UNCHANGED <<config, passStart, eventTime, fired>>

BeginPass ==
  /\ pass = "begin"
  /\ passStart' = eventTime /\ pass' = "fire"
  /\ passes' = [passes EXCEPT !.at = @ \cup {eventTime}]
  /\ UNCHANGED <<config, interactions, nextFiring, eventTime, fired>>

\* Mutant: what will be due within a period is fired already.
DueEarly(i) == nextFiring[i] < passStart + SleepPeriod

\* figure_which_to_fire(): strictly in the past.
Due(i) == nextFiring[i] < passStart

\* fire_all_these_now() makes a task for each; then the next firings are found.
FireAndUpdate ==
  LET firing == UpdateNextFiring(interactions, nextFiring, passStart) IN
  /\ pass = "fire"
  /\ fired' = fired \cup {<<i, nextFiring[i], passStart>> : i \in {j \in Indices : Due(j)}}
  /\ nextFiring' = firing
  /\ interactions' = Advanced(interactions, firing)
  /\ pass' = "sleep"
  /\ UNCHANGED <<config, passStart, eventTime, passes>>

\* maybe_sleep_at_end_of_iteration(): the rest of the period, if any is left.
EndPass ==
  /\ pass = "sleep"
  /\ eventTime - passStart >= SleepPeriod
  /\ pass' = "begin"
  /\ UNCHANGED <<config, interactions, nextFiring, passStart, eventTime, fired, passes>>

\* Time passes anywhere; a sleep does not last longer than it should.
EventTick ==
  /\ eventTime < Horizon
  /\ pass = "sleep" => eventTime - passStart < SleepPeriod
  /\ eventTime' = eventTime + 1
  /\ UNCHANGED <<config, interactions, nextFiring, passStart, pass, fired, passes>>

Next == Start \/ BeginPass \/ FireAndUpdate \/ EndPass \/ EventTick
-----------------------------------------------------------------------------
(* Properties *)

TypeOK ==
  /\ pass \in {"start", "begin", "fire", "sleep"}
  /\ DOMAIN nextFiring = Indices
  /\ \A i \in Indices : nextFiring[i] \in interactions[i].times \cup {Never}

\* Nothing is fired before its time, or twice.
FiredOnceInTime ==
  /\ \A f \in fired : f[2] < f[3]
  /\ \A f, g \in fired : f[1] = g[1] /\ f[2] = g[2] => f = g

\* An instant a schedule names is missed only if a pass began at it (it is not yet
\* past, and no longer ahead: figure_which_to_fire(), update_next_firing()), or if
\* the thread was so late that an earlier one was fired only then.
OnlyLateOnesAreMissed ==
  pass = "sleep" =>
    \A i \in Indices : \A t \in interactions[i].times :
      passes.from < t /\ t <= passStart =>
        \/ t \in passes.at
        \/ \E f \in fired : f[1] = i /\ f[2] <= t /\ t <= f[3]

\* What will be fired next lies in the future when the thread sleeps.
NextIsAhead == pass = "sleep" => \A i \in Indices : nextFiring[i] > passStart
=============================================================================

----------------------- MODULE ExpiringStorageProofs -----------------------
(***************************************************************************)
(* Proofs about ExpiringStorage, for any names, threads, limits and        *)
(* bounds: the type invariant, TablesTogether, LeaseKept and               *)
(* AnswersAreLeased are invariants of Spec, and Spec implements            *)
(* NetworkLeases; with one call at a time, so is AgreesBetweenCalls (the   *)
(* second half of the module).                                             *)
(*                                                                         *)
(* The inductive invariant IInv says what every frame on a call stack      *)
(* remembers.  Its parts take the history D of deployments and the time T  *)
(* as parameters, so that the lemmas about call stacks are about constants.*)
(***************************************************************************)
EXTENDS ExpiringStorage, FiniteSetTheorems, TLAPS

Log == Seq([names : SUBSET Names, expiration : Int])
Stacks == [1 .. MaxDepth -> Frame]

\* The deployments of D are also those of E.
Prefix(D, E) ==
  /\ Len(D) <= Len(E)
  /\ \A i \in 1 .. Len(D) : E[i] = D[i]

\* DeployedUnder, IsLeaseOf and LeaseCovers, with the history as a parameter.
Under(D, n, v) == v \in 1 .. Len(D) /\ n \in D[v].names

LeaseOf(D, n, v, e) ==
  /\ Under(D, n, v)
  /\ \E w \in v .. Len(D) : n \in D[w].names /\ D[w].expiration = e

Covers(D, n, v, s) ==
  \E w \in v .. Len(D) : n \in D[w].names /\ D[w].expiration >= s

\* v is an answer fit for a request for n that began at s.
Fit(D, n, v, s) == Under(D, n, v) /\ Covers(D, n, v, s)

\* Deployments are promised in the order of their expirations.
Ordered(D, T) ==
  /\ \A i \in 1 .. Len(D) : D[i].expiration \in Nat /\ D[i].expiration <= T + Lifetime
  /\ \A i, j \in 1 .. Len(D) : i <= j => D[i].expiration <= D[j].expiration

\* What a frame on a stack remembers, by what it is doing.
FrameFits(D, T, f) ==
  /\ f.kind = "deploy" =>
       /\ f.net \in 1 .. Len(D)
       /\ f.batch = D[f.net].names
       /\ f.batch \subseteq OwnNames
       /\ f.at = "write" => f.todo \subseteq f.batch
  /\ f.at = "cache" => /\ f.res = Copy(f.res.expiration)
                       /\ LeaseOf(D, f.name, f.net, f.res.expiration)
  /\ f.kind = "request" => /\ f.at = "recheck"
                           /\ f.since <= T
                           /\ f.got # NoNetwork => Fit(D, f.name, f.got, f.since)
  /\ f.kind = "get" => /\ f.at \in {"lookup", "drop"} => f.net = NoNetwork
                       /\ f.todo \subseteq {f.name}

\* The lookup f that the request q has called.
LookupFits(D, q, f) ==
  q.kind = "request" =>
    /\ f.name = q.name
    /\ f.at = "read" => Covers(D, f.name, 1, q.since)
    /\ f.net # NoNetwork => Fit(D, f.name, f.net, q.since)

\* A stack of k frames.
StackFits(D, T, k, fs) ==
  /\ \A d \in 1 .. k : FrameFits(D, T, fs[d])
  /\ k >= 1 => fs[1].kind # "get"
  /\ \A d \in 2 .. k : /\ fs[d].kind = "get" /\ fs[d].name = fs[d - 1].name
                      /\ fs[d - 1].at \in {"register", "recheck"}
  /\ k >= 2 => LookupFits(D, fs[1], fs[2])

-----------------------------------------------------------------------------
(* The inductive invariant *)

HistoryInv == Ordered(deployments, now)

\* The Reservation object of an own name holds what some deployment gave it,
\* and none of the later ones was forgotten.
ObjectInv ==
  \A v \in 1 .. Len(deployments) : \A n \in OwnNames :
    n \in deployments[v].names => LeaseOf(deployments, n, v, expirationOf[n])

\* The base storage holds leases only.
BaseInv ==
  \A n \in Names : base[n] # NoEntry =>
    LeaseOf(deployments, n, base[n].network, base[n].expiration)

\* A write goes on only for a name its deployment brought.
LeftInv ==
  \A v \in Networks, n \in Names : leftover[v][n] = "going" =>
    v \in 1 .. Len(deployments) /\ n \in deployments[v].names /\ n \in OwnNames

StackInv == \A t \in Threads : StackFits(deployments, now, depth[t], frames[t])

IInv ==
  /\ TypeOK
  /\ HistoryInv
  /\ ObjectInv
  /\ BaseInv
  /\ LeftInv
  /\ StackInv
  /\ TablesTogether
  /\ LeaseKept

-----------------------------------------------------------------------------
(* Lemmas about leases and call stacks *)

\* Leases outlive a history that grows.
LEMMA LeasesGrow ==
  ASSUME NEW D \in Log, NEW E \in Log, Prefix(D, E)
  PROVE  /\ \A n, v : Under(D, n, v) => Under(E, n, v)
         /\ \A n, v, e : LeaseOf(D, n, v, e) => LeaseOf(E, n, v, e)
         /\ \A n, v, s : v \in Nat \ {0} /\ Covers(D, n, v, s) => Covers(E, n, v, s)
         /\ \A n, v, s : Fit(D, n, v, s) => Fit(E, n, v, s)
<1>. /\ Len(D) \in Nat /\ Len(E) \in Nat
     /\ Len(D) <= Len(E)
     /\ \A i \in 1 .. Len(D) : E[i] = D[i]
  BY DEF Log, Prefix
<1>1. \A n, v : Under(D, n, v) => Under(E, n, v)
  BY DEF Under
<1>2. \A n, v, e : LeaseOf(D, n, v, e) => LeaseOf(E, n, v, e)
  BY DEF Under, LeaseOf
<1>3. \A n, v, s : v \in Nat \ {0} /\ Covers(D, n, v, s) => Covers(E, n, v, s)
  BY DEF Covers
<1>4. \A n, v, s : Fit(D, n, v, s) => Fit(E, n, v, s)
  BY <1>1, <1>3 DEF Fit, Under
<1>. QED BY <1>1, <1>2, <1>3, <1>4

\* What is stored beside a name fits every request that began before now.
LEMMA LeaseFits ==
  ASSUME NEW D \in Log, NEW n, NEW v, NEW e \in Int, NEW s \in Int,
         LeaseOf(D, n, v, e), s <= e
  PROVE  Fit(D, n, v, s)
BY DEF LeaseOf, Fit, Covers, Under, Log

\* Where deployments are ordered, a lease that any of them gave covers all of them.
LEMMA AnyLeaseFits ==
  ASSUME NEW D \in Log, NEW T, Ordered(D, T), NEW n, NEW v, NEW s \in Int,
         Under(D, n, v), Covers(D, n, 1, s)
  PROVE  Fit(D, n, v, s)
<1>1. PICK w \in 1 .. Len(D) : n \in D[w].names /\ D[w].expiration >= s
  BY DEF Covers
<1>2. v \in 1 .. Len(D) /\ n \in D[v].names /\ Len(D) \in Nat
  BY DEF Under, Log
<1>3. D[v].expiration \in Int /\ D[w].expiration \in Int
  BY <1>1, <1>2 DEF Ordered
<1>4. CASE w >= v
  BY <1>1, <1>2, <1>4 DEF Fit, Covers, Under
<1>5. CASE w < v
  <2>1. D[w].expiration <= D[v].expiration
    BY <1>2, <1>5 DEF Ordered
  <2>2. D[v].expiration >= s
    BY <1>1, <1>3, <2>1
  <2>. QED BY <1>2, <2>2 DEF Fit, Covers, Under
<1>. QED BY <1>2, <1>4, <1>5

LEMMA FrameGrows ==
  ASSUME NEW D \in Log, NEW E \in Log, Prefix(D, E),
         NEW T \in Nat, NEW U \in Nat, T <= U,
         NEW f \in Frame, FrameFits(D, T, f)
  PROVE  FrameFits(E, U, f)
<1>1. f.kind = "deploy" =>
        /\ f.net \in 1 .. Len(E)
        /\ f.batch = E[f.net].names
        /\ f.batch \subseteq OwnNames
        /\ f.at = "write" => f.todo \subseteq f.batch
  BY DEF FrameFits, Prefix, Log
<1>2. f.at = "cache" => /\ f.res = Copy(f.res.expiration)
                        /\ LeaseOf(E, f.name, f.net, f.res.expiration)
  BY LeasesGrow DEF FrameFits
<1>3. f.kind = "request" =>
        /\ f.at = "recheck"
        /\ f.since <= U
        /\ f.got # NoNetwork => Fit(E, f.name, f.got, f.since)
  BY LeasesGrow DEF FrameFits, Frame, FrameRecord
<1>4. f.kind = "get" => /\ f.at \in {"lookup", "drop"} => f.net = NoNetwork
                        /\ f.todo \subseteq {f.name}
  BY DEF FrameFits
<1>. QED BY <1>1, <1>2, <1>3, <1>4 DEF FrameFits

LEMMA StackGrows ==
  ASSUME NEW D \in Log, NEW E \in Log, Prefix(D, E),
         NEW T \in Nat, NEW U \in Nat, T <= U,
         NEW k \in 0 .. MaxDepth, NEW fs \in Stacks, StackFits(D, T, k, fs)
  PROVE  StackFits(E, U, k, fs)
<1>. MaxDepth \in Nat \ {0}
  BY ConstantsAssumption
<1>1. ASSUME NEW d \in 1 .. k PROVE FrameFits(E, U, fs[d])
  BY FrameGrows DEF StackFits, Stacks
<1>2. k >= 2 => LookupFits(E, fs[1], fs[2])
  BY LeasesGrow DEF StackFits, LookupFits
<1>. QED BY <1>1, <1>2 DEF StackFits

\* One frame of a stack is replaced.
LEMMA StackGoto ==
  ASSUME NEW D, NEW T, NEW k \in 1 .. MaxDepth, NEW fs \in Stacks, NEW f \in Frame,
         StackFits(D, T, k, fs), FrameFits(D, T, f),
         f.kind = fs[k].kind, f.kind # "request", k >= 2 => f.name = fs[k].name,
         k = 2 => LookupFits(D, fs[1], f)
  PROVE  StackFits(D, T, k, [fs EXCEPT ![k] = f])
<1>. DEFINE gs == [fs EXCEPT ![k] = f]
<1>. MaxDepth \in Nat \ {0}
  BY ConstantsAssumption
<1>1. gs[k] = f /\ \A d \in 1 .. MaxDepth : d # k => gs[d] = fs[d]
  BY DEF Stacks
<1>. HIDE DEF gs
<1>2. \A d \in 1 .. k : FrameFits(D, T, gs[d])
  BY <1>1 DEF StackFits
<1>3. /\ gs[1].kind # "get"
      /\ \A d \in 2 .. k : /\ gs[d].kind = "get" /\ gs[d].name = gs[d - 1].name
                          /\ gs[d - 1].at \in {"register", "recheck"}
  BY <1>1 DEF StackFits
<1>4. ASSUME k >= 2 PROVE LookupFits(D, gs[1], gs[2])
  BY <1>1, <1>4 DEF StackFits
<1>. QED BY <1>2, <1>3, <1>4 DEF StackFits, gs

\* A frame is changed and calls a lookup.
LEMMA StackCall ==
  ASSUME NEW D, NEW T, NEW k \in 1 .. MaxDepth, k < MaxDepth, NEW fs \in Stacks,
         NEW f \in Frame, NEW n \in Names,
         StackFits(D, T, k, fs), FrameFits(D, T, f),
         f.kind = fs[k].kind, f.kind # "request", k >= 2 => f.name = fs[k].name,
         f.at = "register", f.name = n,
         k = 2 => LookupFits(D, fs[1], f)
  PROVE  StackFits(D, T, k + 1, [fs EXCEPT ![k] = f, ![k + 1] = Lookup(n)])
<1>. DEFINE gs == [fs EXCEPT ![k] = f, ![k + 1] = Lookup(n)]
<1>. MaxDepth \in Nat \ {0}
  BY ConstantsAssumption
<1>1. /\ gs[k] = f /\ gs[k + 1] = Lookup(n)
      /\ \A d \in 1 .. MaxDepth : d # k /\ d # k + 1 => gs[d] = fs[d]
  BY DEF Stacks
<1>2. /\ Lookup(n).kind = "get" /\ Lookup(n).at = "lookup" /\ Lookup(n).name = n
      /\ Lookup(n).todo = {} /\ Lookup(n).net = NoNetwork
  BY DEF Lookup, NoFrame
<1>. HIDE DEF gs
<1>3. \A d \in 1 .. k + 1 : FrameFits(D, T, gs[d])
  <2>1. FrameFits(D, T, Lookup(n))
    BY <1>2 DEF FrameFits
  <2>. QED BY <1>1, <2>1 DEF StackFits
<1>4. /\ gs[1].kind # "get"
      /\ \A d \in 2 .. k + 1 : /\ gs[d].kind = "get" /\ gs[d].name = gs[d - 1].name
                              /\ gs[d - 1].at \in {"register", "recheck"}
  BY <1>1, <1>2 DEF StackFits
<1>5. LookupFits(D, gs[1], gs[2])
  <2>1. CASE k = 1
    BY <1>1, <2>1 DEF LookupFits
  <2>2. CASE k >= 2
    BY <1>1, <2>2 DEF StackFits
  <2>. QED BY <2>1, <2>2
<1>. QED BY <1>3, <1>4, <1>5 DEF StackFits, gs

\* The top frame, a lookup, returns v.
LEMMA StackReturn ==
  ASSUME NEW D, NEW T, NEW k \in 1 .. MaxDepth, NEW fs \in Stacks, NEW v \in Networks,
         StackFits(D, T, k, fs),
         k = 2 /\ fs[1].kind = "request" /\ v # NoNetwork =>
           Fit(D, fs[1].name, v, fs[1].since)
  PROVE  StackFits(D, T, k - 1, [fs EXCEPT ![k] = NoFrame, ![k - 1].got = v])
<1>. DEFINE gs == [fs EXCEPT ![k] = NoFrame, ![k - 1].got = v]
<1>. MaxDepth \in Nat \ {0}
  BY ConstantsAssumption
<1>. CASE k = 1
  BY DEF StackFits
<1>. CASE k >= 2
  <2>1. /\ gs[k - 1] = [fs[k - 1] EXCEPT !.got = v]
        /\ \A d \in 1 .. MaxDepth : d # k /\ d # k - 1 => gs[d] = fs[d]
    BY DEF Stacks
  <2>. HIDE DEF gs
  <2>2. fs[k - 1] \in Frame
    BY DEF Stacks
  <2>3. FrameFits(D, T, gs[k - 1])
    <3>1. FrameFits(D, T, fs[k - 1])
      BY DEF StackFits
    <3>2. k > 2 => fs[k - 1].kind = "get"
      BY DEF StackFits
    <3>. QED BY <2>1, <2>2, <3>1, <3>2 DEF FrameFits, Frame, FrameRecord
  <2>4. \A d \in 1 .. k - 1 : FrameFits(D, T, gs[d])
    BY <2>1, <2>3 DEF StackFits
  <2>. /\ gs[k - 1].kind = fs[k - 1].kind /\ gs[k - 1].name = fs[k - 1].name
       /\ gs[k - 1].at = fs[k - 1].at
    BY <2>1, <2>2 DEF Frame, FrameRecord
  <2>. \A d \in 1 .. k - 1 : gs[d].kind = fs[d].kind /\ gs[d].name = fs[d].name
                            /\ gs[d].at = fs[d].at
    <3>. SUFFICES ASSUME NEW d \in 1 .. k - 1
                  PROVE  /\ gs[d].kind = fs[d].kind /\ gs[d].name = fs[d].name
                         /\ gs[d].at = fs[d].at
      OBVIOUS
    <3>1. CASE d = k - 1
      BY <3>1
    <3>2. CASE d # k - 1
      BY <2>1, <3>2
    <3>. QED BY <3>1, <3>2
  <2>5. /\ gs[1].kind # "get"
        /\ \A d \in 2 .. k - 1 : /\ gs[d].kind = "get" /\ gs[d].name = gs[d - 1].name
                                /\ gs[d - 1].at \in {"register", "recheck"}
    BY DEF StackFits
  <2>6. ASSUME k - 1 >= 2 PROVE LookupFits(D, gs[1], gs[2])
    <3>1. LookupFits(D, fs[1], fs[2])
      BY DEF StackFits
    <3>2. CASE k = 3
      BY <2>1, <2>2, <3>1, <3>2 DEF LookupFits, Frame, FrameRecord
    <3>3. CASE k > 3
      BY <2>1, <3>1, <3>3
    <3>. QED BY <2>6, <3>2, <3>3
  <2>. QED BY <2>4, <2>5, <2>6 DEF StackFits, gs
<1>. QED OBVIOUS

-----------------------------------------------------------------------------
(* Type correctness *)

StacksTyped ==
  /\ depth \in [Threads -> 0 .. MaxDepth]
  /\ frames \in [Threads -> Stacks]

\* The five ways a thread's stack changes keep its type.
LEMMA StackTypes ==
  ASSUME StacksTyped, NEW t \in Threads
  PROVE  /\ \A f \in Frame : Start(t, f) => StacksTyped'
         /\ \A f \in Frame : depth[t] > 0 /\ Goto(t, f) => StacksTyped'
         /\ \A f \in Frame, n \in Names : depth[t] > 0 /\ Call(t, f, n) => StacksTyped'
         /\ \A v \in Networks : depth[t] > 0 /\ Return(t, v) => StacksTyped'
         /\ Finish(t) => StacksTyped'
<1>. MaxDepth \in Nat \ {0} /\ MaxDeployments \in Nat
  BY ConstantsAssumption
<1>1. NoFrame \in Frame /\ \A n \in Names : Lookup(n) \in Frame
  <2>1. NoReservation \in Reservations /\ NoNetwork \in Networks
    BY DEF NoReservation, Reservations, NoTime, NoNetwork, Networks
  <2>2. NoFrame \in Frame
    BY <2>1 DEF NoFrame, Frame, FrameRecord
  <2>. QED BY <2>2 DEF Lookup, Frame, FrameRecord
<1>2. ASSUME NEW f \in Frame, Start(t, f) PROVE StacksTyped'
  BY <1>2 DEF Start, StacksTyped, Stacks
<1>3. ASSUME NEW f \in Frame, depth[t] > 0, Goto(t, f) PROVE StacksTyped'
  BY <1>3 DEF Goto, StacksTyped, Stacks
<1>4. ASSUME NEW f \in Frame, NEW n \in Names, depth[t] > 0, Call(t, f, n)
      PROVE  StacksTyped'
  <2>1. depth' \in [Threads -> 0 .. MaxDepth]
    BY <1>4 DEF Call, StacksTyped
  <2>. DEFINE gs == [frames[t] EXCEPT ![depth[t]] = f, ![depth[t] + 1] = Lookup(n)]
  <2>2. frames' = [frames EXCEPT ![t] = gs]
    BY <1>4 DEF Call, StacksTyped, Stacks
  <2>3. frames[t] \in Stacks /\ gs \in Stacks
    BY <1>1 DEF StacksTyped, Stacks
  <2>. QED BY <2>1, <2>2, <2>3 DEF StacksTyped
<1>5. ASSUME NEW v \in Networks, depth[t] > 0, Return(t, v) PROVE StacksTyped'
  <2>1. depth' \in [Threads -> 0 .. MaxDepth]
    BY <1>5 DEF Return, StacksTyped
  <2>. DEFINE gs == [frames[t] EXCEPT ![depth[t]] = NoFrame, ![depth[t] - 1].got = v]
  <2>2. frames' = [frames EXCEPT ![t] = gs]
    BY <1>5 DEF Return, StacksTyped, Stacks
  <2>3. gs \in Stacks
    <3>1. frames[t] \in Stacks
      BY DEF StacksTyped
    <3>2. ASSUME NEW f \in Frame PROVE [f EXCEPT !.got = v] \in Frame
      BY DEF Frame, FrameRecord
    <3>. QED BY <1>1, <3>1, <3>2 DEF Stacks
  <2>. QED BY <2>1, <2>2, <2>3 DEF StacksTyped
<1>6. ASSUME Finish(t) PROVE StacksTyped'
  BY <1>1, <1>6 DEF Finish, StacksTyped, Stacks
<1>. QED BY <1>2, <1>3, <1>4, <1>5, <1>6

LEMMA TypeStep == TypeOK /\ [Next]_vars => TypeOK'
<1>. SUFFICES ASSUME TypeOK, [Next]_vars PROVE TypeOK'
  OBVIOUS
<1>. /\ MaxDepth \in Nat \ {0} /\ MaxDeployments \in Nat /\ Lifetime \in Nat
     /\ OwnNames \subseteq Names /\ ForeignNames \subseteq Names
  BY ConstantsAssumption DEF OwnNames
<1>1. StacksTyped /\ (StacksTyped' => depth' \in [Threads -> 0 .. MaxDepth]
                                      /\ frames' \in [Threads -> [1 .. MaxDepth -> Frame]])
  BY DEF TypeOK, StacksTyped, Stacks
<1>2. \A t \in Threads : depth[t] > 0 => Top(t) \in Frame
  BY DEF TypeOK, Top
<1>3. /\ NoReservation \in Reservations /\ OwnReservation \in Reservations
      /\ \A e \in Int : Copy(e) \in Reservations
      /\ NoNetwork \in Networks /\ NoTime \in Int
      /\ NoEntry \in [network : Networks, expiration : Int]
  BY DEF NoReservation, OwnReservation, Copy, Reservations, NoNetwork, NoTime, Networks, NoEntry
<1>4. NoFrame \in Frame
  BY <1>3 DEF NoFrame, Frame, FrameRecord
<1>5. now \in Int
  BY DEF TypeOK
<1>. DEFINE WorldTyped == /\ now' \in Nat
                          /\ deployments' \in Seq([names : SUBSET Names, expiration : Int])
                          /\ Len(deployments') <= MaxDeployments
                          /\ expirationOf' \in [Names -> NoTime .. now' + Lifetime]
            StorageTyped == /\ reservations' \in [Names -> Reservations]
                            /\ agents' \in [Names -> Networks]
                            /\ accessTimes' \in [Names -> Int]
            BaseTyped == /\ base' \in [Names -> [network : Networks, expiration : Int]]
                         /\ leftover' \in [Networks -> [Names -> {"none", "going", "written"}]]
            AllowedTyped == allowed' \in [Names -> Networks]
<1>6. /\ UNCHANGED world => WorldTyped
      /\ UNCHANGED storage => StorageTyped
      /\ UNCHANGED disk => BaseTyped
      /\ UNCHANGED allowed => AllowedTyped
      /\ UNCHANGED <<depth, frames>> => StacksTyped'
  BY DEF world, storage, disk, TypeOK, StacksTyped, Stacks
<1>7. WorldTyped /\ StorageTyped /\ BaseTyped /\ AllowedTyped /\ StacksTyped' => TypeOK'
  BY <1>1 DEF TypeOK
<1>8. \A S : Remove(S) => StorageTyped
  BY <1>3 DEF Remove, ReservationsWithout, Put, TypeOK

<1>9. ASSUME NEW t \in Threads, NEW B \in SUBSET OwnNames, Deploy(t, B) PROVE TypeOK'
  <2>1. WorldTyped
    <3>1. now' \in Nat /\ Len(deployments') <= MaxDeployments
      BY <1>9 DEF Deploy, TypeOK
    <3>2. [names |-> B, expiration |-> now + Lifetime] \in [names : SUBSET Names, expiration : Int]
      BY DEF TypeOK
    <3>3. deployments' \in Seq([names : SUBSET Names, expiration : Int])
      BY <1>9, <3>2 DEF Deploy, TypeOK
    <3>4. expirationOf' \in [Names -> NoTime .. now' + Lifetime]
      BY <1>9 DEF Deploy, Renewed, Put, TypeOK, NoTime
    <3>. QED BY <3>1, <3>3, <3>4
  <2>2. StacksTyped'
    <3>. DEFINE f == [NoFrame EXCEPT !.kind = "deploy", !.batch = B,
                        !.at = IF HasBase THEN "write" ELSE "insert",
                        !.todo = IF HasBase THEN B ELSE {},
                        !.net = NextDeployment]
    <3>1. NextDeployment \in Networks
      BY <1>9 DEF Deploy, NextDeployment, Networks, TypeOK
    <3>2. f \in Frame
      BY <1>4, <3>1 DEF Frame, FrameRecord
    <3>3. Start(t, f)
      BY <1>9 DEF Deploy
    <3>. HIDE DEF f
    <3>. QED BY <1>1, <3>2, <3>3, StackTypes
  <2>. QED BY <1>6, <1>7, <1>9, <2>1, <2>2 DEF Deploy
<1>10. ASSUME NEW t \in Threads, NEW n \in Names, WriteBase(t, n) PROVE TypeOK'
  <2>1. Top(t) \in Frame /\ depth[t] > 0
    BY <1>2, <1>10 DEF WriteBase, At
  <2>2. BaseTyped
    BY <1>10, <2>1 DEF WriteBase, Frame, FrameRecord, TypeOK
  <2>3. [Top(t) EXCEPT !.todo = @ \ {n}] \in Frame
    BY <2>1 DEF Frame, FrameRecord
  <2>. QED BY <1>1, <1>6, <1>7, <1>10, <2>1, <2>2, <2>3, StackTypes DEF WriteBase
<1>11. ASSUME NEW t \in Threads, WriteFails(t) PROVE TypeOK'
  <2>1. Top(t).net \in Networks
    BY <1>2, <1>11 DEF WriteFails, At, Frame, FrameRecord
  <2>2. \A S : LeftBehind(S, Top(t).net) \in [Networks -> [Names -> {"none", "going", "written"}]]
    BY <2>1 DEF LeftBehind, TypeOK
  <2>3. BaseTyped
    BY <1>11, <2>2 DEF WriteFails, TypeOK
  <2>. QED BY <1>1, <1>6, <1>7, <1>11, <2>3, StackTypes DEF WriteFails
<1>12. ASSUME NEW t \in Threads, Insert(t) PROVE TypeOK'
  <2>1. Top(t) \in Frame /\ depth[t] > 0
    BY <1>2, <1>12 DEF Insert, Written, At
  <2>. DEFINE added == {n \in Top(t).batch : agents[n] = NoNetwork}
  <2>2. [Top(t) EXCEPT !.at = IF added = {} THEN "evict" ELSE "tell", !.todo = added] \in Frame
    BY <2>1 DEF Frame, FrameRecord
  <2>3. StorageTyped
    <3>1. Top(t).net \in Networks
      BY <2>1 DEF Frame, FrameRecord
    <3>. QED BY <1>3, <1>12, <3>1 DEF Insert, Filled, Reserved, Put, TypeOK
  <2>4. StacksTyped'
    BY <1>1, <1>12, <2>1, <2>2, StackTypes DEF Insert
  <2>. QED BY <1>6, <1>7, <1>12, <2>3, <2>4 DEF Insert
<1>13. ASSUME NEW t \in Threads, NEW n \in Names, TellAdded(t, n) PROVE TypeOK'
  <2>1. Top(t) \in Frame /\ depth[t] > 0
    BY <1>2, <1>13 DEF TellAdded
  <2>2. [Top(t) EXCEPT !.at = "register", !.name = n, !.todo = @ \ {n}] \in Frame
    BY <2>1 DEF Frame, FrameRecord
  <2>3. StacksTyped'
    BY <1>1, <1>13, <2>1, <2>2, StackTypes DEF TellAdded
  <2>. QED BY <1>6, <1>7, <1>13, <2>3 DEF TellAdded
<1>14. ASSUME NEW t \in Threads, Register(t) PROVE TypeOK'
  <2>1. Top(t) \in Frame /\ depth[t] > 0
    BY <1>2, <1>14 DEF Register
  <2>2. [Top(t) EXCEPT !.at = IF Top(t).todo = {} THEN "evict" ELSE "tell",
                       !.got = NoNetwork] \in Frame
    <3>1. \A a \in {"evict", "tell"} : [Top(t) EXCEPT !.at = a, !.got = NoNetwork] \in Frame
      BY <1>3, <2>1 DEF Frame, FrameRecord
    <3>. QED BY <3>1
  <2>3. AllowedTyped
    BY <1>14, <2>1 DEF Register, Frame, FrameRecord, TypeOK
  <2>4. StacksTyped'
    BY <1>1, <1>14, <2>1, <2>2, StackTypes DEF Register
  <2>. QED BY <1>6, <1>7, <1>14, <2>3, <2>4 DEF Register
<1>15. ASSUME NEW t \in Threads, NEW n \in Names, TellRemoved(t, n) PROVE TypeOK'
  <2>1. Top(t) \in Frame /\ depth[t] > 0
    BY <1>2, <1>15 DEF TellRemoved
  <2>2. [Top(t) EXCEPT !.gone = @ \ {n}] \in Frame
    BY <2>1 DEF Frame, FrameRecord
  <2>3. AllowedTyped
    BY <1>3, <1>15 DEF TellRemoved, Forgotten, TypeOK
  <2>4. StacksTyped'
    BY <1>1, <1>15, <2>1, <2>2, StackTypes DEF TellRemoved
  <2>. QED BY <1>6, <1>7, <1>15, <2>3, <2>4 DEF TellRemoved
<1>16. ASSUME NEW t \in Threads, AllTold(t) PROVE TypeOK'
  <2>1. Top(t).net \in Networks /\ depth[t] > 0
    BY <1>2, <1>16 DEF AllTold, Frame, FrameRecord
  <2>2. StacksTyped'
    BY <1>1, <1>16, <2>1, StackTypes DEF AllTold, Conclude
  <2>. QED BY <1>6, <1>7, <1>16, <2>2 DEF AllTold
<1>17. ASSUME NEW t \in Threads, Evict(t) PROVE TypeOK'
  <2>1. Top(t) \in Frame /\ depth[t] > 0
    BY <1>2, <1>17 DEF Evict
  <2>2. \A S \in SUBSET Names : [Top(t) EXCEPT !.at = "untell", !.gone = S] \in Frame
    BY <2>1 DEF Frame, FrameRecord
  <2>3. \A S \in Oldest(Overflow) : S \in SUBSET Names
    BY DEF Oldest, Touched
  <2>4. StacksTyped' /\ StorageTyped
    BY <1>1, <1>6, <1>8, <1>17, <2>1, <2>2, <2>3, StackTypes DEF Evict
  <2>. QED BY <1>6, <1>7, <1>17, <2>4 DEF Evict
<1>18. ASSUME NEW t \in Threads, Scan(t) PROVE TypeOK'
  <2>1. [NoFrame EXCEPT !.kind = "sweep", !.at = "sweep", !.gone = ExpiredNames] \in Frame
    BY <1>4 DEF Frame, FrameRecord, ExpiredNames
  <2>2. StacksTyped'
    BY <1>1, <1>18, <2>1, StackTypes DEF Scan
  <2>. QED BY <1>6, <1>7, <1>18, <2>2 DEF Scan
<1>19. ASSUME NEW t \in Threads, Sweep(t) PROVE TypeOK'
  <2>1. Top(t) \in Frame /\ depth[t] > 0
    BY <1>2, <1>19 DEF Sweep, At
  <2>2. [Top(t) EXCEPT !.at = "untell"] \in Frame
    BY <2>1 DEF Frame, FrameRecord
  <2>3. StacksTyped' /\ StorageTyped
    BY <1>1, <1>8, <1>19, <2>1, <2>2, StackTypes DEF Sweep
  <2>. QED BY <1>6, <1>7, <1>19, <2>3 DEF Sweep
<1>20. ASSUME NEW t \in Threads, LookupReservation(t) PROVE TypeOK'
  <2>1. Top(t) \in Frame /\ depth[t] > 0
    BY <1>2, <1>20 DEF LookupReservation, At
  <2>2. /\ [Top(t) EXCEPT !.at = "drop"] \in Frame
        /\ [Top(t) EXCEPT !.at = "read"] \in Frame
        /\ [Top(t) EXCEPT !.at = "fetch"] \in Frame
    BY <2>1 DEF Frame, FrameRecord
  <2>3. StacksTyped'
    BY <1>1, <1>3, <1>20, <2>1, <2>2, StackTypes DEF LookupReservation
  <2>. QED BY <1>6, <1>7, <1>20, <2>3 DEF LookupReservation
<1>21. ASSUME NEW t \in Threads, DropExpired(t) PROVE TypeOK'
  <2>1. Top(t) \in Frame /\ depth[t] > 0
    BY <1>2, <1>21 DEF DropExpired, At
  <2>. DEFINE f == [Top(t) EXCEPT !.at = "untell", !.gone = {Top(t).name}]
  <2>2. f \in Frame
    BY <1>21, <2>1 DEF Frame, FrameRecord, DropExpired, At
  <2>3. StacksTyped' /\ StorageTyped
    BY <1>1, <1>8, <1>21, <2>1, <2>2, StackTypes DEF DropExpired
  <2>. QED BY <1>6, <1>7, <1>21, <2>3 DEF DropExpired
<1>22. ASSUME NEW t \in Threads, ReadNetwork(t) PROVE TypeOK'
  <2>1. Top(t) \in Frame /\ depth[t] > 0 /\ Top(t).name \in Names
    BY <1>2, <1>22 DEF ReadNetwork, At, Frame
  <2>2. agents[Top(t).name] \in Networks
    BY <2>1 DEF TypeOK
  <2>3. [Top(t) EXCEPT !.at = "touch", !.net = agents[Top(t).name]] \in Frame
    BY <2>1, <2>2 DEF Frame, FrameRecord
  <2>4. StacksTyped'
    BY <1>1, <1>3, <1>22, <2>1, <2>3, StackTypes DEF ReadNetwork
  <2>. QED BY <1>6, <1>7, <1>22, <2>4 DEF ReadNetwork
<1>23. ASSUME NEW t \in Threads, Touch(t) PROVE TypeOK'
  <2>1. Top(t).net \in Networks /\ depth[t] > 0
    BY <1>2, <1>23 DEF Touch, At, Frame, FrameRecord
  <2>2. StorageTyped
    BY <1>5, <1>23 DEF Touch, TypeOK
  <2>3. StacksTyped'
    BY <1>1, <1>23, <2>1, StackTypes DEF Touch
  <2>. QED BY <1>6, <1>7, <1>23, <2>2, <2>3 DEF Touch
<1>24. ASSUME NEW t \in Threads, Fetch(t) PROVE TypeOK'
  <2>1. Top(t) \in Frame /\ depth[t] > 0 /\ Top(t).name \in Names
    BY <1>2, <1>24 DEF Fetch, At, Frame
  <2>. DEFINE e == base[Top(t).name]
              f == [Top(t) EXCEPT !.at = "cache", !.net = e.network,
                                  !.res = Copy(e.expiration)]
  <2>2. e \in [network : Networks, expiration : Int]
    BY <2>1 DEF TypeOK
  <2>3. Copy(e.expiration) \in Reservations
    BY <1>3, <2>2
  <2>4. f \in Frame
    BY <2>1, <2>2, <2>3 DEF Frame, FrameRecord
  <2>5. StacksTyped'
    BY <1>1, <1>3, <1>24, <2>1, <2>4, StackTypes DEF Fetch
  <2>. QED BY <1>6, <1>7, <1>24, <2>5 DEF Fetch
<1>25. ASSUME NEW t \in Threads, Cache(t) PROVE TypeOK'
  <2>1. Top(t) \in Frame /\ depth[t] > 0 /\ Top(t).name \in Names
    BY <1>2, <1>25 DEF Cache, At, Frame
  <2>2. [Top(t) EXCEPT !.at = "tell", !.todo = {Top(t).name}, !.res = NoReservation] \in Frame
    BY <1>3, <2>1 DEF Frame, FrameRecord
  <2>3. StorageTyped
    <3>1. Top(t).res \in Reservations /\ Top(t).net \in Networks
      BY <2>1 DEF Frame, FrameRecord
    <3>2. /\ reservations' = [reservations EXCEPT ![Top(t).name] = Top(t).res]
          /\ agents' = [agents EXCEPT ![Top(t).name] = Top(t).net]
          /\ accessTimes' = [accessTimes EXCEPT ![Top(t).name] = now]
      BY <1>25 DEF Cache, Cached
    <3>. QED BY <1>5, <3>1, <3>2 DEF TypeOK
  <2>4. StacksTyped'
    BY <1>1, <1>25, <2>1, <2>2, StackTypes DEF Cache
  <2>. QED BY <1>6, <1>7, <1>25, <2>3, <2>4 DEF Cache
<1>26. ASSUME NEW t \in Threads, NEW n \in Names, Request(t, n) PROVE TypeOK'
  <2>. DEFINE q == [NoFrame EXCEPT !.kind = "request", !.at = "recheck",
                                   !.name = n, !.since = now]
  <2>1. q \in Frame
    <3>1. now \in Int
      BY DEF TypeOK
    <3>. QED BY <1>4, <3>1 DEF Frame, FrameRecord
  <2>2. Lookup(n) \in Frame
    BY <1>4 DEF Lookup, Frame, FrameRecord
  <2>3. depth' \in [Threads -> 0 .. MaxDepth]
    BY <1>26 DEF Request, TypeOK
  <2>4. frames' = [frames EXCEPT ![t] = [frames[t] EXCEPT ![1] = q, ![2] = Lookup(n)]]
    BY <1>26 DEF Request, TypeOK
  <2>5. frames[t] \in Stacks /\ [frames[t] EXCEPT ![1] = q, ![2] = Lookup(n)] \in Stacks
    BY <2>1, <2>2 DEF TypeOK, Stacks
  <2>6. StacksTyped'
    BY <1>1, <2>3, <2>4, <2>5 DEF StacksTyped
  <2>. QED BY <1>6, <1>7, <1>26, <2>6 DEF Request
<1>27. ASSUME NEW t \in Threads, Answer(t) PROVE TypeOK'
  BY <1>1, <1>6, <1>7, <1>27, StackTypes DEF Answer
<1>28. ASSUME Tick PROVE TypeOK'
  <2>1. WorldTyped
    BY <1>28 DEF Tick, TypeOK
  <2>. QED BY <1>6, <1>7, <1>28, <2>1 DEF Tick
<1>29. ASSUME NEW n \in ForeignNames, DeployElsewhere(n) PROVE TypeOK'
  <2>1. NextDeployment \in Networks
    BY <1>29 DEF DeployElsewhere, NextDeployment, Networks, TypeOK
  <2>2. WorldTyped /\ BaseTyped
    BY <1>29, <2>1 DEF DeployElsewhere, TypeOK
  <2>. QED BY <1>6, <1>7, <1>29, <2>2 DEF DeployElsewhere
<1>30. ASSUME NEW n \in Names, ExpireBase(n) PROVE TypeOK'
  <2>1. BaseTyped
    BY <1>3, <1>30 DEF ExpireBase, TypeOK
  <2>. QED BY <1>6, <1>7, <1>30, <2>1 DEF ExpireBase
<1>31. ASSUME UNCHANGED vars PROVE TypeOK'
  BY <1>6, <1>7, <1>31 DEF vars
<1>32. ASSUME NEW v \in Networks, NEW n \in Names, WriteLate(v, n) PROVE TypeOK'
  <2>1. BaseTyped
    BY <1>32 DEF WriteLate, TypeOK
  <2>. QED BY <1>6, <1>7, <1>32, <2>1 DEF WriteLate
<1>. QED
  BY <1>9, <1>10, <1>11, <1>12, <1>13, <1>14, <1>15, <1>16, <1>17, <1>18, <1>19, <1>20,
     <1>21, <1>22, <1>23, <1>24, <1>25, <1>26, <1>27, <1>28, <1>29, <1>30, <1>31, <1>32
  DEF Next, Step

LEMMA TypeInit == Init => TypeOK
<1>. MaxDepth \in Nat \ {0} /\ MaxDeployments \in Nat
  BY ConstantsAssumption
<1>1. NoReservation \in Reservations /\ NoNetwork \in Networks /\ NoTime \in Int
  BY DEF NoReservation, Reservations, NoTime, NoNetwork, Networks
<1>2. NoFrame \in Frame
  BY <1>1 DEF NoFrame, Frame, FrameRecord
<1>3. ASSUME Init PROVE expirationOf \in [Names -> NoTime .. now + Lifetime]
  BY <1>3, ConstantsAssumption DEF Init, NoTime
<1>. QED BY <1>1, <1>2, <1>3 DEF Init, TypeOK, NoEntry

\* The tables, the history and the call stacks keep the shapes the code gives them.
THEOREM TypeCorrect == Spec => []TypeOK
BY TypeInit, TypeStep, PTL DEF Spec

-----------------------------------------------------------------------------
(* The inductive invariant is kept: the history, the objects, the base storage *)

LEMMA HistoryStep ==
  ASSUME IInv, [Next]_vars
  PROVE  /\ deployments \in Log /\ deployments' \in Log
         /\ Prefix(deployments, deployments')
         /\ now \in Nat /\ now' \in Nat /\ now <= now'
         /\ HistoryInv'
<1>. Lifetime \in Nat
  BY ConstantsAssumption
<1>1. TypeOK /\ TypeOK' /\ deployments \in Log /\ deployments' \in Log
  BY TypeStep DEF IInv, TypeOK, Log
<1>2. now \in Nat /\ now' \in Nat
  BY <1>1 DEF TypeOK
<1>3. CASE UNCHANGED <<deployments, now>>
  BY <1>1, <1>2, <1>3 DEF Prefix, IInv, HistoryInv, Log
<1>4. ASSUME NEW B, deployments' = Append(deployments, [names |-> B, expiration |-> now + Lifetime]),
             now' = now
      PROVE  Prefix(deployments, deployments') /\ HistoryInv'
  <2>1. /\ Len(deployments) \in Nat
        /\ Len(deployments') = Len(deployments) + 1
        /\ \A i \in 1 .. Len(deployments) : deployments'[i] = deployments[i]
        /\ deployments'[Len(deployments) + 1].expiration = now + Lifetime
    BY <1>1, <1>4 DEF Log
  <2>. QED BY <1>2, <1>4, <2>1 DEF Prefix, IInv, HistoryInv, Ordered
<1>5. CASE Tick
  BY <1>1, <1>2, <1>5 DEF Tick, Prefix, IInv, HistoryInv, Ordered, Log
<1>6. ASSUME NEW t \in Threads, NEW B \in SUBSET OwnNames, Deploy(t, B)
      PROVE  Prefix(deployments, deployments') /\ HistoryInv' /\ now' = now
  BY <1>4, <1>6 DEF Deploy
<1>7. ASSUME NEW n \in ForeignNames, DeployElsewhere(n)
      PROVE  Prefix(deployments, deployments') /\ HistoryInv' /\ now' = now
  BY <1>4, <1>7 DEF DeployElsewhere
<1>8. \/ Tick
      \/ \E t \in Threads, B \in SUBSET OwnNames : Deploy(t, B)
      \/ \E n \in ForeignNames : DeployElsewhere(n)
      \/ UNCHANGED <<deployments, now>>
  BY DEF Next, Step, vars, world, WriteBase, WriteFails, Insert, TellAdded, Register,
         TellRemoved, AllTold, Evict, Scan, Sweep, LookupReservation, DropExpired,
         ReadNetwork, Touch, Fetch, Cache, Request, Answer, ExpireBase, WriteLate
<1>9. Prefix(deployments, deployments') /\ HistoryInv' /\ now <= now'
  BY <1>2, <1>3, <1>5, <1>6, <1>7, <1>8 DEF Tick
<1>. QED BY <1>1, <1>2, <1>9

LEMMA ObjectStep == IInv /\ [Next]_vars => ObjectInv'
<1>. SUFFICES ASSUME IInv, [Next]_vars PROVE ObjectInv'
  OBVIOUS
<1>1. /\ deployments \in Log /\ deployments' \in Log
      /\ Prefix(deployments, deployments') /\ Len(deployments) \in Nat
  BY HistoryStep DEF Log
<1>2. \A n, v, e : LeaseOf(deployments, n, v, e) => LeaseOf(deployments', n, v, e)
  BY <1>1, LeasesGrow
<1>3. CASE UNCHANGED <<deployments, expirationOf>>
  BY <1>3 DEF IInv, ObjectInv
<1>4. ASSUME NEW t \in Threads, NEW B \in SUBSET OwnNames, Deploy(t, B) PROVE ObjectInv'
  <2>1. /\ Len(deployments') = Len(deployments) + 1
        /\ \A i \in 1 .. Len(deployments) : deployments'[i] = deployments[i]
        /\ deployments'[Len(deployments) + 1] = [names |-> B, expiration |-> now + Lifetime]
    BY <1>1, <1>4 DEF Deploy, Log
  <2>2. \A n \in OwnNames : expirationOf'[n] = IF n \in B THEN now + Lifetime ELSE expirationOf[n]
    BY <1>4 DEF Deploy, Renewed, Put, OwnNames
  <2>. SUFFICES ASSUME NEW v \in 1 .. Len(deployments'), NEW n \in OwnNames,
                       n \in deployments'[v].names
                PROVE  LeaseOf(deployments', n, v, expirationOf'[n])
    BY DEF ObjectInv
  <2>3. CASE n \in B
    BY <1>1, <2>1, <2>2, <2>3 DEF LeaseOf, Under
  <2>4. CASE n \notin B
    <3>1. v \in 1 .. Len(deployments) /\ n \in deployments[v].names
      BY <1>1, <2>1, <2>4
    <3>2. LeaseOf(deployments, n, v, expirationOf[n])
      BY <3>1 DEF IInv, ObjectInv
    <3>. QED BY <1>2, <2>2, <2>4, <3>2
  <2>. QED BY <2>3, <2>4
<1>5. ASSUME NEW m \in ForeignNames, DeployElsewhere(m) PROVE ObjectInv'
  <2>1. /\ Len(deployments') = Len(deployments) + 1
        /\ \A i \in 1 .. Len(deployments) : deployments'[i] = deployments[i]
        /\ deployments'[Len(deployments) + 1].names = {m}
        /\ expirationOf' = expirationOf
    BY <1>1, <1>5 DEF DeployElsewhere, Log
  <2>. SUFFICES ASSUME NEW v \in 1 .. Len(deployments'), NEW n \in OwnNames,
                       n \in deployments'[v].names
                PROVE  LeaseOf(deployments', n, v, expirationOf'[n])
    BY DEF ObjectInv
  <2>2. v \in 1 .. Len(deployments) /\ n \in deployments[v].names
    BY <1>1, <2>1 DEF OwnNames
  <2>3. LeaseOf(deployments, n, v, expirationOf[n])
    BY <2>2 DEF IInv, ObjectInv
  <2>. QED BY <1>2, <2>1, <2>3
<1>6. \/ \E t \in Threads, B \in SUBSET OwnNames : Deploy(t, B)
      \/ \E n \in ForeignNames : DeployElsewhere(n)
      \/ UNCHANGED <<deployments, expirationOf>>
  BY DEF Next, Step, vars, world, WriteBase, WriteFails, Insert, TellAdded, Register,
         TellRemoved, AllTold, Evict, Scan, Sweep, LookupReservation, DropExpired,
         ReadNetwork, Touch, Fetch, Cache, Request, Answer, ExpireBase, WriteLate, Tick
<1>. QED BY <1>3, <1>4, <1>5, <1>6

\* What IInv says of the top frame of a stack.
LEMMA TopFits ==
  ASSUME IInv, NEW t \in Threads, depth[t] > 0
  PROVE  /\ depth[t] \in 1 .. MaxDepth
         /\ frames[t] \in Stacks
         /\ Top(t) \in Frame
         /\ FrameFits(deployments, now, Top(t))
         /\ StackFits(deployments, now, depth[t], frames[t])
         /\ depth[t] >= 2 <=> Top(t).kind = "get"
         /\ depth[t] >= 2 => /\ frames[t][depth[t] - 1].name = Top(t).name
                            /\ frames[t][depth[t] - 1].at \in {"register", "recheck"}
         /\ depth[t] = 2 => LookupFits(deployments, frames[t][1], Top(t))
<1>1. /\ MaxDepth \in Nat /\ depth[t] \in 0 .. MaxDepth
      /\ frames[t] \in Stacks
  BY ConstantsAssumption DEF IInv, TypeOK, Stacks
<1>2. depth[t] \in 1 .. depth[t]
  BY <1>1
<1>3. StackFits(deployments, now, depth[t], frames[t])
  BY DEF IInv, StackInv
<1>. QED BY <1>1, <1>2, <1>3 DEF StackFits, Stacks, Top

LEMMA BaseStep == IInv /\ [Next]_vars => BaseInv'
<1>. SUFFICES ASSUME IInv, [Next]_vars PROVE BaseInv'
  OBVIOUS
<1>1. /\ deployments \in Log /\ deployments' \in Log /\ TypeOK
      /\ Prefix(deployments, deployments') /\ Len(deployments) \in Nat
  BY HistoryStep DEF Log, IInv
<1>2. \A n, v, e : LeaseOf(deployments, n, v, e) => LeaseOf(deployments', n, v, e)
  BY <1>1, LeasesGrow
<1>3. CASE base' = base
  BY <1>2, <1>3 DEF IInv, BaseInv
<1>4. ASSUME NEW t \in Threads, NEW n \in Names, WriteBase(t, n) PROVE BaseInv'
  <2>. DEFINE f == Top(t)
  <2>1. FrameFits(deployments, now, f)
    BY <1>4, TopFits DEF WriteBase, At
  <2>2. n \in OwnNames /\ f.net \in 1 .. Len(deployments) /\ n \in deployments[f.net].names
    BY <1>4, <2>1 DEF FrameFits, WriteBase, At
  <2>3. LeaseOf(deployments, n, f.net, expirationOf[n])
    BY <2>2 DEF IInv, ObjectInv
  <2>4. \A m \in Names : m # n => base'[m] = base[m]
    BY <1>1, <1>4 DEF WriteBase, TypeOK
  <2>5. base'[n] = [network |-> f.net, expiration |-> expirationOf[n]]
    BY <1>1, <1>4 DEF WriteBase, TypeOK
  <2>. QED BY <1>2, <2>3, <2>4, <2>5 DEF IInv, BaseInv
<1>5. ASSUME NEW n \in ForeignNames, DeployElsewhere(n) PROVE BaseInv'
  <2>1. /\ Len(deployments') = Len(deployments) + 1
        /\ deployments'[Len(deployments) + 1] = [names |-> {n}, expiration |-> now + Lifetime]
    BY <1>1, <1>5 DEF DeployElsewhere, Log
  <2>2. LeaseOf(deployments', n, Len(deployments) + 1, now + Lifetime)
    BY <1>1, <2>1 DEF LeaseOf, Under
  <2>3. /\ base'[n] = [network |-> Len(deployments) + 1, expiration |-> now + Lifetime]
        /\ \A m \in Names : m # n => base'[m] = base[m]
    BY <1>1, <1>5, ConstantsAssumption DEF DeployElsewhere, NextDeployment, TypeOK
  <2>. QED BY <1>2, <2>2, <2>3 DEF IInv, BaseInv
<1>6. ASSUME NEW n \in Names, ExpireBase(n) PROVE BaseInv'
  <2>1. base'[n] = NoEntry /\ \A m \in Names : m # n => base'[m] = base[m]
    BY <1>1, <1>6 DEF ExpireBase, TypeOK
  <2>. QED BY <1>2, <2>1 DEF IInv, BaseInv
<1>7. ASSUME NEW v \in Networks, NEW n \in Names, WriteLate(v, n) PROVE BaseInv'
  <2>1. n \in OwnNames /\ v \in 1 .. Len(deployments) /\ n \in deployments[v].names
    BY <1>7 DEF IInv, LeftInv, WriteLate
  <2>2. LeaseOf(deployments, n, v, expirationOf[n])
    BY <2>1 DEF IInv, ObjectInv
  <2>3. /\ base'[n] = [network |-> v, expiration |-> expirationOf[n]]
        /\ \A m \in Names : m # n => base'[m] = base[m]
    BY <1>1, <1>7 DEF WriteLate, TypeOK
  <2>. QED BY <1>2, <2>2, <2>3 DEF IInv, BaseInv
<1>8. \/ \E t \in Threads, n \in Names : WriteBase(t, n)
      \/ \E n \in ForeignNames : DeployElsewhere(n)
      \/ \E n \in Names : ExpireBase(n)
      \/ \E v \in Networks, n \in Names : WriteLate(v, n)
      \/ base' = base
  BY DEF Next, Step, vars, world, disk, Deploy, WriteFails, Insert, TellAdded, Register,
         TellRemoved, AllTold, Evict, Scan, Sweep, LookupReservation, DropExpired,
         ReadNetwork, Touch, Fetch, Cache, Request, Answer, Tick
<1>. QED BY <1>3, <1>4, <1>5, <1>6, <1>7, <1>8

LEMMA LeftStep == IInv /\ [Next]_vars => LeftInv'
<1>. SUFFICES ASSUME IInv, [Next]_vars PROVE LeftInv'
  OBVIOUS
<1>. DEFINE Left(D, v, n) == v \in 1 .. Len(D) /\ n \in D[v].names /\ n \in OwnNames
<1>1. TypeOK /\ Prefix(deployments, deployments') /\ Len(deployments) \in Nat
      /\ Len(deployments') \in Nat
  BY HistoryStep DEF IInv, Log
<1>2. \A v \in Networks, n \in Names : Left(deployments, v, n) => Left(deployments', v, n)
  BY <1>1 DEF Prefix
<1>3. \A v \in Networks, n \in Names : leftover[v][n] = "going" => Left(deployments, v, n)
  BY DEF IInv, LeftInv
<1>4. CASE leftover' = leftover
  BY <1>2, <1>3, <1>4 DEF LeftInv
<1>5. ASSUME NEW t \in Threads, WriteFails(t) PROVE LeftInv'
  <2>1. /\ Top(t).net \in 1 .. Len(deployments) /\ Top(t).batch = deployments[Top(t).net].names
        /\ Top(t).todo \subseteq Top(t).batch /\ Top(t).batch \subseteq OwnNames
    BY <1>5, TopFits DEF WriteFails, At, FrameFits
  <2>2. PICK m \in Top(t).todo : leftover' = LeftBehind(Top(t).todo \ {m}, Top(t).net)
    BY <1>5 DEF WriteFails
  <2>. SUFFICES ASSUME NEW v \in Networks, NEW n \in Names, leftover'[v][n] = "going"
                PROVE  Left(deployments', v, n)
    BY DEF LeftInv
  <2>3. CASE v = Top(t).net /\ n \in Top(t).todo
    BY <1>2, <2>1, <2>3
  <2>4. CASE ~(v = Top(t).net /\ n \in Top(t).todo)
    <3>1. leftover[v][n] = "going"
      BY <1>1, <2>2, <2>4 DEF LeftBehind, TypeOK
    <3>. QED BY <1>2, <1>3, <3>1
  <2>. QED BY <2>3, <2>4
<1>6. ASSUME NEW w \in Networks, NEW m \in Names, WriteLate(w, m) PROVE LeftInv'
  <2>. SUFFICES ASSUME NEW v \in Networks, NEW n \in Names, leftover'[v][n] = "going"
                PROVE  Left(deployments', v, n)
    BY DEF LeftInv
  <2>1. leftover[v][n] = "going"
    BY <1>1, <1>6 DEF WriteLate, TypeOK
  <2>. QED BY <1>2, <1>3, <2>1
<1>7. \/ \E t \in Threads : WriteFails(t)
      \/ \E v \in Networks, n \in Names : WriteLate(v, n)
      \/ leftover' = leftover
  BY DEF Next, Step, vars, world, disk, Deploy, WriteBase, Insert, TellAdded, Register,
         TellRemoved, AllTold, Evict, Scan, Sweep, LookupReservation, DropExpired,
         ReadNetwork, Touch, Fetch, Cache, Request, Answer, Tick, DeployElsewhere, ExpireBase
<1>. QED BY <1>4, <1>5, <1>6, <1>7

-----------------------------------------------------------------------------
(* The inductive invariant is kept: the call stacks *)

\* Stacks that a step does not touch.
LEMMA OtherStacks ==
  ASSUME IInv, [Next]_vars, NEW t \in Threads,
         depth'[t] = depth[t], frames'[t] = frames[t]
  PROVE  StackFits(deployments', now', depth'[t], frames'[t])
<1>1. /\ deployments \in Log /\ deployments' \in Log /\ Prefix(deployments, deployments')
      /\ now \in Nat /\ now' \in Nat /\ now <= now'
  BY HistoryStep
<1>2. StackFits(deployments, now, depth[t], frames[t])
  BY DEF IInv, StackInv
<1>3. depth[t] \in 0 .. MaxDepth /\ frames[t] \in Stacks
  BY DEF IInv, TypeOK, Stacks
<1>. QED BY <1>1, <1>2, <1>3, StackGrows

\* A step of one thread keeps the invariant if that thread's stack fits after it.
LEMMA OneStack ==
  ASSUME IInv, [Next]_vars, NEW t \in Threads, NEW k, NEW fs,
         depth' = [depth EXCEPT ![t] = k], frames' = [frames EXCEPT ![t] = fs],
         StackFits(deployments', now', k, fs)
  PROVE  StackInv'
<1>. SUFFICES ASSUME NEW u \in Threads
              PROVE  StackFits(deployments', now', depth'[u], frames'[u])
  BY DEF StackInv
<1>1. CASE u = t
  BY <1>1 DEF IInv, TypeOK
<1>2. CASE u # t
  BY <1>2, OtherStacks DEF IInv, TypeOK
<1>. QED BY <1>1, <1>2

LEMMA StartKeeps ==
  ASSUME IInv, [Next]_vars, NEW t \in Threads, NEW f \in Frame, Start(t, f),
         FrameFits(deployments', now', f), f.kind # "get"
  PROVE  StackInv'
<1>. DEFINE fs == [frames[t] EXCEPT ![1] = f]
<1>1. /\ depth' = [depth EXCEPT ![t] = 1]
      /\ frames' = [frames EXCEPT ![t] = fs]
      /\ fs[1] = f
  BY ConstantsAssumption DEF Start, IInv, TypeOK
<1>2. StackFits(deployments', now', 1, fs)
  BY <1>1 DEF StackFits
<1>. QED BY <1>1, <1>2, OneStack

LEMMA FinishKeeps ==
  ASSUME IInv, [Next]_vars, NEW t \in Threads, Finish(t)
  PROVE  StackInv'
<1>. DEFINE fs == [frames[t] EXCEPT ![1] = NoFrame]
<1>1. /\ depth' = [depth EXCEPT ![t] = 0]
      /\ frames' = [frames EXCEPT ![t] = fs]
  BY DEF Finish, IInv, TypeOK
<1>2. StackFits(deployments', now', 0, fs)
  BY DEF StackFits
<1>. QED BY <1>1, <1>2, OneStack

LEMMA GotoKeeps ==
  ASSUME IInv, [Next]_vars, UNCHANGED world, NEW t \in Threads, depth[t] > 0,
         NEW f \in Frame, Goto(t, f),
         FrameFits(deployments, now, f), f.kind = Top(t).kind, f.kind # "request",
         depth[t] >= 2 => f.name = Top(t).name,
         depth[t] = 2 => LookupFits(deployments, frames[t][1], f)
  PROVE  StackInv'
<1>. DEFINE fs == [frames[t] EXCEPT ![depth[t]] = f]
<1>1. /\ depth' = [depth EXCEPT ![t] = depth[t]]
      /\ frames' = [frames EXCEPT ![t] = fs]
  BY DEF Goto, IInv, TypeOK
<1>2. StackFits(deployments, now, depth[t], fs)
  BY TopFits, StackGoto DEF Top
<1>3. StackFits(deployments', now', depth[t], fs)
  BY <1>2 DEF world
<1>. QED BY <1>1, <1>3, OneStack

LEMMA CallKeeps ==
  ASSUME IInv, [Next]_vars, UNCHANGED world, NEW t \in Threads, depth[t] > 0,
         NEW f \in Frame, NEW n \in Names, Call(t, f, n), f.at = "register", f.name = n,
         FrameFits(deployments, now, f), f.kind = Top(t).kind, f.kind # "request",
         depth[t] >= 2 => f.name = Top(t).name,
         depth[t] = 2 => LookupFits(deployments, frames[t][1], f)
  PROVE  StackInv'
<1>. DEFINE fs == [frames[t] EXCEPT ![depth[t]] = f, ![depth[t] + 1] = Lookup(n)]
<1>1. /\ depth' = [depth EXCEPT ![t] = depth[t] + 1]
      /\ frames' = [frames EXCEPT ![t] = fs]
      /\ depth[t] < MaxDepth
  BY DEF Call, IInv, TypeOK
<1>2. StackFits(deployments, now, depth[t] + 1, fs)
  BY <1>1, TopFits, StackCall DEF Top
<1>3. StackFits(deployments', now', depth[t] + 1, fs)
  BY <1>2 DEF world
<1>. QED BY <1>1, <1>3, OneStack

LEMMA ReturnKeeps ==
  ASSUME IInv, [Next]_vars, UNCHANGED world, NEW t \in Threads, depth[t] > 0,
         NEW v \in Networks, Return(t, v),
         depth[t] = 2 /\ frames[t][1].kind = "request" /\ v # NoNetwork =>
           Fit(deployments, frames[t][1].name, v, frames[t][1].since)
  PROVE  StackInv'
<1>. DEFINE fs == [frames[t] EXCEPT ![depth[t]] = NoFrame, ![depth[t] - 1].got = v]
<1>1. /\ depth' = [depth EXCEPT ![t] = depth[t] - 1]
      /\ frames' = [frames EXCEPT ![t] = fs]
  <2>1. depth' = [depth EXCEPT ![t] = depth[t] - 1]
    BY DEF Return, IInv, TypeOK
  <2>2. frames \in [Threads -> Stacks]
    BY DEF IInv, TypeOK, Stacks
  <2>3. frames' = [frames EXCEPT ![t][depth[t]] = NoFrame, ![t][depth[t] - 1].got = v]
    BY DEF Return
  <2>4. frames' = [frames EXCEPT ![t] = fs]
    BY <2>2, <2>3 DEF Stacks
  <2>. QED BY <2>1, <2>4
<1>2. StackFits(deployments, now, depth[t] - 1, fs)
  BY TopFits, StackReturn
<1>3. StackFits(deployments', now', depth[t] - 1, fs)
  BY <1>2 DEF world
<1>. QED BY <1>1, <1>3, OneStack

\* A frame goes on, or calls, with what it remembers of a network unchanged.
LEMMA GoesOn ==
  ASSUME IInv, NEW t \in Threads, depth[t] > 0, Top(t).at # "recheck",
         NEW f \in Frame, f.at \notin {"write", "cache", "recheck", "read"},
         f.at \in {"lookup", "drop"} => Top(t).at = "lookup",
         f.kind = Top(t).kind, f.net = Top(t).net, f.batch = Top(t).batch,
         f.name \in Top(t).todo \cup {Top(t).name},
         f.todo \subseteq Top(t).todo \cup {Top(t).name}
  PROVE  /\ FrameFits(deployments, now, f)
         /\ f.kind # "request"
         /\ depth[t] >= 2 => f.name = Top(t).name
         /\ depth[t] = 2 => LookupFits(deployments, frames[t][1], f)
<1>1. FrameFits(deployments, now, Top(t)) /\ Top(t) \in Frame
  BY TopFits
<1>2. f.kind # "request"
  BY <1>1 DEF FrameFits
<1>. f.kind = "get" => f.name = Top(t).name
  BY <1>1 DEF FrameFits
<1>3. FrameFits(deployments, now, f)
  BY <1>1, <1>2 DEF FrameFits
<1>4. ASSUME depth[t] = 2 PROVE LookupFits(deployments, frames[t][1], f)
  <2>1. LookupFits(deployments, frames[t][1], Top(t))
    BY <1>4, TopFits
  <2>. QED BY <1>4, <2>1, TopFits DEF LookupFits
<1>. QED BY <1>2, <1>3, <1>4, TopFits

LEMMA StackStep == IInv /\ [Next]_vars => StackInv'
<1>. SUFFICES ASSUME IInv, [Next]_vars PROVE StackInv'
  OBVIOUS
<1>. DEFINE D == deployments
<1>. TypeOK /\ now \in Int /\ MaxDepth \in Nat \ {0} /\ MaxDeployments \in Nat
  BY ConstantsAssumption DEF IInv, TypeOK
<1>1. NoFrame \in Frame /\ NoNetwork \in Networks
  BY DEF NoFrame, Frame, FrameRecord, NoReservation, Reservations, NoTime, NoNetwork, Networks
<1>2. ASSUME NEW t \in Threads, NEW B \in SUBSET OwnNames, Deploy(t, B) PROVE StackInv'
  <2>. DEFINE f == [NoFrame EXCEPT !.kind = "deploy", !.batch = B,
                      !.at = IF HasBase THEN "write" ELSE "insert",
                      !.todo = IF HasBase THEN B ELSE {},
                      !.net = NextDeployment]
  <2>1. /\ D \in Log
        /\ Len(deployments') = NextDeployment /\ NextDeployment \in Networks \ {0}
        /\ deployments'[NextDeployment].names = B
    BY <1>2, HistoryStep DEF Deploy, NextDeployment, Log, Networks
  <2>2. f.kind = "deploy" /\ f.batch = B /\ f.net = NextDeployment /\ f.todo \subseteq B
        /\ f.at # "cache"
    BY DEF NoFrame
  <2>3. f \in Frame
    <3>. DEFINE at == IF HasBase THEN "write" ELSE "insert"
                todo == IF HasBase THEN B ELSE {}
    <3>1. B \in SUBSET Names /\ todo \in SUBSET Names
      BY DEF OwnNames
    <3>2. at \in {"write", "insert"}
      OBVIOUS
    <3>. HIDE DEF at, todo
    <3>3. [NoFrame EXCEPT !.kind = "deploy", !.batch = B, !.at = at,
                          !.todo = todo, !.net = NextDeployment] \in Frame
      BY <1>1, <2>1, <3>1, <3>2 DEF Frame, FrameRecord
    <3>. QED BY <3>3 DEF at, todo
  <2>4. Start(t, f)
    BY <1>2 DEF Deploy
  <2>. HIDE DEF f
  <2>5. FrameFits(deployments', now', f)
    BY <2>1, <2>2 DEF FrameFits, Networks
  <2>. QED BY <2>2, <2>3, <2>4, <2>5, StartKeeps
<1>3. ASSUME NEW t \in Threads, NEW n \in Names, WriteBase(t, n) PROVE StackInv'
  <2>. DEFINE f == [Top(t) EXCEPT !.todo = @ \ {n}]
  <2>1. depth[t] > 0 /\ Top(t).kind = "deploy" /\ Top(t).at = "write"
    BY <1>3 DEF WriteBase, At
  <2>2. Top(t) \in Frame /\ FrameFits(D, now, Top(t)) /\ depth[t] < 2
    BY <2>1, TopFits
  <2>3. f \in Frame
    BY <2>2 DEF Frame, FrameRecord
  <2>4. FrameFits(D, now, f)
    BY <2>1, <2>2 DEF FrameFits, Frame, FrameRecord
  <2>5. f.kind = Top(t).kind /\ f.name = Top(t).name /\ Goto(t, f)
    BY <1>3, <2>2 DEF WriteBase, Frame, FrameRecord
  <2>. HIDE DEF f
  <2>. QED BY <1>3, <2>1, <2>2, <2>3, <2>4, <2>5, GotoKeeps DEF WriteBase
<1>4. ASSUME NEW t \in Threads, WriteFails(t) PROVE StackInv'
  BY <1>4, FinishKeeps DEF WriteFails
<1>5. ASSUME NEW t \in Threads, Insert(t) PROVE StackInv'
  <2>. DEFINE added == {n \in Top(t).batch : agents[n] = NoNetwork}
              f == [Top(t) EXCEPT !.at = IF added = {} THEN "evict" ELSE "tell",
                                  !.todo = added]
  <2>1. depth[t] > 0 /\ Top(t).kind = "deploy"
    BY <1>5 DEF Insert, Written, At
  <2>2. Top(t) \in Frame /\ FrameFits(D, now, Top(t)) /\ depth[t] < 2
    BY <2>1, TopFits
  <2>3. f \in Frame
    BY <2>2 DEF Frame, FrameRecord
  <2>4. FrameFits(D, now, f)
    BY <2>1, <2>2 DEF FrameFits, Frame, FrameRecord
  <2>5. f.kind = Top(t).kind /\ f.name = Top(t).name /\ Goto(t, f)
    BY <1>5, <2>2 DEF Insert, Frame, FrameRecord
  <2>. HIDE DEF f
  <2>. QED BY <1>5, <2>1, <2>2, <2>3, <2>4, <2>5, GotoKeeps DEF Insert
<1>6. ASSUME NEW t \in Threads, NEW n \in Names, TellAdded(t, n) PROVE StackInv'
  <2>. DEFINE f == [Top(t) EXCEPT !.at = "register", !.name = n, !.todo = @ \ {n}]
  <2>1. /\ depth[t] > 0 /\ Top(t) \in Frame
        /\ Top(t).at = "tell" /\ n \in Top(t).todo
    BY <1>6, TopFits DEF TellAdded
  <2>2. f \in Frame
    BY <2>1 DEF Frame, FrameRecord
  <2>3. /\ f.at \notin {"lookup", "drop", "write", "cache", "recheck", "read"}
        /\ f.kind = Top(t).kind
        /\ f.net = Top(t).net /\ f.batch = Top(t).batch
        /\ f.name \in Top(t).todo \cup {Top(t).name}
        /\ f.todo \subseteq Top(t).todo \cup {Top(t).name}
        /\ f.at = "register" /\ f.name = n
    BY <2>1 DEF Frame, FrameRecord
  <2>4. Call(t, f, n) /\ UNCHANGED world
    BY <1>6 DEF TellAdded
  <2>. HIDE DEF f
  <2>. QED BY <2>1, <2>2, <2>3, <2>4, GoesOn, CallKeeps
<1>7. ASSUME NEW t \in Threads, Register(t) PROVE StackInv'
  <2>. DEFINE f == [Top(t) EXCEPT !.at = IF Top(t).todo = {} THEN "evict" ELSE "tell",
                                  !.got = NoNetwork]
  <2>1. /\ depth[t] > 0 /\ Top(t) \in Frame
        /\ Top(t).at = "register"
    BY <1>7, TopFits DEF Register
  <2>2. f \in Frame
    <3>1. \A a \in {"evict", "tell"} : [Top(t) EXCEPT !.at = a, !.got = NoNetwork] \in Frame
      BY <1>1, <2>1 DEF Frame, FrameRecord
    <3>. QED BY <3>1
  <2>3. /\ f.at \notin {"lookup", "drop", "write", "cache", "recheck", "read"}
        /\ f.kind = Top(t).kind
        /\ f.net = Top(t).net /\ f.batch = Top(t).batch
        /\ f.name \in Top(t).todo \cup {Top(t).name}
        /\ f.todo \subseteq Top(t).todo \cup {Top(t).name}
    BY <2>1 DEF Frame, FrameRecord
  <2>4. Goto(t, f) /\ UNCHANGED world
    BY <1>7 DEF Register
  <2>. HIDE DEF f
  <2>. QED BY <2>1, <2>2, <2>3, <2>4, GoesOn, GotoKeeps
<1>8. ASSUME NEW t \in Threads, NEW n \in Names, TellRemoved(t, n) PROVE StackInv'
  <2>. DEFINE f == [Top(t) EXCEPT !.gone = @ \ {n}]
  <2>1. /\ depth[t] > 0 /\ Top(t) \in Frame
        /\ Top(t).at = "untell"
    BY <1>8, TopFits DEF TellRemoved
  <2>2. f \in Frame
    BY <2>1 DEF Frame, FrameRecord
  <2>3. /\ f.at \notin {"lookup", "drop", "write", "cache", "recheck", "read"}
        /\ f.kind = Top(t).kind
        /\ f.net = Top(t).net /\ f.batch = Top(t).batch
        /\ f.name \in Top(t).todo \cup {Top(t).name}
        /\ f.todo \subseteq Top(t).todo \cup {Top(t).name}
    BY <2>1 DEF Frame, FrameRecord
  <2>4. Goto(t, f) /\ UNCHANGED world
    BY <1>8 DEF TellRemoved
  <2>. HIDE DEF f
  <2>. QED BY <2>1, <2>2, <2>3, <2>4, GoesOn, GotoKeeps
<1>9. ASSUME NEW t \in Threads, AllTold(t) PROVE StackInv'
  <2>1. depth[t] > 0 /\ Top(t) \in Frame /\ UNCHANGED world
    BY <1>9, TopFits DEF AllTold
  <2>2. CASE Top(t).kind = "get"
    <3>1. Return(t, Top(t).net) /\ Top(t).net \in Networks
      BY <1>9, <2>1, <2>2 DEF AllTold, Conclude, Frame, FrameRecord
    <3>2. depth[t] = 2 /\ frames[t][1].kind = "request" /\ Top(t).net # NoNetwork =>
            Fit(D, frames[t][1].name, Top(t).net, frames[t][1].since)
      BY <2>1, TopFits DEF LookupFits
    <3>. QED BY <2>1, <3>1, <3>2, ReturnKeeps
  <2>3. CASE Top(t).kind # "get"
    BY <1>9, <2>3, FinishKeeps DEF AllTold, Conclude
  <2>. QED BY <2>2, <2>3
<1>10. ASSUME NEW t \in Threads, Evict(t) PROVE StackInv'
  <2>1. depth[t] > 0 /\ Top(t) \in Frame /\ Top(t).at = "evict" /\ UNCHANGED world
    BY <1>10, TopFits DEF Evict
  <2>2. PICK S \in SUBSET Names : Goto(t, [Top(t) EXCEPT !.at = "untell", !.gone = S])
    <3>1. \A S \in Oldest(Overflow) : S \in SUBSET Names
      BY DEF Oldest, Touched
    <3>. QED BY <1>10, <3>1 DEF Evict
  <2>. DEFINE f == [Top(t) EXCEPT !.at = "untell", !.gone = S]
  <2>3. f \in Frame
    BY <2>1 DEF Frame, FrameRecord
  <2>4. /\ f.at = "untell" /\ f.kind = Top(t).kind
        /\ f.net = Top(t).net /\ f.batch = Top(t).batch
        /\ f.name = Top(t).name /\ f.todo = Top(t).todo
    BY <2>1 DEF Frame, FrameRecord
  <2>. HIDE DEF f
  <2>. QED BY <2>1, <2>2, <2>3, <2>4, GoesOn, GotoKeeps DEF f
<1>11. ASSUME NEW t \in Threads, Scan(t) PROVE StackInv'
  <2>. DEFINE f == [NoFrame EXCEPT !.kind = "sweep", !.at = "sweep", !.gone = ExpiredNames]
  <2>1. f \in Frame
    BY <1>1 DEF Frame, FrameRecord, ExpiredNames
  <2>2. f.kind = "sweep" /\ f.at = "sweep" /\ Start(t, f)
    BY <1>11 DEF Scan, NoFrame
  <2>. HIDE DEF f
  <2>. QED BY <2>1, <2>2, StartKeeps DEF FrameFits
<1>12. ASSUME NEW t \in Threads, Sweep(t) PROVE StackInv'
  <2>. DEFINE f == [Top(t) EXCEPT !.at = "untell"]
  <2>1. /\ depth[t] > 0 /\ Top(t) \in Frame
        /\ Top(t).at = "sweep"
    BY <1>12, TopFits DEF Sweep, At
  <2>2. f \in Frame
    BY <2>1 DEF Frame, FrameRecord
  <2>3. /\ f.at \notin {"lookup", "drop", "write", "cache", "recheck", "read"}
        /\ f.kind = Top(t).kind
        /\ f.net = Top(t).net /\ f.batch = Top(t).batch
        /\ f.name \in Top(t).todo \cup {Top(t).name}
        /\ f.todo \subseteq Top(t).todo \cup {Top(t).name}
    BY <2>1 DEF Frame, FrameRecord
  <2>4. Goto(t, f) /\ UNCHANGED world
    BY <1>12 DEF Sweep
  <2>. HIDE DEF f
  <2>. QED BY <2>1, <2>2, <2>3, <2>4, GoesOn, GotoKeeps
<1>13. ASSUME NEW t \in Threads, DropExpired(t) PROVE StackInv'
  <2>. DEFINE f == [Top(t) EXCEPT !.at = "untell", !.gone = {Top(t).name}]
  <2>1. /\ depth[t] > 0 /\ Top(t) \in Frame
        /\ Top(t).at = "drop" /\ Top(t).kind = "get"
    BY <1>13, TopFits DEF DropExpired, At
  <2>2. f \in Frame
    BY <2>1 DEF Frame, FrameRecord
  <2>3. /\ f.at \notin {"lookup", "drop", "write", "cache", "recheck", "read"}
        /\ f.kind = Top(t).kind
        /\ f.net = Top(t).net /\ f.batch = Top(t).batch
        /\ f.name \in Top(t).todo \cup {Top(t).name}
        /\ f.todo \subseteq Top(t).todo \cup {Top(t).name}
    BY <2>1 DEF Frame, FrameRecord
  <2>4. Goto(t, f) /\ UNCHANGED world
    BY <1>13 DEF DropExpired
  <2>. HIDE DEF f
  <2>. QED BY <2>1, <2>2, <2>3, <2>4, GoesOn, GotoKeeps
<1>14. ASSUME NEW t \in Threads, Cache(t) PROVE StackInv'
  <2>. DEFINE f == [Top(t) EXCEPT !.at = "tell", !.todo = {Top(t).name},
                                  !.res = NoReservation]
  <2>1. /\ depth[t] > 0 /\ Top(t) \in Frame
        /\ Top(t).at = "cache" /\ Top(t).kind = "get" /\ NoReservation \in Reservations
    BY <1>14, TopFits DEF Cache, At, NoReservation, Reservations, NoTime
  <2>2. f \in Frame
    BY <2>1 DEF Frame, FrameRecord
  <2>3. /\ f.at \notin {"lookup", "drop", "write", "cache", "recheck", "read"}
        /\ f.kind = Top(t).kind
        /\ f.net = Top(t).net /\ f.batch = Top(t).batch
        /\ f.name \in Top(t).todo \cup {Top(t).name}
        /\ f.todo \subseteq Top(t).todo \cup {Top(t).name}
    BY <2>1 DEF Frame, FrameRecord
  <2>4. Goto(t, f) /\ UNCHANGED world
    BY <1>14 DEF Cache
  <2>. HIDE DEF f
  <2>. QED BY <2>1, <2>2, <2>3, <2>4, GoesOn, GotoKeeps
<1>15. ASSUME NEW t \in Threads, Touch(t) PROVE StackInv'
  <2>1. depth[t] > 0 /\ Return(t, Top(t).net) /\ UNCHANGED world /\ Top(t).net \in Networks
    BY <1>15, TopFits DEF Touch, At, Frame, FrameRecord
  <2>2. depth[t] = 2 /\ frames[t][1].kind = "request" /\ Top(t).net # NoNetwork =>
          Fit(D, frames[t][1].name, Top(t).net, frames[t][1].since)
    BY <2>1, TopFits DEF LookupFits
  <2>. QED BY <2>1, <2>2, ReturnKeeps
<1>16. ASSUME NEW t \in Threads, LookupReservation(t) PROVE StackInv'
  <2>. DEFINE n == Top(t).name
              r == reservations[n]
  <2>1. /\ depth[t] > 0 /\ Top(t) \in Frame /\ n \in Names /\ Top(t).kind = "get"
        /\ Top(t).at = "lookup" /\ UNCHANGED world
    BY <1>16, TopFits DEF LookupReservation, At, Frame
  <2>2. ASSUME NEW a \in {"drop", "fetch"}, Goto(t, [Top(t) EXCEPT !.at = a]) PROVE StackInv'
    <3>. DEFINE f == [Top(t) EXCEPT !.at = a]
    <3>1. f \in Frame
      BY <2>1 DEF Frame, FrameRecord
    <3>2. /\ f.at = a /\ f.kind = Top(t).kind
          /\ f.net = Top(t).net /\ f.batch = Top(t).batch
          /\ f.name = Top(t).name /\ f.todo = Top(t).todo
      BY <2>1 DEF Frame, FrameRecord
    <3>. HIDE DEF f
    <3>. QED BY <2>1, <2>2, <3>1, <3>2, GoesOn, GotoKeeps DEF f
  <2>3. ASSUME r # NoReservation, ~IsExpired(n, r), Goto(t, [Top(t) EXCEPT !.at = "read"])
        PROVE  StackInv'
    <3>. DEFINE f == [Top(t) EXCEPT !.at = "read"]
    <3>1. f \in Frame
      BY <2>1 DEF Frame, FrameRecord
    <3>2. /\ f.at = "read" /\ f.kind = "get" /\ f.net = Top(t).net
          /\ f.name = n /\ f.todo = Top(t).todo
      BY <2>1 DEF Frame, FrameRecord
    <3>. HIDE DEF f
    <3>3. PICK w \in 1 .. Len(D) : n \in D[w].names /\ D[w].expiration = Expiration(n, r)
      BY <2>1, <2>3 DEF IInv, TablesTogether, LeaseKept, IsLeaseOf, DeployedUnder
    <3>4. Expiration(n, r) \in Int /\ Expiration(n, r) >= now
      BY <2>1, <2>3 DEF Expiration, IsExpired, Reservations, TypeOK
    <3>5. ASSUME depth[t] = 2 PROVE LookupFits(D, frames[t][1], f)
      <4>1. LookupFits(D, frames[t][1], Top(t)) /\ FrameFits(D, now, frames[t][1])
            /\ frames[t][1] \in Frame
        BY <3>5, TopFits DEF StackFits, Stacks
      <4>2. frames[t][1].kind = "request" => frames[t][1].since <= D[w].expiration
        BY <3>3, <3>4, <4>1 DEF FrameFits, Frame, FrameRecord
      <4>3. frames[t][1].kind = "request" => Covers(D, n, 1, frames[t][1].since)
        BY <3>3, <3>4, <4>1, <4>2 DEF Covers, Frame, FrameRecord
      <4>. QED BY <3>2, <4>1, <4>3 DEF LookupFits
    <3>6. FrameFits(D, now, f)
      BY <2>1, <3>2, TopFits DEF FrameFits
    <3>. QED BY <2>1, <2>3, <3>1, <3>2, <3>5, <3>6, GotoKeeps DEF f
  <2>4. ASSUME Return(t, NoNetwork) PROVE StackInv'
    BY <1>1, <2>1, <2>4, ReturnKeeps
  <2>. QED BY <1>16, <2>2, <2>3, <2>4 DEF LookupReservation
<1>17. ASSUME NEW t \in Threads, ReadNetwork(t) PROVE StackInv'
  <2>. DEFINE n == Top(t).name
              v == agents[n]
              f == [Top(t) EXCEPT !.at = "touch", !.net = v]
  <2>1. /\ depth[t] > 0 /\ Top(t) \in Frame /\ n \in Names /\ Top(t).kind = "get"
        /\ Top(t).at = "read" /\ UNCHANGED world
    BY <1>17, TopFits DEF ReadNetwork, At, Frame
  <2>2. ASSUME v # NoNetwork, Goto(t, f) PROVE StackInv'
    <3>1. v \in Networks
      BY <2>1 DEF TypeOK
    <3>2. f \in Frame
      BY <2>1, <3>1 DEF Frame, FrameRecord
    <3>3. f.at = "touch" /\ f.kind = "get" /\ f.net = v /\ f.name = n /\ f.todo = Top(t).todo
      BY <2>1 DEF Frame, FrameRecord
    <3>. HIDE DEF f
    <3>4. Under(D, n, v)
      BY <2>1, <2>2 DEF IInv, LeaseKept, IsLeaseOf, DeployedUnder, Under
    <3>5. ASSUME depth[t] = 2 PROVE LookupFits(D, frames[t][1], f)
      <4>1. LookupFits(D, frames[t][1], Top(t)) /\ frames[t][1] \in Frame
        BY <3>5, TopFits DEF Stacks
      <4>2. ASSUME frames[t][1].kind = "request" PROVE Fit(D, n, v, frames[t][1].since)
        <5>1. Covers(D, n, 1, frames[t][1].since) /\ frames[t][1].since \in Int
          BY <2>1, <4>1, <4>2 DEF LookupFits, Frame, FrameRecord
        <5>. QED BY <3>4, <5>1, AnyLeaseFits, HistoryStep DEF IInv, HistoryInv
      <4>. QED BY <3>3, <4>1, <4>2 DEF LookupFits
    <3>6. FrameFits(D, now, f)
      BY <2>1, <3>3, TopFits DEF FrameFits
    <3>. QED BY <2>1, <2>2, <3>2, <3>3, <3>5, <3>6, GotoKeeps
  <2>3. ASSUME Return(t, NoNetwork) PROVE StackInv'
    BY <1>1, <2>1, <2>3, ReturnKeeps
  <2>. QED BY <1>17, <2>2, <2>3 DEF ReadNetwork
<1>18. ASSUME NEW t \in Threads, Fetch(t) PROVE StackInv'
  <2>. DEFINE n == Top(t).name
              e == base[n]
              f == [Top(t) EXCEPT !.at = "cache", !.net = e.network,
                                  !.res = Copy(e.expiration)]
  <2>1. /\ depth[t] > 0 /\ Top(t) \in Frame /\ n \in Names /\ Top(t).kind = "get"
        /\ Top(t).at = "fetch" /\ UNCHANGED world
        /\ e \in [network : Networks, expiration : Int]
    BY <1>18, TopFits DEF Fetch, At, Frame, TypeOK
  <2>2. ASSUME Usable(e), Goto(t, f) PROVE StackInv'
    <3>1. Copy(e.expiration) \in Reservations /\ Copy(e.expiration).expiration = e.expiration
      BY <2>1 DEF Copy, Reservations
    <3>2. f \in Frame
      BY <2>1, <3>1 DEF Frame, FrameRecord
    <3>3. /\ f.at = "cache" /\ f.kind = "get" /\ f.net = e.network /\ f.name = n
          /\ f.todo = Top(t).todo /\ f.res = Copy(e.expiration)
      BY <2>1 DEF Frame, FrameRecord
    <3>. HIDE DEF f
    <3>4. LeaseOf(D, n, e.network, e.expiration)
      BY <2>1, <2>2 DEF IInv, BaseInv, Usable
    <3>5. ASSUME depth[t] = 2 PROVE LookupFits(D, frames[t][1], f)
      <4>1. LookupFits(D, frames[t][1], Top(t)) /\ FrameFits(D, now, frames[t][1])
            /\ frames[t][1] \in Frame
        BY <3>5, TopFits DEF StackFits, Stacks
      <4>2. ASSUME frames[t][1].kind = "request" PROVE Fit(D, n, e.network, frames[t][1].since)
        <5>1. frames[t][1].since <= e.expiration /\ frames[t][1].since \in Int
          BY <2>1, <2>2, <4>1, <4>2 DEF FrameFits, Usable, Frame, FrameRecord
        <5>. QED BY <2>1, <3>4, <5>1, LeaseFits, HistoryStep
      <4>. QED BY <3>3, <4>1, <4>2 DEF LookupFits
    <3>6. FrameFits(D, now, f)
      BY <2>1, <3>1, <3>3, <3>4, TopFits DEF FrameFits
    <3>. QED BY <2>1, <2>2, <3>2, <3>3, <3>5, <3>6, GotoKeeps
  <2>3. ASSUME Return(t, NoNetwork) PROVE StackInv'
    BY <1>1, <2>1, <2>3, ReturnKeeps
  <2>. QED BY <1>18, <2>2, <2>3 DEF Fetch
<1>19. ASSUME NEW t \in Threads, NEW n \in Names, Request(t, n) PROVE StackInv'
  <2>. DEFINE q == [NoFrame EXCEPT !.kind = "request", !.at = "recheck",
                                   !.name = n, !.since = now]
              fs == [frames[t] EXCEPT ![1] = q, ![2] = Lookup(n)]
  <2>1. /\ depth' = [depth EXCEPT ![t] = 2] /\ UNCHANGED world /\ MaxDepth >= 2
        /\ frames' = [frames EXCEPT ![t] = fs]
    BY <1>19 DEF Request, TypeOK
  <2>2. fs[1] = q /\ fs[2] = Lookup(n)
    BY <2>1 DEF TypeOK
  <2>3. /\ q.kind = "request" /\ q.at = "recheck" /\ q.name = n /\ q.since = now
        /\ q.got = NoNetwork
        /\ Lookup(n).kind = "get" /\ Lookup(n).at = "lookup" /\ Lookup(n).name = n
        /\ Lookup(n).todo = {} /\ Lookup(n).net = NoNetwork
    BY DEF NoFrame, Lookup
  <2>. HIDE DEF q, fs
  <2>4. StackFits(D, now, 2, fs)
    BY <2>2, <2>3 DEF StackFits, FrameFits, LookupFits
  <2>5. StackFits(deployments', now', 2, fs)
    BY <2>1, <2>4 DEF world
  <2>. QED BY <2>1, <2>5, OneStack
<1>20. ASSUME NEW t \in Threads, Answer(t) PROVE StackInv'
  BY <1>20, FinishKeeps DEF Answer
<1>21. CASE UNCHANGED <<depth, frames>>
  BY <1>21, OtherStacks DEF StackInv
<1>22. \/ Tick
       \/ \E n \in ForeignNames : DeployElsewhere(n)
       \/ \E n \in Names : ExpireBase(n)
       \/ \E v \in Networks, n \in Names : WriteLate(v, n)
       \/ UNCHANGED vars
       => UNCHANGED <<depth, frames>>
  BY DEF Tick, DeployElsewhere, ExpireBase, WriteLate, vars
<1>. QED
  BY <1>2, <1>3, <1>4, <1>5, <1>6, <1>7, <1>8, <1>9, <1>10, <1>11, <1>12, <1>13, <1>14,
     <1>15, <1>16, <1>17, <1>18, <1>19, <1>20, <1>21, <1>22
  DEF Next, Step

-----------------------------------------------------------------------------
(* The inductive invariant is kept: the tables *)

\* The steps that change a table, and what they do to all three.
LEMMA StorageSteps ==
  ASSUME IInv, [Next]_vars
  PROVE  \/ UNCHANGED <<reservations, agents, accessTimes>>
         \/ \E S : Remove(S)
         \/ \E t \in Threads : Insert(t) \/ Touch(t) \/ Cache(t)
<1>1. ASSUME NEW t \in Threads, NEW n \in Names,
             WriteBase(t, n) \/ TellAdded(t, n) \/ Request(t, n)
      PROVE  UNCHANGED <<reservations, agents, accessTimes>>
  BY <1>1 DEF WriteBase, TellAdded, Request, storage
<1>2. ASSUME NEW n \in Names,
             DeployElsewhere(n) \/ ExpireBase(n) \/ \E v \in Networks : WriteLate(v, n)
      PROVE  UNCHANGED <<reservations, agents, accessTimes>>
  BY <1>2 DEF DeployElsewhere, ExpireBase, WriteLate, storage
<1>3. ASSUME NEW t \in Threads,
             \/ WriteFails(t) \/ Scan(t) \/ Register(t) \/ AllTold(t) \/ LookupReservation(t)
             \/ ReadNetwork(t) \/ Fetch(t) \/ Answer(t)
             \/ \E B \in SUBSET OwnNames : Deploy(t, B)
      PROVE  UNCHANGED <<reservations, agents, accessTimes>>
  <2>1. CASE WriteFails(t) \/ Scan(t) \/ Register(t) \/ AllTold(t)
    BY <2>1 DEF WriteFails, Scan, Register, AllTold, storage
  <2>2. CASE LookupReservation(t) \/ ReadNetwork(t) \/ Fetch(t) \/ Answer(t)
    BY <2>2 DEF LookupReservation, ReadNetwork, Fetch, Answer, storage
  <2>3. CASE \E B \in SUBSET OwnNames : Deploy(t, B)
    BY <2>3 DEF Deploy, storage
  <2>. QED BY <1>3, <2>1, <2>2, <2>3
<1>4. ASSUME NEW t \in Threads,
             \/ Evict(t) \/ Sweep(t) \/ DropExpired(t)
             \/ \E n \in Names : TellRemoved(t, n)
      PROVE  \/ UNCHANGED <<reservations, agents, accessTimes>>
             \/ \E S : Remove(S)
  BY <1>4 DEF Evict, Sweep, DropExpired, TellRemoved, storage
<1>5. Tick \/ UNCHANGED vars => UNCHANGED <<reservations, agents, accessTimes>>
  BY DEF Tick, vars, storage
<1>. QED BY <1>1, <1>2, <1>3, <1>4, <1>5, ConstantsAssumption DEF Next, Step

\* What the two steps that fill the tables put there.
LEMMA InsertFills ==
  ASSUME IInv, NEW t \in Threads, Insert(t)
  PROVE  /\ UNCHANGED world
         /\ Top(t).net \in 1 .. Len(deployments) /\ Top(t).net # NoNetwork
         /\ Top(t).batch = deployments[Top(t).net].names /\ Top(t).batch \subseteq OwnNames
         /\ \A n \in Names : n \in Top(t).batch =>
              agents'[n] = Top(t).net /\ reservations'[n] = OwnReservation /\ accessTimes'[n] = now
         /\ \A n \in Names : n \notin Top(t).batch =>
              agents'[n] = agents[n] /\ reservations'[n] = reservations[n]
              /\ accessTimes'[n] = accessTimes[n]
<1>1. FrameFits(deployments, now, Top(t)) /\ Top(t).kind = "deploy"
  BY TopFits DEF Insert, Written, At
<1>2. Len(deployments) \in Nat
  BY DEF IInv, TypeOK
<1>3. UNCHANGED world /\ agents' = Filled(Top(t).batch, Top(t).net)
      /\ reservations' = Reserved(Top(t).batch) /\ accessTimes' = Put(accessTimes, Top(t).batch, now)
  BY DEF Insert
<1>. QED BY <1>1, <1>2, <1>3 DEF FrameFits, Filled, Reserved, Put, NoNetwork

LEMMA CacheFills ==
  ASSUME IInv, NEW t \in Threads, Cache(t)
  PROVE  /\ UNCHANGED world
         /\ LeaseOf(deployments, Top(t).name, Top(t).net, Top(t).res.expiration)
         /\ Top(t).net # NoNetwork /\ Top(t).res # NoReservation /\ ~Top(t).res.own
         /\ Top(t).name \in Names
         /\ agents' = [agents EXCEPT ![Top(t).name] = Top(t).net]
         /\ reservations' = [reservations EXCEPT ![Top(t).name] = Top(t).res]
         /\ accessTimes' = [accessTimes EXCEPT ![Top(t).name] = now]
<1>1. /\ FrameFits(deployments, now, Top(t)) /\ Top(t).at = "cache"
      /\ Top(t).name \in Names
  BY TopFits DEF Cache, At, Frame
<1>2. /\ Top(t).res = Copy(Top(t).res.expiration)
      /\ LeaseOf(deployments, Top(t).name, Top(t).net, Top(t).res.expiration)
  BY <1>1 DEF FrameFits
<1>3. Top(t).net \in 1 .. Len(deployments)
      /\ \E w \in 1 .. Len(deployments) : deployments[w].expiration = Top(t).res.expiration
  BY <1>2 DEF LeaseOf, Under
<1>4. Top(t).net # NoNetwork /\ Top(t).res.expiration \in Nat
  BY <1>3 DEF IInv, HistoryInv, Ordered, NoNetwork
<1>5. Top(t).res # NoReservation /\ ~Top(t).res.own
  BY <1>2, <1>4 DEF Copy, NoReservation, NoTime
<1>. QED BY <1>1, <1>2, <1>4, <1>5 DEF Cache, Cached

\* A removal takes the names out of all three tables.
LEMMA RemoveEmpties ==
  ASSUME NEW S, Remove(S), NEW n \in Names
  PROVE  /\ n \in S => /\ agents'[n] = NoNetwork /\ reservations'[n] = NoReservation
                       /\ accessTimes'[n] = NoTime
         /\ n \notin S => /\ agents'[n] = agents[n] /\ reservations'[n] = reservations[n]
                          /\ accessTimes'[n] = accessTimes[n]
BY DEF Remove, ReservationsWithout, Put

LEMMA TablesStep == IInv /\ [Next]_vars => TablesTogether'
<1>. SUFFICES ASSUME IInv, [Next]_vars PROVE TablesTogether'
  OBVIOUS
<1>. TypeOK /\ TablesTogether /\ now \in Nat
  BY DEF IInv, TypeOK
<1>1. CASE UNCHANGED <<reservations, agents, accessTimes>>
  BY <1>1 DEF TablesTogether
<1>2. ASSUME NEW S, Remove(S) PROVE TablesTogether'
  BY <1>2, RemoveEmpties DEF TablesTogether
<1>3. ASSUME NEW t \in Threads, Insert(t) PROVE TablesTogether'
  <2>1. OwnReservation # NoReservation /\ now # NoTime
    BY DEF OwnReservation, NoReservation, NoTime
  <2>. QED BY <1>3, <2>1, InsertFills DEF TablesTogether
<1>4. ASSUME NEW t \in Threads, Touch(t) PROVE TablesTogether'
  BY <1>4 DEF Touch, TablesTogether, NoTime, TypeOK
<1>5. ASSUME NEW t \in Threads, Cache(t) PROVE TablesTogether'
  <2>1. now # NoTime
    BY DEF NoTime
  <2>. QED BY <1>5, <2>1, CacheFills DEF TablesTogether, TypeOK
<1>. QED BY <1>1, <1>2, <1>3, <1>4, <1>5, StorageSteps

LEMMA LeaseStep == IInv /\ [Next]_vars => LeaseKept'
<1>. SUFFICES ASSUME IInv, [Next]_vars, NEW n \in Names, agents'[n] # NoNetwork
              PROVE  LeaseOf(deployments', n, agents'[n],
                             IF reservations'[n].own THEN expirationOf'[n]
                             ELSE reservations'[n].expiration)
  BY DEF LeaseKept, IsLeaseOf, DeployedUnder, LeaseOf, Under, Expiration
<1>. DEFINE e == IF reservations[n].own THEN expirationOf[n] ELSE reservations[n].expiration
<1>. TypeOK
  BY DEF IInv
<1>1. agents[n] # NoNetwork => LeaseOf(deployments, n, agents[n], e)
  BY DEF IInv, LeaseKept, IsLeaseOf, DeployedUnder, LeaseOf, Under, Expiration
<1>2. deployments \in Log /\ deployments' \in Log /\ Prefix(deployments, deployments')
  BY HistoryStep
<1>3. \A v, x : LeaseOf(deployments, n, v, x) => LeaseOf(deployments', n, v, x)
  BY <1>2, LeasesGrow
<1>4. CASE UNCHANGED <<agents, reservations>>
  <2>1. agents[n] # NoNetwork
    BY <1>4
  <2>2. CASE expirationOf'[n] = expirationOf[n]
    BY <1>1, <1>3, <1>4, <2>1, <2>2
  <2>3. CASE expirationOf'[n] # expirationOf[n]
    <3>1. PICK t \in Threads, B \in SUBSET OwnNames : Deploy(t, B)
      BY <2>3 DEF Next, Step, vars, world, WriteBase, WriteFails, Insert, TellAdded, Register,
         TellRemoved, AllTold, Evict, Scan, Sweep, LookupReservation, DropExpired, ReadNetwork,
         Touch, Fetch, Cache, Request, Answer, ExpireBase, WriteLate, Tick, DeployElsewhere
    <3>2. n \in B /\ expirationOf'[n] = now + Lifetime
      BY <2>3, <3>1 DEF Deploy, Renewed, Put, TypeOK
    <3>3. /\ Len(deployments) \in Nat /\ Len(deployments') = Len(deployments) + 1
          /\ deployments'[Len(deployments) + 1] = [names |-> B, expiration |-> now + Lifetime]
      BY <1>2, <3>1 DEF Deploy, Log
    <3>4. Under(deployments', n, agents[n]) /\ agents[n] \in 1 .. Len(deployments)
      BY <1>1, <1>3, <2>1 DEF LeaseOf, Under
    <3>5. LeaseOf(deployments', n, agents[n], now + Lifetime)
      BY <3>2, <3>3, <3>4 DEF LeaseOf
    <3>. QED BY <1>1, <1>3, <1>4, <2>1, <3>2, <3>5
  <2>. QED BY <2>2, <2>3
<1>5. ASSUME agents'[n] = agents[n], reservations'[n] = reservations[n], UNCHANGED world
      PROVE  LeaseOf(deployments', n, agents'[n],
                     IF reservations'[n].own THEN expirationOf'[n]
                     ELSE reservations'[n].expiration)
  BY <1>1, <1>3, <1>5 DEF world
<1>6. ASSUME NEW S, Remove(S), UNCHANGED world
      PROVE  agents'[n] = agents[n] /\ reservations'[n] = reservations[n]
  BY <1>6, RemoveEmpties
<1>7. ASSUME NEW t \in Threads, Insert(t), n \in Top(t).batch
      PROVE  LeaseOf(deployments', n, agents'[n],
                     IF reservations'[n].own THEN expirationOf'[n]
                     ELSE reservations'[n].expiration)
  <2>1. LeaseOf(deployments, n, Top(t).net, expirationOf[n])
    BY <1>7, InsertFills DEF IInv, ObjectInv
  <2>2. /\ agents'[n] = Top(t).net /\ reservations'[n].own
        /\ expirationOf' = expirationOf
    BY <1>7, InsertFills DEF OwnReservation, world
  <2>. QED BY <1>3, <2>1, <2>2
<1>8. ASSUME NEW t \in Threads, Cache(t), n = Top(t).name
      PROVE  LeaseOf(deployments', n, agents'[n],
                     IF reservations'[n].own THEN expirationOf'[n]
                     ELSE reservations'[n].expiration)
  <2>1. agents'[n] = Top(t).net /\ reservations'[n] = Top(t).res
    BY <1>8, CacheFills DEF TypeOK
  <2>. QED BY <1>3, <1>8, <2>1, CacheFills
<1>9. ASSUME NEW t \in Threads, Cache(t), n # Top(t).name
      PROVE  agents'[n] = agents[n] /\ reservations'[n] = reservations[n]
  BY <1>9, CacheFills DEF TypeOK
<1>10. \/ UNCHANGED <<reservations, agents>>
       \/ \E S : Remove(S) /\ UNCHANGED world
       \/ \E t \in Threads : Insert(t) \/ Cache(t)
  BY DEF Next, Step, vars, world, storage, Deploy, WriteBase, WriteFails, TellAdded, Register,
       TellRemoved, AllTold, Evict, Scan, Sweep, LookupReservation, DropExpired,
       ReadNetwork, Touch, Fetch, Request, Answer, Tick, DeployElsewhere, ExpireBase, WriteLate
<1>11. ASSUME NEW t \in Threads, Insert(t), n \notin Top(t).batch
       PROVE  agents'[n] = agents[n] /\ reservations'[n] = reservations[n]
  BY <1>11, InsertFills
<1>. QED BY <1>4, <1>5, <1>6, <1>7, <1>8, <1>9, <1>10, <1>11, InsertFills, CacheFills

-----------------------------------------------------------------------------
(* The theorems *)

LEMMA InvInit == Init => IInv
<1>. SUFFICES ASSUME Init PROVE IInv
  OBVIOUS
<1>1. TypeOK
  BY TypeInit
<1>2. Len(deployments) = 0 /\ \A t \in Threads : depth[t] = 0
  BY DEF Init
<1>3. HistoryInv /\ ObjectInv /\ StackInv
  BY <1>2 DEF HistoryInv, Ordered, ObjectInv, StackInv, StackFits
<1>4. BaseInv /\ LeftInv /\ TablesTogether /\ LeaseKept
  BY DEF Init, BaseInv, LeftInv, TablesTogether, LeaseKept
<1>. QED BY <1>1, <1>3, <1>4 DEF IInv

LEMMA InvStep == IInv /\ [Next]_vars => IInv'
<1>. SUFFICES ASSUME IInv, [Next]_vars PROVE IInv'
  OBVIOUS
<1>1. TypeOK'
  BY TypeStep DEF IInv
<1>. QED BY <1>1, HistoryStep, ObjectStep, BaseStep, LeftStep, StackStep, TablesStep, LeaseStep DEF IInv

\* The inductive invariant holds of every behaviour.
THEOREM Inductive == Spec => []IInv
BY InvInit, InvStep, PTL DEF Spec

\* A network, its reservation and its access time are stored and removed together,
\* however deployments, lookups, expiration and eviction interleave.
THEOREM TablesAlwaysTogether == Spec => []TablesTogether
<1>1. IInv => TablesTogether
  BY DEF IInv
<1>. QED BY <1>1, Inductive, PTL

\* Every stored network has a lease its own or a later deployment gave its name.
THEOREM LeaseAlwaysKept == Spec => []LeaseKept
<1>1. IInv => LeaseKept
  BY DEF IInv
<1>. QED BY <1>1, Inductive, PTL

\* Every lookup a request makes is answered with nothing or with a network deployed
\* under the name asked for, whose lease lasted to the beginning of the request.
THEOREM AnswersAlwaysLeased == Spec => []AnswersAreLeased
<1>1. IInv => AnswersAreLeased
  <2>. SUFFICES ASSUME IInv, NEW t \in Threads, At(t, "request", "recheck"),
                       Top(t).got # NoNetwork
                PROVE  Fit(deployments, Top(t).name, Top(t).got, Top(t).since)
    BY DEF AnswersAreLeased, Fit, Under, Covers, DeployedUnder, LeaseCovers
  <2>. QED BY TopFits DEF At, FrameFits
<1>. QED BY <1>1, Inductive, PTL

-----------------------------------------------------------------------------
(* Spec implements NetworkLeases *)

\* A step gives thread t the stack fs of k frames.
Restacks(t, k, fs) ==
  /\ depth' = [depth EXCEPT ![t] = k]
  /\ frames' = [frames EXCEPT ![t] = fs]

\* On it, no lookup but the one in frame e is seen to have changed.
Hides(t, k, fs, e) ==
  \A d \in 2 .. MaxDepth : d # e =>
    LookupIn(k, fs, d) = LookupIn(depth[t], frames[t], d)

\* What is seen of the lookup c becomes x, and nothing else of any lookup.
Shown(c, x) == Lookups' = [Lookups EXCEPT ![c] = x]

\* One thread's step changes what is seen of one of its lookups at most.
LEMMA OneLookup ==
  ASSUME IInv, NEW t \in Threads, NEW k, NEW fs, NEW e \in 2 .. MaxDepth,
         Restacks(t, k, fs), Hides(t, k, fs, e)
  PROVE  /\ <<t, e>> \in Clients
         /\ Shown(<<t, e>>, LookupIn(k, fs, e))
<1>. DEFINE new == [Lookups EXCEPT ![<<t, e>>] = LookupIn(k, fs, e)]
<1>1. <<t, e>> \in Clients
  BY DEF Clients
<1>2. /\ \A u \in Threads : u # t => depth'[u] = depth[u] /\ frames'[u] = frames[u]
      /\ depth'[t] = k /\ frames'[t] = fs
  BY DEF IInv, TypeOK, Restacks
<1>3. ASSUME NEW u \in Threads, NEW d \in 2 .. MaxDepth
      PROVE  LookupIn(depth'[u], frames'[u], d) = new[<<u, d>>]
  <2>1. <<u, d>> \in Clients /\ Lookups[<<u, d>>] = LookupIn(depth[u], frames[u], d)
    BY DEF Clients, Lookups
  <2>2. CASE u = t /\ d = e
    <3>1. new[<<u, d>>] = LookupIn(k, fs, e)
      BY <1>1, <2>2 DEF Lookups
    <3>. QED BY <1>2, <2>2, <3>1
  <2>3. CASE u # t \/ d # e
    <3>1. new[<<u, d>>] = Lookups[<<u, d>>]
      BY <2>1, <2>3 DEF Lookups
    <3>2. LookupIn(depth'[u], frames'[u], d) = LookupIn(depth[u], frames[u], d)
      BY <1>2, <2>3 DEF Hides
    <3>. QED BY <2>1, <3>1, <3>2
  <2>. QED BY <2>2, <2>3
<1>4. Lookups' = [c \in Clients |-> new[c]]
  <2>1. \A c \in Clients : /\ c[1] \in Threads /\ c[2] \in 2 .. MaxDepth
                           /\ c = <<c[1], c[2]>>
    BY DEF Clients
  <2>2. \A c \in Clients : LookupIn(depth'[c[1]], frames'[c[1]], c[2]) = new[c]
    BY <1>3, <2>1
  <2>. HIDE DEF new
  <2>. QED BY <2>2 DEF Lookups
<1>5. new = [c \in Clients |-> new[c]]
  BY DEF Lookups
<1>. QED BY <1>1, <1>4, <1>5 DEF Shown

LEMMA Unseen ==
  ASSUME IInv, NEW t \in Threads, NEW k, NEW fs,
         Restacks(t, k, fs), Hides(t, k, fs, 1)
  PROVE  Lookups' = Lookups
<1>1. /\ \A u \in Threads : u # t => depth'[u] = depth[u] /\ frames'[u] = frames[u]
      /\ depth'[t] = k /\ frames'[t] = fs
  BY DEF IInv, TypeOK, Restacks
<1>2. \A u \in Threads, d \in 2 .. MaxDepth :
        LookupIn(depth'[u], frames'[u], d) = LookupIn(depth[u], frames[u], d)
  BY <1>1 DEF Hides
<1>3. \A c \in Clients : LookupIn(depth'[c[1]], frames'[c[1]], c[2])
                         = LookupIn(depth[c[1]], frames[c[1]], c[2])
  BY <1>2 DEF Clients
<1>. QED BY <1>3 DEF Lookups

\* The caller of the lookup that runs.
Asker(t) == frames[t][depth[t] - 1]

\* A lookup that goes on shows what its frame has become.
LEMMA GotoShows ==
  ASSUME IInv, NEW t \in Threads, depth[t] > 0, NEW f \in Frame, Goto(t, f),
         Top(t).at \notin {"register", "recheck"}, f.at \notin {"register", "recheck"},
         f.name = Top(t).name
  PROVE  /\ depth[t] = 1 => Lookups' = Lookups
         /\ depth[t] >= 2 =>
              /\ <<t, depth[t]>> \in Clients
              /\ Lookups[<<t, depth[t]>>] = Underway(Asker(t), Top(t))
              /\ Shown(<<t, depth[t]>>, Underway(Asker(t), f))
<1>. DEFINE k == depth[t]
            fs == [frames[t] EXCEPT ![k] = f]
<1>1. Restacks(t, k, fs)
  BY DEF Goto, Restacks, IInv, TypeOK
<1>2. k \in 1 .. MaxDepth /\ frames[t] \in Stacks /\ MaxDepth \in Nat
  BY TopFits, ConstantsAssumption
<1>3. /\ fs[k] = f /\ frames[t][k] = Top(t)
      /\ \A d \in 1 .. MaxDepth : d # k => fs[d] = frames[t][d]
  BY <1>2 DEF Stacks, Top
<1>. HIDE DEF fs
<1>4. Hides(t, k, fs, k)
  <2>. SUFFICES ASSUME NEW d \in 2 .. MaxDepth, d # k
                PROVE  LookupIn(k, fs, d) = LookupIn(k, frames[t], d)
    BY DEF Hides
  <2>1. CASE d < k
    BY <1>2, <1>3, <2>1 DEF LookupIn
  <2>2. CASE d = k + 1
    BY <1>2, <1>3, <2>2 DEF LookupIn
  <2>3. CASE d > k + 1
    BY <1>2, <2>3 DEF LookupIn
  <2>. QED BY <1>2, <2>1, <2>2, <2>3
<1>5. CASE k = 1
  <2>1. Hides(t, k, fs, 1)
    BY <1>4, <1>5 DEF Hides
  <2>. QED BY <1>1, <1>5, <2>1, Unseen
<1>6. CASE k >= 2
  <2>1. k \in 2 .. MaxDepth
    BY <1>2, <1>6
  <2>2. /\ <<t, k>> \in Clients
        /\ Shown(<<t, k>>, LookupIn(k, fs, k))
    BY <1>1, <1>4, <2>1, OneLookup
  <2>3. Lookups[<<t, k>>] = LookupIn(k, frames[t], k)
    BY <2>2 DEF Lookups
  <2>4. /\ LookupIn(k, frames[t], k) = Underway(Asker(t), Top(t))
        /\ LookupIn(k, fs, k) = Underway(Asker(t), f)
    BY <1>2, <1>3, <2>1 DEF LookupIn, Asker
  <2>. QED BY <1>6, <2>2, <2>3, <2>4
<1>. QED BY <1>2, <1>5, <1>6

\* Most steps of a lookup are nobody's business.
LEMMA GotoUnseen ==
  ASSUME IInv, NEW t \in Threads, depth[t] > 0, NEW f \in Frame, Goto(t, f),
         Top(t).at \notin {"register", "recheck"}, f.at \notin {"register", "recheck"},
         f.name = Top(t).name, StatusOf(f) = StatusOf(Top(t)), FoundBy(f) = FoundBy(Top(t))
  PROVE  Lookups' = Lookups
<1>1. depth[t] \in Nat \ {0}
  BY TopFits, ConstantsAssumption
<1>2. CASE depth[t] = 1
  BY <1>2, GotoShows
<1>3. CASE depth[t] >= 2
  <2>. DEFINE c == <<t, depth[t]>>
  <2>1. /\ c \in Clients /\ Lookups[c] = Underway(Asker(t), Top(t))
        /\ Shown(c, Underway(Asker(t), f))
    BY <1>3, GotoShows
  <2>2. Underway(Asker(t), f) = Lookups[c]
    BY <2>1, Zenon DEF Underway
  <2>3. Lookups = [Lookups EXCEPT ![c] = Lookups[c]]
    BY DEF Lookups
  <2>. QED BY <2>1, <2>2, <2>3 DEF Shown
<1>. QED BY <1>1, <1>2, <1>3

\* A lookup that returns leaves its answer with its caller.
LEMMA ReturnShows ==
  ASSUME IInv, NEW t \in Threads, depth[t] > 0, Top(t).kind = "get",
         Top(t).at \notin {"register", "recheck"}, NEW v \in Networks, Return(t, v)
  PROVE  /\ <<t, depth[t]>> \in Clients
         /\ Lookups[<<t, depth[t]>>] = Underway(Asker(t), Top(t))
         /\ Shown(<<t, depth[t]>>, [status |-> "answered", name |-> Top(t).name,
                                    since |-> Since(Asker(t)), net |-> v])
<1>. DEFINE k == depth[t]
            fs == [frames[t] EXCEPT ![k] = NoFrame, ![k - 1].got = v]
<1>1. Restacks(t, k - 1, fs)
  <2>1. depth' = [depth EXCEPT ![t] = k - 1]
    BY DEF Return, IInv, TypeOK
  <2>2. frames \in [Threads -> Stacks]
    BY DEF IInv, TypeOK, Stacks
  <2>3. frames' = [frames EXCEPT ![t][k] = NoFrame, ![t][k - 1].got = v]
    BY DEF Return
  <2>4. frames' = [frames EXCEPT ![t] = fs]
    BY <2>2, <2>3 DEF Stacks
  <2>. QED BY <2>1, <2>4 DEF Restacks
<1>2. /\ k \in 2 .. MaxDepth /\ frames[t] \in Stacks /\ MaxDepth \in Nat
      /\ Asker(t).name = Top(t).name /\ Asker(t).at \in {"register", "recheck"}
  BY TopFits, ConstantsAssumption DEF Asker
<1>3. /\ fs[k - 1] = [Asker(t) EXCEPT !.got = v] /\ frames[t][k] = Top(t)
      /\ \A d \in 1 .. MaxDepth : d # k /\ d # k - 1 => fs[d] = frames[t][d]
  BY <1>2 DEF Stacks, Top, Asker
<1>. HIDE DEF fs
<1>4. Asker(t) \in Frame /\ frames[t][k - 1] = Asker(t)
  BY <1>2 DEF Stacks, Asker
<1>5. /\ fs[k - 1].name = Top(t).name /\ fs[k - 1].at \in {"register", "recheck"}
      /\ fs[k - 1].got = v /\ fs[k - 1].net = Asker(t).net
      /\ fs[k - 1].at = Asker(t).at /\ Since(fs[k - 1]) = Since(Asker(t))
  BY <1>2, <1>3, <1>4 DEF Frame, FrameRecord, Since
<1>6. Hides(t, k - 1, fs, k)
  <2>. SUFFICES ASSUME NEW d \in 2 .. MaxDepth, d # k
                PROVE  LookupIn(k - 1, fs, d) = LookupIn(k, frames[t], d)
    BY DEF Hides
  <2>1. CASE d = k - 1
    <3>1. fs[d - 1] = frames[t][d - 1] /\ frames[t][d] = Asker(t) /\ fs[d] = fs[k - 1]
      BY <1>2, <1>3, <1>4, <2>1
    <3>2. fs[k - 1].name = Asker(t).name
      BY <1>3, <1>4 DEF Frame, FrameRecord
    <3>3. Underway(frames[t][d - 1], fs[k - 1]) = Underway(frames[t][d - 1], Asker(t))
      BY <1>5, <3>2 DEF Underway, StatusOf, FoundBy
    <3>. QED BY <1>2, <2>1, <3>1, <3>3 DEF LookupIn
  <2>2. CASE d < k - 1
    BY <1>2, <1>3, <2>2 DEF LookupIn
  <2>3. CASE d > k
    BY <1>2, <1>3, <2>3 DEF LookupIn
  <2>. QED BY <1>2, <2>1, <2>2, <2>3
<1>7. /\ <<t, k>> \in Clients
      /\ Shown(<<t, k>>, LookupIn(k - 1, fs, k))
  BY <1>1, <1>2, <1>6, OneLookup
<1>8. Lookups[<<t, k>>] = Underway(Asker(t), Top(t))
  BY <1>2, <1>3, <1>4, <1>7 DEF Lookups, LookupIn
<1>9. LookupIn(k - 1, fs, k) = [status |-> "answered", name |-> Top(t).name,
                                since |-> Since(Asker(t)), net |-> v]
  <2>1. LookupIn(k - 1, fs, k) = Told(fs[k - 1])
    BY <1>2, <1>5 DEF LookupIn
  <2>2. Told(fs[k - 1]) = [status |-> "answered", name |-> Top(t).name,
                           since |-> Since(Asker(t)), net |-> v]
    BY <1>5, Zenon DEF Told
  <2>. QED BY <2>1, <2>2
<1>. QED BY <1>7, <1>8, <1>9

\* A call that begins, or ends unasked, shows nothing.
LEMMA StartUnseen ==
  ASSUME IInv, NEW t \in Threads, Idle(t), NEW f, f.at \notin {"register", "recheck"},
         Start(t, f)
  PROVE  Lookups' = Lookups
<1>. DEFINE fs == [frames[t] EXCEPT ![1] = f]
<1>1. Restacks(t, 1, fs) /\ fs[1] = f /\ depth[t] = 0
  BY ConstantsAssumption DEF Start, Idle, Restacks, IInv, TypeOK
<1>. HIDE DEF fs
<1>2. Hides(t, 1, fs, 1)
  BY <1>1, ConstantsAssumption DEF Hides, LookupIn
<1>. QED BY <1>1, <1>2, Unseen

LEMMA FinishUnseen ==
  ASSUME IInv, NEW t \in Threads, depth[t] > 0, Top(t).kind # "get",
         Top(t).at \notin {"register", "recheck"}, Finish(t)
  PROVE  Lookups' = Lookups
<1>. DEFINE fs == [frames[t] EXCEPT ![1] = NoFrame]
<1>1. Restacks(t, 0, fs)
  BY DEF Finish, Restacks, IInv, TypeOK
<1>2. depth[t] = 1 /\ frames[t][1] = Top(t)
  BY TopFits DEF Top
<1>. HIDE DEF fs
<1>3. Hides(t, 0, fs, 1)
  BY <1>1, <1>2, ConstantsAssumption DEF Hides, LookupIn
<1>. QED BY <1>1, <1>3, Unseen

\* The end of a request, and a registration, let the answer go.
LEMMA AnswerLeaves ==
  ASSUME IInv, NEW t \in Threads, Answer(t)
  PROVE  Lookups' = Lookups \/ \E c \in Clients : Lookups[c].status = "answered" /\ Shown(c, Rest)
<1>. DEFINE fs == [frames[t] EXCEPT ![1] = NoFrame]
<1>1. Restacks(t, 0, fs)
  BY DEF Answer, Finish, Restacks, IInv, TypeOK
<1>2. depth[t] = 1 /\ frames[t][1].at = "recheck" /\ MaxDepth \in Nat
  BY TopFits, ConstantsAssumption DEF Answer, At, Top
<1>. HIDE DEF fs
<1>3. Hides(t, 0, fs, 2)
  BY <1>1, <1>2 DEF Hides, LookupIn
<1>4. CASE MaxDepth >= 2
  <2>1. 2 \in 2 .. MaxDepth
    BY <1>2, <1>4
  <2>2. <<t, 2>> \in Clients /\ Shown(<<t, 2>>, LookupIn(0, fs, 2))
    BY <1>1, <1>3, <2>1, OneLookup
  <2>3. LookupIn(0, fs, 2) = Rest /\ LookupIn(1, frames[t], 2) = Told(frames[t][1])
    BY <1>2 DEF LookupIn
  <2>4. Lookups[<<t, 2>>].status = "answered"
    BY <1>2, <2>2, <2>3 DEF Lookups, Told
  <2>. QED BY <2>2, <2>3, <2>4
<1>5. CASE MaxDepth < 2
  <2>1. Hides(t, 0, fs, 1)
    BY <1>2, <1>5 DEF Hides
  <2>. QED BY <1>1, <2>1, Unseen
<1>. QED BY <1>2, <1>4, <1>5

LEMMA RegisterLeaves ==
  ASSUME IInv, NEW t \in Threads, Register(t)
  PROVE  Lookups' = Lookups \/ \E c \in Clients : Lookups[c].status = "answered" /\ Shown(c, Rest)
<1>. DEFINE k == depth[t]
            f == [Top(t) EXCEPT !.at = IF Top(t).todo = {} THEN "evict" ELSE "tell",
                                !.got = NoNetwork]
            fs == [frames[t] EXCEPT ![k] = f]
<1>1. Restacks(t, k, fs)
  BY DEF Register, Goto, Restacks, IInv, TypeOK
<1>2. /\ k \in 1 .. MaxDepth /\ frames[t] \in Stacks /\ MaxDepth \in Nat
      /\ Top(t) \in Frame /\ Top(t).at = "register"
  BY TopFits, ConstantsAssumption DEF Register
<1>3. /\ f.at \in {"evict", "tell"} /\ f.name = Top(t).name /\ f.net = Top(t).net
  BY <1>2 DEF Frame, FrameRecord
<1>4. /\ fs[k] = f /\ frames[t][k] = Top(t)
      /\ \A d \in 1 .. MaxDepth : d # k => fs[d] = frames[t][d]
  BY <1>2 DEF Stacks, Top
<1>. HIDE DEF f, fs
<1>5. Hides(t, k, fs, k + 1)
  <2>. SUFFICES ASSUME NEW d \in 2 .. MaxDepth, d # k + 1
                PROVE  LookupIn(k, fs, d) = LookupIn(k, frames[t], d)
    BY DEF Hides
  <2>1. CASE d < k
    BY <1>2, <1>4, <2>1 DEF LookupIn
  <2>2. CASE d = k
    <3>1. fs[d - 1] = frames[t][d - 1]
      BY <1>2, <1>4, <2>2
    <3>2. Underway(frames[t][d - 1], f) = Underway(frames[t][d - 1], Top(t))
      BY <1>2, <1>3 DEF Underway, StatusOf, FoundBy
    <3>. QED BY <1>2, <1>4, <2>2, <3>1, <3>2 DEF LookupIn
  <2>3. CASE d > k + 1
    BY <1>2, <2>3 DEF LookupIn
  <2>. QED BY <1>2, <2>1, <2>2, <2>3
<1>6. CASE k + 1 <= MaxDepth
  <2>1. k + 1 \in 2 .. MaxDepth
    BY <1>2, <1>6
  <2>2. <<t, k + 1>> \in Clients /\ Shown(<<t, k + 1>>, LookupIn(k, fs, k + 1))
    BY <1>1, <1>5, <2>1, OneLookup
  <2>3. LookupIn(k, fs, k + 1) = Rest /\ LookupIn(k, frames[t], k + 1) = Told(frames[t][k])
    BY <1>2, <1>3, <1>4 DEF LookupIn
  <2>4. Lookups[<<t, k + 1>>].status = "answered"
    BY <1>2, <2>2, <2>3 DEF Lookups, Told
  <2>. QED BY <2>2, <2>3, <2>4
<1>7. CASE k + 1 > MaxDepth
  <2>1. Hides(t, k, fs, 1)
    BY <1>2, <1>5, <1>7 DEF Hides
  <2>. QED BY <1>1, <2>1, Unseen
<1>. QED BY <1>2, <1>6, <1>7

\* An announcement and a request ask.
Asked(n, s) == [status |-> "asking", name |-> n, since |-> s, net |-> NoNetwork]

LEMMA TellAsks ==
  ASSUME IInv, NEW t \in Threads, NEW n \in Names, TellAdded(t, n)
  PROVE  \E c \in Clients : Lookups[c].status = "idle" /\ Shown(c, Asked(n, 0))
<1>. DEFINE k == depth[t]
            f == [Top(t) EXCEPT !.at = "register", !.name = n, !.todo = @ \ {n}]
            fs == [frames[t] EXCEPT ![k] = f, ![k + 1] = Lookup(n)]
<1>1. Restacks(t, k + 1, fs) /\ k < MaxDepth
  BY DEF TellAdded, Call, Restacks, IInv, TypeOK
<1>2. /\ k \in 1 .. MaxDepth /\ frames[t] \in Stacks /\ MaxDepth \in Nat
      /\ Top(t) \in Frame /\ Top(t).at = "tell" /\ Top(t).kind # "request"
      /\ Top(t).kind = "get" => Top(t).name = n
      /\ k >= 2 => Top(t).kind = "get"
  BY TopFits, ConstantsAssumption DEF TellAdded, FrameFits
<1>3. /\ f.at = "register" /\ f.name = n /\ f.net = Top(t).net /\ f.kind = Top(t).kind
  BY <1>2 DEF Frame, FrameRecord
<1>. HIDE DEF f
<1>4. /\ fs[k] = f /\ fs[k + 1] = Lookup(n) /\ frames[t][k] = Top(t)
      /\ \A d \in 1 .. MaxDepth : d # k /\ d # k + 1 => fs[d] = frames[t][d]
  BY <1>1, <1>2 DEF Stacks, Top
<1>5. Lookup(n).at = "lookup" /\ Lookup(n).name = n
  BY DEF Lookup, NoFrame
<1>. HIDE DEF fs
<1>6. Hides(t, k + 1, fs, k + 1)
  <2>. SUFFICES ASSUME NEW d \in 2 .. MaxDepth, d # k + 1
                PROVE  LookupIn(k + 1, fs, d) = LookupIn(k, frames[t], d)
    BY DEF Hides
  <2>1. CASE d < k
    BY <1>2, <1>4, <2>1 DEF LookupIn
  <2>2. CASE d = k
    <3>1. fs[d - 1] = frames[t][d - 1]
      BY <1>2, <1>4, <2>2
    <3>2. Underway(frames[t][d - 1], f) = Underway(frames[t][d - 1], Top(t))
      BY <1>2, <1>3, <2>2 DEF Underway, StatusOf, FoundBy
    <3>. QED BY <1>2, <1>4, <2>2, <3>1, <3>2 DEF LookupIn
  <2>3. CASE d > k + 1
    BY <1>2, <1>4, <1>5, <2>3 DEF LookupIn
  <2>. QED BY <1>2, <2>1, <2>2, <2>3
<1>7. k + 1 \in 2 .. MaxDepth
  BY <1>1, <1>2
<1>8. <<t, k + 1>> \in Clients /\ Shown(<<t, k + 1>>, LookupIn(k + 1, fs, k + 1))
  BY <1>1, <1>6, <1>7, OneLookup
<1>9. LookupIn(k + 1, fs, k + 1) = Asked(n, 0)
  <2>1. LookupIn(k + 1, fs, k + 1) = Underway(f, Lookup(n))
    BY <1>2, <1>4 DEF LookupIn
  <2>2. Since(f) = 0 /\ StatusOf(Lookup(n)) = "asking" /\ FoundBy(Lookup(n)) = NoNetwork
    BY <1>2, <1>3, <1>5 DEF Since, StatusOf, FoundBy
  <2>. QED BY <1>5, <2>1, <2>2, Zenon DEF Underway, Asked
<1>10. Lookups[<<t, k + 1>>].status = "idle"
  <2>1. LookupIn(k, frames[t], k + 1) = Rest
    BY <1>2, <1>4 DEF LookupIn
  <2>. QED BY <1>8, <2>1 DEF Lookups, Rest
<1>. QED BY <1>8, <1>9, <1>10

LEMMA RequestAsks ==
  ASSUME IInv, NEW t \in Threads, NEW n \in Names, Request(t, n)
  PROVE  \E c \in Clients : Lookups[c].status = "idle" /\ Shown(c, Asked(n, now))
<1>. DEFINE q == [NoFrame EXCEPT !.kind = "request", !.at = "recheck",
                                 !.name = n, !.since = now]
            fs == [frames[t] EXCEPT ![1] = q, ![2] = Lookup(n)]
<1>1. /\ Restacks(t, 2, fs) /\ depth[t] = 0 /\ MaxDepth >= 2 /\ MaxDepth \in Nat
      /\ fs[1] = q /\ fs[2] = Lookup(n)
  <2>1. /\ depth' = [depth EXCEPT ![t] = 2] /\ depth[t] = 0 /\ MaxDepth >= 2
        /\ frames' = [frames EXCEPT ![t] = fs] /\ frames[t] \in Stacks
    BY DEF Request, Idle, IInv, TypeOK, Stacks
  <2>2. fs[1] = q /\ fs[2] = Lookup(n)
    <3>. HIDE DEF q
    <3>. QED BY <2>1, ConstantsAssumption DEF Stacks
  <2>. QED BY <2>1, <2>2, ConstantsAssumption DEF Restacks
<1>2. q.kind = "request" /\ q.since = now
      /\ Lookup(n).at = "lookup" /\ Lookup(n).name = n
  BY DEF NoFrame, Lookup
<1>. HIDE DEF q, fs
<1>3. Hides(t, 2, fs, 2)
  BY <1>1, <1>2 DEF Hides, LookupIn
<1>4. 2 \in 2 .. MaxDepth
  BY <1>1
<1>5. <<t, 2>> \in Clients /\ Shown(<<t, 2>>, LookupIn(2, fs, 2))
  BY <1>1, <1>3, <1>4, OneLookup
<1>6. LookupIn(2, fs, 2) = Asked(n, now)
  <2>1. LookupIn(2, fs, 2) = Underway(q, Lookup(n))
    BY <1>1 DEF LookupIn
  <2>2. Since(q) = now /\ StatusOf(Lookup(n)) = "asking" /\ FoundBy(Lookup(n)) = NoNetwork
    BY <1>2 DEF Since, StatusOf, FoundBy
  <2>. QED BY <1>2, <2>1, <2>2, Zenon DEF Underway, Asked
<1>7. Lookups[<<t, 2>>].status = "idle"
  <2>1. LookupIn(0, frames[t], 2) = Rest
    BY DEF LookupIn
  <2>. QED BY <1>1, <1>5, <2>1 DEF Lookups, Rest
<1>. QED BY <1>5, <1>6, <1>7

\* What a lookup finds when it runs is leased as its caller asks.
LEMMA LeasedToAsker ==
  ASSUME IInv, NEW t \in Threads, depth[t] >= 2, NEW v, Under(deployments, Top(t).name, v),
         depth[t] = 2 /\ frames[t][1].kind = "request" =>
           Fit(deployments, Top(t).name, v, frames[t][1].since)
  PROVE  Leases!Leased(Top(t).name, v, Since(Asker(t)))
<1>1. /\ depth[t] \in 1 .. MaxDepth /\ MaxDepth \in Nat
      /\ StackFits(deployments, now, depth[t], frames[t])
      /\ deployments \in Log /\ HistoryInv
  BY TopFits, ConstantsAssumption DEF IInv, TypeOK, Log
<1>2. CASE Asker(t).kind = "request"
  <2>1. depth[t] = 2
    BY <1>1, <1>2 DEF StackFits, Asker
  <2>. QED BY <1>2, <2>1 DEF Asker, Since, Fit, Under, Covers, Leases!Leased
<1>3. CASE Asker(t).kind # "request"
  <2>1. v \in 1 .. Len(deployments) /\ Top(t).name \in deployments[v].names
        /\ deployments[v].expiration >= 0
    BY <1>1 DEF Under, HistoryInv, Ordered
  <2>2. v \in v .. Len(deployments)
    BY <1>1, <2>1 DEF Log
  <2>3. Since(Asker(t)) = 0
    BY <1>3 DEF Since
  <2>. QED BY <2>1, <2>2, <2>3 DEF Leases!Leased
<1>. QED BY <1>2, <1>3

\* A lookup that found its reservation in force reads a network fit for its caller.
LEMMA ReadIsLeased ==
  ASSUME IInv, NEW t \in Threads, At(t, "get", "read"), agents[Top(t).name] # NoNetwork
  PROVE  Leases!Leased(Top(t).name, agents[Top(t).name], Since(Asker(t)))
<1>. DEFINE n == Top(t).name
<1>1. /\ depth[t] >= 2 /\ n \in Names /\ deployments \in Log /\ HistoryInv
      /\ frames[t] \in Stacks /\ MaxDepth \in Nat /\ depth[t] \in 1 .. MaxDepth
  BY TopFits, ConstantsAssumption DEF At, Frame, IInv, TypeOK, Log
<1>2. Under(deployments, n, agents[n])
  BY <1>1 DEF IInv, LeaseKept, IsLeaseOf, DeployedUnder, Under
<1>3. ASSUME depth[t] = 2, frames[t][1].kind = "request"
      PROVE  Fit(deployments, n, agents[n], frames[t][1].since)
  <2>1. Covers(deployments, n, 1, frames[t][1].since)
    BY <1>3, TopFits DEF At, LookupFits
  <2>2. frames[t][1].since \in Int
    BY <1>1, <1>3 DEF Stacks, Frame, FrameRecord
  <2>. QED BY <1>1, <1>2, <2>1, <2>2, AnyLeaseFits DEF HistoryInv
<1>. QED BY <1>1, <1>2, <1>3, LeasedToAsker

\* ... and so does one that fetched it.
LEMMA CachedIsLeased ==
  ASSUME IInv, NEW t \in Threads, Cache(t)
  PROVE  Leases!Leased(Top(t).name, Top(t).net, Since(Asker(t)))
<1>1. /\ depth[t] >= 2 /\ Under(deployments, Top(t).name, Top(t).net) /\ Top(t).net # NoNetwork
  BY TopFits, CacheFills DEF Cache, At, LeaseOf
<1>2. ASSUME depth[t] = 2, frames[t][1].kind = "request"
      PROVE  Fit(deployments, Top(t).name, Top(t).net, frames[t][1].since)
  BY <1>1, <1>2, TopFits DEF Cache, At, LookupFits
<1>. QED BY <1>1, <1>2, LeasedToAsker

\* The running lookup finds v.
LEMMA FindsShown ==
  ASSUME NEW c, NEW t, Lookups[c] = Underway(Asker(t), Top(t)), NEW v, NEW status,
         Shown(c, [status |-> status, name |-> Top(t).name, since |-> Since(Asker(t)),
                   net |-> v])
  PROVE  Leases!Finds(c, v, status)
<1>1. Lookups[c].name = Top(t).name /\ Lookups[c].since = Since(Asker(t))
  BY DEF Underway
<1>. HIDE DEF Lookups
<1>. QED BY <1>1, Zenon DEF Shown, Leases!Finds, Leases!Entry

LEMMA GotoFinds ==
  ASSUME IInv, NEW t \in Threads, depth[t] > 0, Top(t).kind = "get",
         NEW f \in Frame, Goto(t, f), Top(t).at \notin {"register", "recheck"},
         f.at \notin {"register", "recheck"}, f.name = Top(t).name
  PROVE  \E c \in Clients : /\ Lookups[c] = Underway(Asker(t), Top(t))
                            /\ Leases!Finds(c, FoundBy(f), StatusOf(f))
<1>1. depth[t] >= 2
  BY TopFits
<1>. DEFINE c == <<t, depth[t]>>
<1>2. /\ c \in Clients /\ Lookups[c] = Underway(Asker(t), Top(t))
      /\ Shown(c, Underway(Asker(t), f))
  BY <1>1, GotoShows
<1>3. Underway(Asker(t), f) = [status |-> StatusOf(f), name |-> Top(t).name,
                               since |-> Since(Asker(t)), net |-> FoundBy(f)]
  BY Zenon DEF Underway
<1>4. Leases!Finds(c, FoundBy(f), StatusOf(f))
  BY <1>2, <1>3, FindsShown
<1>. QED BY <1>2, <1>4

LEMMA ReturnFinds ==
  ASSUME IInv, NEW t \in Threads, depth[t] > 0, Top(t).kind = "get",
         Top(t).at \notin {"register", "recheck"}, NEW v \in Networks, Return(t, v)
  PROVE  \E c \in Clients : /\ Lookups[c] = Underway(Asker(t), Top(t))
                            /\ Leases!Finds(c, v, "answered")
BY ReturnShows, FindsShown

LEMMA LeasesInit == Init => Leases!Init
<1>. SUFFICES ASSUME Init PROVE Leases!Init
  OBVIOUS
<1>1. \A t \in Threads, d \in 2 .. MaxDepth : LookupIn(depth[t], frames[t], d) = Leases!Rest
  BY DEF Init, LookupIn, Rest, Leases!Rest, Leases!Entry, NoNetwork, Leases!NoNetwork
<1>2. Lookups = [c \in Clients |-> Leases!Rest]
  BY <1>1 DEF Lookups, Clients
<1>. QED BY <1>2 DEF Init, Leases!Init, Leases!NoNetwork, NoNetwork

\* A removal is a withdrawal of the abstract table.
LEMMA RemoveWithdraws ==
  ASSUME IInv, NEW S, Remove(S), UNCHANGED world, Lookups' = Lookups
  PROVE  Leases!Next
<1>1. Leases!Withdraw(S \cap Names)
  BY DEF Remove, Put, world, Leases!Withdraw, Leases!NoNetwork, NoNetwork
<1>. QED BY <1>1 DEF Leases!Next

\* The abstract steps, by what they take.
LEMMA AbstractSteps ==
  /\ UNCHANGED <<world, agents>> /\ Lookups' = Lookups => [Leases!Next]_Leases!vars
  /\ \A c \in Clients, n \in Names, s \in {0, now} :
       /\ UNCHANGED <<world, agents>> /\ Lookups[c].status = "idle" /\ Shown(c, Asked(n, s))
       => Leases!Next
  /\ \A c \in Clients :
       /\ UNCHANGED <<world, agents>> /\ Lookups[c].status = "answered" /\ Shown(c, Rest)
       => Leases!Next
  /\ \A c \in Clients :
       /\ UNCHANGED <<world, agents>> /\ Lookups[c].status = "seen"
       /\ Leases!Finds(c, Lookups[c].net, "answered")
       => Leases!Next
<1>. NoNetwork = Leases!NoNetwork
  BY DEF NoNetwork, Leases!NoNetwork
<1>1. UNCHANGED <<world, agents>> /\ Lookups' = Lookups => [Leases!Next]_Leases!vars
  BY DEF world, Leases!vars
<1>. HIDE DEF Lookups
<1>2. ASSUME NEW c \in Clients, NEW n \in Names, NEW s \in {0, now},
             UNCHANGED <<world, agents>>, Lookups[c].status = "idle", Shown(c, Asked(n, s))
      PROVE  Leases!Next
  <2>1. Leases!Ask(c, n)
    BY <1>2 DEF Leases!Ask, Leases!Entry, Asked, Shown, world
  <2>. QED BY <2>1 DEF Leases!Next
<1>3. ASSUME NEW c \in Clients,
             UNCHANGED <<world, agents>>, Lookups[c].status = "answered", Shown(c, Rest)
      PROVE  Leases!Next
  <2>1. Leases!Leave(c)
    BY <1>3, Zenon DEF Leases!Leave, Leases!Rest, Leases!Entry, Rest, Shown, world
  <2>. QED BY <2>1 DEF Leases!Next
<1>4. ASSUME NEW c \in Clients,
             UNCHANGED <<world, agents>>, Lookups[c].status = "seen",
             Leases!Finds(c, Lookups[c].net, "answered")
      PROVE  Leases!Next
  <2>1. Leases!Reply(c)
    BY <1>4 DEF Leases!Reply, world
  <2>. QED BY <2>1 DEF Leases!Next
<1>. QED BY <1>1, <1>2, <1>3, <1>4

\* Steps that leave what a frame has found as it is are not seen.
LEMMA GoesOnUnseen ==
  ASSUME IInv, NEW t \in Threads, depth[t] > 0, NEW f \in Frame, Goto(t, f),
         f.name = Top(t).name,
         \/ /\ {Top(t).at, f.at} \subseteq {"write", "insert", "tell", "evict", "untell", "sweep"}
            /\ f.net = Top(t).net
         \/ {Top(t).at, f.at} \subseteq {"lookup", "drop", "read"}
         \/ {Top(t).at, f.at} \subseteq {"fetch", "cache"}
  PROVE  Lookups' = Lookups
<1>1. /\ Top(t).at \notin {"register", "recheck"} /\ f.at \notin {"register", "recheck"}
      /\ StatusOf(f) = StatusOf(Top(t)) /\ FoundBy(f) = FoundBy(Top(t))
  BY DEF StatusOf, FoundBy
<1>. QED BY <1>1, GotoUnseen

LEMMA PromisesLeases ==
  ASSUME IInv, NEW t \in Threads, NEW B \in SUBSET OwnNames, Deploy(t, B)
  PROVE  Leases!Next
<1>. DEFINE at == IF HasBase THEN "write" ELSE "insert"
            f == [NoFrame EXCEPT !.kind = "deploy", !.batch = B, !.at = at,
                                 !.todo = IF HasBase THEN B ELSE {},
                                 !.net = NextDeployment]
<1>1. f.at = at /\ at \in {"write", "insert"}
  BY DEF NoFrame
<1>2. Start(t, f) /\ Idle(t)
  BY DEF Deploy
<1>. HIDE DEF f
<1>3. Lookups' = Lookups
  BY <1>1, <1>2, StartUnseen
<1>4. B \in (SUBSET Names) \ {{}}
  BY DEF Deploy, OwnNames
<1>5. /\ deployments' = Append(deployments, [names |-> B, expiration |-> now + Lifetime])
      /\ UNCHANGED <<now, agents>>
  BY DEF Deploy, storage
<1>6. Leases!Promise
  BY <1>3, <1>4, <1>5 DEF Leases!Promise
<1>. QED BY <1>6 DEF Leases!Next

LEMMA InsertPublishes ==
  ASSUME IInv, NEW t \in Threads, Insert(t)
  PROVE  Leases!Next
<1>. DEFINE added == {n \in Top(t).batch : agents[n] = NoNetwork}
            f == [Top(t) EXCEPT !.at = IF added = {} THEN "evict" ELSE "tell", !.todo = added]
<1>1. depth[t] > 0 /\ Top(t).at \in {"insert", "write"} /\ Goto(t, f)
      /\ agents' = Filled(Top(t).batch, Top(t).net)
  BY DEF Insert, Written, At
<1>2. Top(t) \in Frame
  BY <1>1, TopFits
<1>3. /\ UNCHANGED world /\ Top(t).net \in 1 .. Len(deployments)
      /\ Top(t).batch = deployments[Top(t).net].names /\ Top(t).batch \subseteq OwnNames
  BY InsertFills
<1>4. f \in Frame /\ f.name = Top(t).name /\ f.net = Top(t).net /\ f.at \in {"evict", "tell"}
  <2>. DEFINE at == IF added = {} THEN "evict" ELSE "tell"
  <2>1. added \in SUBSET Names /\ at \in {"evict", "tell"}
    BY <1>3 DEF OwnNames
  <2>. HIDE DEF added, at
  <2>2. LET g == [Top(t) EXCEPT !.at = at, !.todo = added]
        IN  g \in Frame /\ g.name = Top(t).name /\ g.net = Top(t).net /\ g.at = at
    BY <1>2, <2>1 DEF Frame, FrameRecord
  <2>. QED BY <2>1, <2>2 DEF at
<1>. HIDE DEF f
<1>5. Lookups' = Lookups
  BY <1>1, <1>4, GoesOnUnseen
<1>6. Leases!Publish(Top(t).net)
  BY <1>1, <1>3, <1>5 DEF Filled, Put, Leases!Publish, world
<1>. QED BY <1>3, <1>6 DEF Leases!Next

LEMMA RemovalWithdraws ==
  ASSUME IInv, NEW t \in Threads,
         Evict(t) \/ Sweep(t) \/ \E n \in Names : TellRemoved(t, n) \/ WriteBase(t, n)
  PROVE  [Leases!Next]_Leases!vars
<1>0. depth[t] > 0 /\ Top(t) \in Frame /\ UNCHANGED world
  BY TopFits DEF Evict, Sweep, TellRemoved, WriteBase, At
<1>1. CASE Evict(t)
  <2>1. PICK S \in SUBSET Names :
          /\ Goto(t, [Top(t) EXCEPT !.at = "untell", !.gone = S])
          /\ UNCHANGED agents \/ Remove(S)
    <3>1. \A S \in Oldest(Overflow) : S \in SUBSET Names
      BY DEF Oldest, Touched
    <3>2. \/ Goto(t, [Top(t) EXCEPT !.at = "untell", !.gone = {}]) /\ UNCHANGED agents
          \/ \E S \in Oldest(Overflow) :
               Remove(S) /\ Goto(t, [Top(t) EXCEPT !.at = "untell", !.gone = S])
      BY <1>1 DEF Evict, storage
    <3>3. {} \in SUBSET Names
      OBVIOUS
    <3>. QED BY <3>1, <3>2, <3>3, Zenon
  <2>. DEFINE f == [Top(t) EXCEPT !.at = "untell", !.gone = S]
  <2>2. f \in Frame /\ f.name = Top(t).name /\ f.net = Top(t).net /\ f.at = "untell"
    BY <1>0 DEF Frame, FrameRecord
  <2>3. Top(t).at = "evict"
    BY <1>1 DEF Evict
  <2>. HIDE DEF f
  <2>4. Lookups' = Lookups
    BY <1>0, <2>1, <2>2, <2>3, GoesOnUnseen DEF f
  <2>. QED BY <1>0, <2>1, <2>4, RemoveWithdraws, AbstractSteps
<1>2. CASE Sweep(t)
  <2>. DEFINE f == [Top(t) EXCEPT !.at = "untell"]
  <2>1. Remove(Top(t).gone) /\ Goto(t, f) /\ Top(t).at = "sweep"
    BY <1>2 DEF Sweep, At
  <2>2. f \in Frame /\ f.name = Top(t).name /\ f.net = Top(t).net /\ f.at = "untell"
    BY <1>0 DEF Frame, FrameRecord
  <2>. HIDE DEF f
  <2>3. Lookups' = Lookups
    BY <1>0, <2>1, <2>2, GoesOnUnseen
  <2>. QED BY <1>0, <2>1, <2>3, RemoveWithdraws
<1>3. ASSUME NEW n \in Names, TellRemoved(t, n) PROVE [Leases!Next]_Leases!vars
  <2>. DEFINE f == [Top(t) EXCEPT !.gone = @ \ {n}]
  <2>1. Goto(t, f) /\ Top(t).at = "untell" /\ UNCHANGED agents
    BY <1>3 DEF TellRemoved, storage
  <2>2. f \in Frame /\ f.name = Top(t).name /\ f.net = Top(t).net /\ f.at = Top(t).at
    BY <1>0 DEF Frame, FrameRecord
  <2>. HIDE DEF f
  <2>3. Lookups' = Lookups
    BY <1>0, <2>1, <2>2, GoesOnUnseen
  <2>. QED BY <1>0, <2>1, <2>3, AbstractSteps
<1>4. ASSUME NEW n \in Names, WriteBase(t, n) PROVE [Leases!Next]_Leases!vars
  <2>. DEFINE f == [Top(t) EXCEPT !.todo = @ \ {n}]
  <2>1. Goto(t, f) /\ Top(t).at = "write" /\ UNCHANGED agents
    BY <1>4 DEF WriteBase, storage, At
  <2>2. f \in Frame /\ f.name = Top(t).name /\ f.net = Top(t).net /\ f.at = Top(t).at
    BY <1>0 DEF Frame, FrameRecord
  <2>. HIDE DEF f
  <2>3. Lookups' = Lookups
    BY <1>0, <2>1, <2>2, GoesOnUnseen
  <2>. QED BY <1>0, <2>1, <2>3, AbstractSteps
<1>. QED BY <1>1, <1>2, <1>3, <1>4

\* A lookup that looks: what it takes to be Look.
LEMMA LooksAt ==
  ASSUME IInv, NEW t \in Threads, UNCHANGED <<world, agents>>,
         StatusOf(Top(t)) = "asking", NEW status \in {"seen", "answered"},
         NEW c \in Clients, Lookups[c] = Underway(Asker(t), Top(t)),
         NEW v, Leases!Finds(c, v, status), v = agents[Top(t).name],
         v # NoNetwork => Leases!Leased(Top(t).name, v, Since(Asker(t)))
  PROVE  Leases!Next
<1>1. /\ Lookups[c].status = "asking" /\ Lookups[c].name = Top(t).name
      /\ Lookups[c].since = Since(Asker(t))
  BY DEF Underway
<1>. HIDE DEF Lookups
<1>2. Leases!Look(c)
  BY <1>1 DEF Leases!Look, Leases!NoNetwork, NoNetwork, world
<1>. QED BY <1>2 DEF Leases!Next

\* The reservation is tested ...
LEMMA TestLooks ==
  ASSUME IInv, NEW t \in Threads, LookupReservation(t)
  PROVE  [Leases!Next]_Leases!vars
<1>1. /\ depth[t] > 0 /\ Top(t).kind = "get" /\ Top(t).at = "lookup"
      /\ Top(t) \in Frame /\ Top(t).name \in Names
      /\ UNCHANGED <<world, agents>>
  BY TopFits DEF LookupReservation, At, Frame, storage
<1>2. ASSUME NEW a \in {"drop", "read", "fetch"}, Goto(t, [Top(t) EXCEPT !.at = a]),
             a = "fetch" => reservations[Top(t).name] = NoReservation
      PROVE  [Leases!Next]_Leases!vars
  <2>. DEFINE f == [Top(t) EXCEPT !.at = a]
  <2>1. f \in Frame /\ f.name = Top(t).name /\ f.at = a
    BY <1>1 DEF Frame, FrameRecord
  <2>. HIDE DEF f
  <2>2. CASE a # "fetch"
    <3>1. Lookups' = Lookups
      BY <1>1, <1>2, <2>1, <2>2, GoesOnUnseen DEF f
    <3>. QED BY <1>1, <3>1, AbstractSteps
  <2>3. CASE a = "fetch"
    <3>1. PICK c \in Clients : /\ Lookups[c] = Underway(Asker(t), Top(t))
                               /\ Leases!Finds(c, FoundBy(f), StatusOf(f))
      BY <1>1, <1>2, <2>1, <2>3, GotoFinds DEF f
    <3>2. FoundBy(f) = NoNetwork /\ StatusOf(f) = "seen" /\ StatusOf(Top(t)) = "asking"
      BY <1>1, <2>1, <2>3 DEF FoundBy, StatusOf
    <3>3. agents[Top(t).name] = NoNetwork
      BY <1>1, <1>2, <2>3 DEF IInv, TablesTogether
    <3>. QED BY <1>1, <3>1, <3>2, <3>3, LooksAt
  <2>. QED BY <2>2, <2>3
<1>3. ASSUME reservations[Top(t).name] = NoReservation, Return(t, NoNetwork)
      PROVE  [Leases!Next]_Leases!vars
  <2>1. PICK c \in Clients : /\ Lookups[c] = Underway(Asker(t), Top(t))
                             /\ Leases!Finds(c, NoNetwork, "answered")
    <3>1. NoNetwork \in Networks
      BY ConstantsAssumption DEF NoNetwork, Networks
    <3>. QED BY <1>1, <1>3, <3>1, ReturnFinds
  <2>2. StatusOf(Top(t)) = "asking"
    BY <1>1 DEF StatusOf
  <2>3. agents[Top(t).name] = NoNetwork
    BY <1>1, <1>3 DEF IInv, TablesTogether
  <2>. QED BY <1>1, <2>1, <2>2, <2>3, LooksAt
<1>. QED BY <1>2, <1>3 DEF LookupReservation

\* ... and what was found to have expired removed ...
LEMMA DropDrops ==
  ASSUME IInv, NEW t \in Threads, DropExpired(t)
  PROVE  Leases!Next
<1>. DEFINE n == Top(t).name
            f == [Top(t) EXCEPT !.at = "untell", !.gone = {n}]
<1>1. /\ depth[t] > 0 /\ Top(t).kind = "get" /\ Top(t).at = "drop"
      /\ Top(t) \in Frame /\ n \in Names /\ Top(t).net = NoNetwork
      /\ UNCHANGED world /\ Goto(t, f) /\ Remove({n})
  BY TopFits DEF DropExpired, At, Frame, FrameFits
<1>2. f \in Frame /\ f.name = n /\ f.at = "untell" /\ f.net = NoNetwork
  BY <1>1 DEF Frame, FrameRecord
<1>. HIDE DEF f
<1>3. PICK c \in Clients : /\ Lookups[c] = Underway(Asker(t), Top(t))
                           /\ Leases!Finds(c, FoundBy(f), StatusOf(f))
  BY <1>1, <1>2, GotoFinds
<1>4. FoundBy(f) = NoNetwork /\ StatusOf(f) = "seen" /\ StatusOf(Top(t)) = "asking"
  BY <1>1, <1>2 DEF FoundBy, StatusOf
<1>5. Lookups[c].status = "asking" /\ Lookups[c].name = n
  BY <1>3, <1>4 DEF Underway
<1>6. agents' = [agents EXCEPT ![n] = NoNetwork]
  BY <1>1 DEF IInv, TypeOK, Remove, Put
<1>7. Leases!Drop(c)
  <2>. HIDE DEF Lookups
  <2>. QED BY <1>1, <1>3, <1>4, <1>5, <1>6
       DEF Leases!Drop, Leases!NoNetwork, NoNetwork, world
<1>. QED BY <1>7 DEF Leases!Next

\* ... or the network read.
LEMMA ReadLooks ==
  ASSUME IInv, NEW t \in Threads, ReadNetwork(t)
  PROVE  Leases!Next
<1>. DEFINE v == agents[Top(t).name]
<1>1. /\ depth[t] > 0 /\ Top(t).kind = "get" /\ Top(t).at = "read"
      /\ Top(t) \in Frame /\ Top(t).name \in Names /\ v \in Networks
      /\ UNCHANGED <<world, agents>> /\ At(t, "get", "read")
  BY TopFits DEF ReadNetwork, At, Frame, storage, IInv, TypeOK
<1>2. StatusOf(Top(t)) = "asking"
  BY <1>1 DEF StatusOf
<1>3. v # NoNetwork => Leases!Leased(Top(t).name, v, Since(Asker(t)))
  BY <1>1, ReadIsLeased
<1>4. CASE v = NoNetwork
  <2>1. Return(t, v)
    BY <1>4 DEF ReadNetwork
  <2>2. PICK c \in Clients : /\ Lookups[c] = Underway(Asker(t), Top(t))
                             /\ Leases!Finds(c, v, "answered")
    BY <1>1, <2>1, ReturnFinds
  <2>. QED BY <1>1, <1>2, <1>3, <2>2, LooksAt
<1>5. CASE v # NoNetwork
  <2>. DEFINE f == [Top(t) EXCEPT !.at = "touch", !.net = v]
  <2>1. Goto(t, f)
    BY <1>5 DEF ReadNetwork
  <2>2. f \in Frame /\ f.name = Top(t).name /\ f.at = "touch" /\ f.net = v
    <3>. HIDE DEF v
    <3>. QED BY <1>1 DEF Frame, FrameRecord
  <2>. HIDE DEF f
  <2>3. PICK c \in Clients : /\ Lookups[c] = Underway(Asker(t), Top(t))
                             /\ Leases!Finds(c, FoundBy(f), StatusOf(f))
    BY <1>1, <2>1, <2>2, GotoFinds
  <2>4. FoundBy(f) = v /\ StatusOf(f) = "seen"
    BY <2>2 DEF FoundBy, StatusOf
  <2>. QED BY <1>1, <1>2, <1>3, <2>3, <2>4, LooksAt
<1>. QED BY <1>4, <1>5

\* What was fetched is brought back when it enters the tables.
LEMMA CacheBringsBack ==
  ASSUME IInv, NEW t \in Threads, Cache(t)
  PROVE  Leases!Next
<1>. DEFINE n == Top(t).name
            v == Top(t).net
            f == [Top(t) EXCEPT !.at = "tell", !.todo = {n}, !.res = NoReservation]
<1>1. /\ depth[t] > 0 /\ Top(t).kind = "get" /\ Top(t).at = "cache" /\ Top(t) \in Frame
      /\ UNCHANGED world /\ Goto(t, f)
  BY TopFits DEF Cache, At
<1>2. n \in Names /\ agents' = [agents EXCEPT ![n] = v] /\ LeaseOf(deployments, n, v, Top(t).res.expiration)
  BY CacheFills
<1>3. f \in Frame /\ f.name = n /\ f.at = "tell" /\ f.net = v
  <2>1. NoReservation \in Reservations
    BY DEF Reservations, NoReservation, NoTime
  <2>. QED BY <1>1, <1>2, <2>1 DEF Frame, FrameRecord
<1>. HIDE DEF f
<1>4. PICK c \in Clients : /\ Lookups[c] = Underway(Asker(t), Top(t))
                           /\ Leases!Finds(c, FoundBy(f), StatusOf(f))
  BY <1>1, <1>3, GotoFinds
<1>5. FoundBy(f) = v /\ StatusOf(f) = "seen"
      /\ StatusOf(Top(t)) = "seen" /\ FoundBy(Top(t)) = NoNetwork
  BY <1>1, <1>3 DEF FoundBy, StatusOf
<1>6. /\ Lookups[c].status = "seen" /\ Lookups[c].net = NoNetwork /\ Lookups[c].name = n
      /\ Lookups[c].since = Since(Asker(t))
  BY <1>4, <1>5 DEF Underway
<1>7. Leases!Leased(n, v, Since(Asker(t))) /\ v \in 1 .. Len(deployments)
  BY <1>2, CachedIsLeased DEF LeaseOf, Under
<1>8. Leases!BringBack(c, v)
  <2>. HIDE DEF Lookups, v
  <2>. QED BY <1>1, <1>2, <1>4, <1>5, <1>6, <1>7
       DEF Leases!BringBack, Leases!NoNetwork, NoNetwork, world
<1>. QED BY <1>7, <1>8 DEF Leases!Next

\* A lookup that has found what it will answer with answers.
LEMMA ReturnReplies ==
  ASSUME IInv, NEW t \in Threads, depth[t] > 0, Top(t).kind = "get",
         Top(t).at \notin {"register", "recheck", "lookup", "drop", "read"},
         Return(t, FoundBy(Top(t))), UNCHANGED <<world, agents>>
  PROVE  Leases!Next
<1>1. Top(t) \in Frame
  BY TopFits
<1>2. FoundBy(Top(t)) \in Networks /\ StatusOf(Top(t)) = "seen"
  <2>1. NoNetwork \in Networks /\ Top(t).net \in Networks
    BY <1>1, ConstantsAssumption DEF NoNetwork, Networks, Frame, FrameRecord
  <2>. QED BY <2>1 DEF FoundBy, StatusOf
<1>3. PICK c \in Clients : /\ Lookups[c] = Underway(Asker(t), Top(t))
                           /\ Leases!Finds(c, FoundBy(Top(t)), "answered")
  BY <1>2, ReturnFinds
<1>4. Lookups[c].status = "seen" /\ Lookups[c].net = FoundBy(Top(t))
  BY <1>2, <1>3 DEF Underway
<1>. HIDE DEF Lookups
<1>. QED BY <1>3, <1>4, AbstractSteps

LEMMA AnswersReply ==
  ASSUME IInv, NEW t \in Threads, Touch(t) \/ Fetch(t) \/ AllTold(t)
  PROVE  [Leases!Next]_Leases!vars
<1>1. depth[t] > 0 /\ Top(t) \in Frame /\ UNCHANGED <<world, agents>>
  BY TopFits DEF Touch, Fetch, AllTold, At, storage
<1>2. CASE Touch(t)
  <2>1. Top(t).kind = "get" /\ Top(t).at = "touch" /\ Return(t, Top(t).net)
    BY <1>2 DEF Touch, At
  <2>2. FoundBy(Top(t)) = Top(t).net
    BY <2>1 DEF FoundBy
  <2>. QED BY <1>1, <2>1, <2>2, ReturnReplies
<1>3. CASE Fetch(t)
  <2>1. Top(t).kind = "get" /\ Top(t).at = "fetch" /\ Top(t).name \in Names
    BY <1>1, <1>3 DEF Fetch, At, Frame
  <2>2. CASE Return(t, NoNetwork)
    <3>1. FoundBy(Top(t)) = NoNetwork
      BY <2>1 DEF FoundBy
    <3>. QED BY <1>1, <2>1, <2>2, <3>1, ReturnReplies
  <2>3. CASE ~Return(t, NoNetwork)
    <3>. DEFINE e == base[Top(t).name]
                f == [Top(t) EXCEPT !.at = "cache", !.net = e.network, !.res = Copy(e.expiration)]
    <3>1. Goto(t, f)
      BY <1>3, <2>3 DEF Fetch
    <3>2. e.network \in Networks /\ Copy(e.expiration) \in Reservations
      BY <2>1 DEF IInv, TypeOK, Copy, Reservations
    <3>3. f \in Frame /\ f.name = Top(t).name /\ f.at = "cache"
      <4>. HIDE DEF e
      <4>. QED BY <1>1, <3>2 DEF Frame, FrameRecord
    <3>. HIDE DEF f
    <3>4. Lookups' = Lookups
      BY <1>1, <2>1, <3>1, <3>3, GoesOnUnseen
    <3>. QED BY <1>1, <3>4, AbstractSteps
  <2>. QED BY <2>2, <2>3
<1>4. CASE AllTold(t)
  <2>1. Top(t).at = "untell" /\ Conclude(t)
    BY <1>4 DEF AllTold
  <2>2. CASE Top(t).kind = "get"
    <3>1. FoundBy(Top(t)) = Top(t).net /\ Return(t, Top(t).net)
      BY <2>1, <2>2 DEF FoundBy, Conclude
    <3>. QED BY <1>1, <2>1, <2>2, <3>1, ReturnReplies
  <2>3. CASE Top(t).kind # "get"
    <3>1. Lookups' = Lookups
      BY <1>1, <2>1, <2>3, FinishUnseen DEF Conclude
    <3>. QED BY <1>1, <3>1, AbstractSteps
  <2>. QED BY <2>2, <2>3
<1>. QED BY <1>2, <1>3, <1>4

\* Steps that ask and that leave.
LEMMA ClientsComeAndGo ==
  ASSUME IInv, NEW t \in Threads,
         Register(t) \/ Answer(t) \/ \E n \in Names : TellAdded(t, n) \/ Request(t, n)
  PROVE  [Leases!Next]_Leases!vars
<1>1. UNCHANGED <<world, agents>>
  BY DEF Register, Answer, TellAdded, Request, storage
<1>2. CASE Register(t)
  BY <1>1, <1>2, RegisterLeaves, AbstractSteps
<1>3. CASE Answer(t)
  BY <1>1, <1>3, AnswerLeaves, AbstractSteps
<1>4. ASSUME NEW n \in Names, TellAdded(t, n) PROVE Leases!Next
  BY <1>1, <1>4, TellAsks, AbstractSteps
<1>5. ASSUME NEW n \in Names, Request(t, n) PROVE Leases!Next
  BY <1>1, <1>5, RequestAsks, AbstractSteps
<1>. QED BY <1>2, <1>3, <1>4, <1>5

\* Steps of the environment, and calls that begin or end without a lookup.
LEMMA OthersStepLeases ==
  ASSUME IInv,
         \/ Tick \/ UNCHANGED vars
         \/ \E n \in ForeignNames : DeployElsewhere(n)
         \/ \E n \in Names : ExpireBase(n)
         \/ \E v \in Networks, n \in Names : WriteLate(v, n)
         \/ \E t \in Threads : WriteFails(t) \/ Scan(t)
  PROVE  [Leases!Next]_Leases!vars
<1>1. UNCHANGED <<depth, frames>> => Lookups' = Lookups
  BY DEF Lookups
<1>2. CASE Tick
  <2>1. now' > now /\ UNCHANGED <<deployments, agents, depth, frames>>
    BY <1>2 DEF Tick, storage, IInv, TypeOK
  <2>2. Leases!Tick
    BY <1>1, <2>1 DEF Leases!Tick
  <2>. QED BY <2>2 DEF Leases!Next
<1>3. CASE UNCHANGED vars
  <2>1. UNCHANGED <<world, agents, depth, frames>>
    BY <1>3 DEF vars, storage
  <2>. QED BY <1>1, <2>1, AbstractSteps
<1>4. ASSUME NEW n \in ForeignNames, DeployElsewhere(n) PROVE Leases!Next
  <2>1. {n} \in (SUBSET Names) \ {{}}
    BY ConstantsAssumption
  <2>2. /\ deployments' = Append(deployments, [names |-> {n}, expiration |-> now + Lifetime])
        /\ UNCHANGED <<now, agents, depth, frames>>
    BY <1>4 DEF DeployElsewhere, storage
  <2>3. Leases!Promise
    BY <1>1, <2>1, <2>2 DEF Leases!Promise
  <2>. QED BY <2>3 DEF Leases!Next
<1>5. ASSUME NEW n \in Names, ExpireBase(n) \/ \E v \in Networks : WriteLate(v, n)
      PROVE  [Leases!Next]_Leases!vars
  <2>1. UNCHANGED <<world, agents, depth, frames>>
    BY <1>5 DEF ExpireBase, WriteLate, storage
  <2>. QED BY <1>1, <2>1, AbstractSteps
<1>6. ASSUME NEW t \in Threads, WriteFails(t) PROVE [Leases!Next]_Leases!vars
  <2>1. /\ depth[t] > 0 /\ Top(t).kind = "deploy" /\ Top(t).at = "write" /\ Finish(t)
        /\ UNCHANGED <<world, agents>>
    BY <1>6 DEF WriteFails, At, storage
  <2>2. Lookups' = Lookups
    BY <2>1, FinishUnseen
  <2>. QED BY <2>1, <2>2, AbstractSteps
<1>7. ASSUME NEW t \in Threads, Scan(t) PROVE [Leases!Next]_Leases!vars
  <2>. DEFINE f == [NoFrame EXCEPT !.kind = "sweep", !.at = "sweep", !.gone = ExpiredNames]
  <2>1. Idle(t) /\ Start(t, f) /\ UNCHANGED <<world, agents>>
    BY <1>7 DEF Scan, storage
  <2>2. f.at = "sweep"
    BY DEF NoFrame
  <2>. HIDE DEF f
  <2>3. Lookups' = Lookups
    BY <2>1, <2>2, StartUnseen
  <2>. QED BY <2>1, <2>3, AbstractSteps
<1>. QED BY <1>2, <1>3, <1>4, <1>5, <1>6, <1>7

LEMMA LeasesStep == IInv /\ [Next]_vars => [Leases!Next]_Leases!vars
<1>. SUFFICES ASSUME IInv, [Next]_vars PROVE [Leases!Next]_Leases!vars
  OBVIOUS
<1>1. ASSUME NEW t \in Threads, Step(t) PROVE [Leases!Next]_Leases!vars
  <2>1. \/ Insert(t)
        \/ Evict(t) \/ Sweep(t) \/ \E n \in Names : TellRemoved(t, n) \/ WriteBase(t, n)
        \/ LookupReservation(t) \/ DropExpired(t) \/ ReadNetwork(t) \/ Cache(t)
        \/ Touch(t) \/ Fetch(t) \/ AllTold(t)
        \/ Register(t) \/ Answer(t) \/ \E n \in Names : TellAdded(t, n)
    BY <1>1, Zenon DEF Step
  <2>. QED BY <2>1, InsertPublishes, RemovalWithdraws, TestLooks, DropDrops, ReadLooks,
              CacheBringsBack, AnswersReply, ClientsComeAndGo, Zenon
<1>2. \/ \E t \in Threads : Step(t)
      \/ \E t \in Threads, B \in SUBSET OwnNames : Deploy(t, B)
      \/ \E t \in Threads, n \in Names : Request(t, n)
      \/ Tick \/ UNCHANGED vars
      \/ \E n \in ForeignNames : DeployElsewhere(n)
      \/ \E n \in Names : ExpireBase(n)
      \/ \E v \in Networks, n \in Names : WriteLate(v, n)
      \/ \E t \in Threads : WriteFails(t) \/ Scan(t)
  BY DEF Next
<1>. QED BY <1>1, <1>2, PromisesLeases, ClientsComeAndGo, OthersStepLeases, Zenon

\* The storage's threads show no more than one atomic table does: deployments that
\* appear whole, and lookups, a request's or the listener's, each answered with what
\* that table held under the name at one moment of the lookup, or, where it held
\* nothing, with what the lookup itself brought back.
THEOREM StorageImplementsLeases == Spec => ImplementsLeases
<1>. QED BY Inductive, LeasesInit, LeasesStep, PTL DEF Spec, ImplementsLeases, Leases!Spec
-----------------------------------------------------------------------------
(* Calls made one after another: one thread plays every role, and its calls nest
   (the listener calls back into the storage) but do not overlap.  Then
   AgreesBetweenCalls is an invariant of Spec: the listener, the tables, the limit
   and the base storage agree whenever no call is under way, whatever the clock, the
   late writes, the other servers and the base storage's expiration do.

   What agrees between calls does not agree within one.  The invariant says what the
   running call still owes, by the two uppermost frames of its stack: f, which runs,
   and g, which called f. *)


\* The frame that runs, and the one that called it.
Running(k, fs) == IF k = 0 THEN NoFrame ELSE fs[k]
CallerOf(k, fs) == IF k <= 1 THEN NoFrame ELSE fs[k - 1]

\* f may be called by g: the storage is entered by a deployment, a sweep or a
\* request, which looks up what the listener does not know; an announcement
\* looks up what was just stored.
Nested(g, f) ==
  \/ /\ g.at = "none"
     /\ \/ /\ f.kind = "deploy"
           /\ f.at \in {"write", "insert", "tell", "register", "evict", "untell"}
        \/ f.kind = "sweep" /\ f.at \in {"sweep", "untell"}
        \/ f.kind = "request" /\ f.at = "recheck"
  \/ /\ g.at = "recheck" /\ f.kind = "get" /\ f.name = g.name /\ f.todo \subseteq {f.name}
     /\ f.at \in {"lookup", "fetch", "cache", "tell", "register", "evict", "untell"}
  \/ /\ g.at = "register" /\ f.kind = "get" /\ f.name = g.name
     /\ f.at \in {"lookup", "drop", "read", "touch", "untell"}

WellNested(k, fs) == \A d \in 1 .. k : Nested(CallerOf(d, fs), fs[d])

-----------------------------------------------------------------------------
(* The listener: al is what it knows, ag what is stored *)

\* The listener knows n if and only if it is stored.
Known(ag, al, n) == al[n] # NoNetwork <=> ag[n] # NoNetwork

\* Names stored, and still to be announced as added.
Owed(g, f) ==
  IF f.at \in {"tell", "register"} THEN f.todo
  ELSE IF g.at = "register" THEN g.todo ELSE {}

\* Names removed, and still to be announced as removed.
Leaving(f) == IF f.at = "untell" THEN f.gone ELSE {}

\* The name that is being announced.
InHand(g, f) ==
  IF f.at = "register" THEN {f.name} ELSE IF g.at = "register" THEN {g.name} ELSE {}

\* How far the announcement of its name is.
Announcement(g, f, ag, al) ==
  /\ f.at = "register" =>
       IF f.got = NoNetwork THEN Known(ag, al, f.name) ELSE ag[f.name] # NoNetwork
  /\ g.at = "register" =>
       /\ f.at \in {"lookup", "read", "touch"} => ag[f.name] # NoNetwork
       /\ f.at = "lookup" => al[f.name] = NoNetwork
       /\ f.at = "touch" => f.net # NoNetwork
       /\ f.at \in {"lookup", "drop", "read", "untell"} => f.net = NoNetwork
       /\ f.at = "untell" => /\ f.gone \subseteq {f.name}
                             /\ f.name \notin f.gone => Known(ag, al, f.name)

\* What a name is to the listener, by what the running call owes it.
Followed(g, f, ag, al, n) ==
  /\ n \in Owed(g, f) => ag[n] # NoNetwork /\ al[n] = NoNetwork
  /\ n \in Leaving(f) => ag[n] = NoNetwork
  /\ n \notin Owed(g, f) \cup Leaving(f) \cup InHand(g, f) => Known(ag, al, n)

ListenerInv(g, f, ag, al) ==
  /\ Owed(g, f) \cap InHand(g, f) = {}
  /\ \A n \in Names : Followed(g, f, ag, al, n)
  /\ Announcement(g, f, ag, al)
  /\ g.at = "recheck" /\ f.at \in {"lookup", "fetch", "cache"} => ag[f.name] = NoNetwork

-----------------------------------------------------------------------------
(* The limit *)

Bounded == MaxItems > 0 => Cardinality(Present) <= MaxItems + OverflowThreshold

\* The running call will evict.
EvictionDue(g, f) == f.at \in {"tell", "register", "evict"} \/ g.at = "register"

-----------------------------------------------------------------------------
(* The base storage: ag is what is stored in memory, bs what is in the base *)
(* storage, and lf tells its late writes                                    *)

\* Network v of n may be in memory.
NotAhead(bs, lf, n, v) ==
  HasBase /\ v # NoNetwork /\ bs[n] # NoEntry =>
    v <= bs[n].network \/ lf[bs[n].network][n] = "written"

MemoryInv(f, ag, bs, lf) ==
  /\ \A n \in OwnNames : NotAhead(bs, lf, n, ag[n])
  /\ f.at = "write" => /\ \A n \in OwnNames : ag[n] <= f.net
                       /\ \A n \in f.batch \ f.todo : NotAhead(bs, lf, n, f.net)
  /\ f.at = "insert" => ~HasBase
  /\ f.at = "cache" /\ f.name \in OwnNames => NotAhead(bs, lf, f.name, f.net)

-----------------------------------------------------------------------------
(* The inductive invariant *)

Caller(t) == CallerOf(depth[t], frames[t])
Current(t) == Running(depth[t], frames[t])

SerialInv(t) ==
  /\ IInv
  /\ WellNested(depth[t], frames[t])
  /\ ListenerInv(Caller(t), Current(t), agents, allowed)
  /\ Touched = Present
  /\ Bounded \/ EvictionDue(Caller(t), Current(t))
  /\ MemoryInv(Current(t), agents, base, leftover)

\* After a step the frame f runs, called by g.
Becomes(t, g, f) ==
  /\ WellNested(depth'[t], frames'[t])
  /\ Caller(t)' = g
  /\ Current(t)' = f

-----------------------------------------------------------------------------
(* The steps of a stack *)

\* The shape of a stack that is not empty.
LEMMA StackShape ==
  ASSUME IInv, NEW t \in Threads, WellNested(depth[t], frames[t]), depth[t] > 0
  PROVE  /\ depth[t] \in 1 .. MaxDepth /\ MaxDepth \in Nat
         /\ frames[t] \in Stacks
         /\ Current(t) = Top(t) /\ Current(t) \in Frame
         /\ depth[t] = 1 => Caller(t) = NoFrame
         /\ depth[t] > 1 => Caller(t) = frames[t][depth[t] - 1] /\ Caller(t) \in Frame
         /\ Nested(Caller(t), Current(t))
<1>1. /\ MaxDepth \in Nat /\ depth[t] \in 0 .. MaxDepth
      /\ frames[t] \in Stacks
  BY ConstantsAssumption DEF IInv, TypeOK, Stacks
<1>2. depth[t] \in 1 .. depth[t] /\ depth[t] \in 1 .. MaxDepth
  BY <1>1
<1>3. Current(t) = Top(t) /\ Top(t) \in Frame
  BY <1>1, <1>2 DEF Current, Running, Top, Stacks
<1>4. depth[t] = 1 => Caller(t) = NoFrame
  BY DEF Caller, CallerOf
<1>5. depth[t] > 1 => Caller(t) = frames[t][depth[t] - 1] /\ Caller(t) \in Frame
  BY <1>1, <1>2 DEF Caller, CallerOf, Stacks
<1>6. Nested(CallerOf(depth[t], frames[t]), frames[t][depth[t]])
  BY <1>2 DEF WellNested
<1>. QED BY <1>1, <1>2, <1>3, <1>4, <1>5, <1>6 DEF Caller, Top

LEMMA StartBecomes ==
  ASSUME IInv, NEW t \in Threads, NEW f, Start(t, f), Nested(NoFrame, f)
  PROVE  Becomes(t, NoFrame, f)
<1>1. MaxDepth \in Nat \ {0} /\ frames[t] \in Stacks
  BY ConstantsAssumption DEF IInv, TypeOK, Stacks
<1>2. depth'[t] = 1 /\ frames'[t][1] = f
  BY <1>1 DEF Start, IInv, TypeOK, Stacks
<1>. QED BY <1>2 DEF Becomes, WellNested, Caller, CallerOf, Current, Running

LEMMA FinishBecomes ==
  ASSUME IInv, NEW t \in Threads, Finish(t)
  PROVE  Becomes(t, NoFrame, NoFrame)
<1>1. depth'[t] = 0
  BY DEF Finish, IInv, TypeOK
<1>. QED BY <1>1 DEF Becomes, WellNested, Caller, CallerOf, Current, Running

LEMMA GotoBecomes ==
  ASSUME IInv, NEW t \in Threads, WellNested(depth[t], frames[t]), depth[t] > 0,
         NEW f, Goto(t, f), Nested(Caller(t), f)
  PROVE  Becomes(t, Caller(t), f)
<1>. DEFINE k == depth[t]
            gs == frames'[t]
<1>1. k \in 1 .. MaxDepth /\ MaxDepth \in Nat /\ frames[t] \in Stacks
  BY StackShape
<1>2. /\ depth'[t] = k
      /\ gs[k] = f /\ \A d \in 1 .. MaxDepth : d # k => gs[d] = frames[t][d]
  BY <1>1 DEF Goto, IInv, TypeOK, Stacks
<1>. HIDE DEF gs
<1>3. \A d \in 1 .. k : CallerOf(d, gs) = CallerOf(d, frames[t])
  BY <1>1, <1>2 DEF CallerOf
<1>4. CallerOf(k, gs) = Caller(t) /\ Running(k, gs) = f
  BY <1>1, <1>2, <1>3 DEF Caller, Running
<1>5. WellNested(k, gs)
  BY <1>1, <1>2, <1>3, <1>4 DEF WellNested
<1>. QED BY <1>2, <1>4, <1>5 DEF Becomes, Caller, Current, gs

\* A frame calls a lookup to announce a name.
LEMMA CallBecomes ==
  ASSUME IInv, NEW t \in Threads, WellNested(depth[t], frames[t]), depth[t] > 0,
         NEW f, NEW n, Call(t, f, n), Nested(Caller(t), f), f.at = "register", f.name = n
  PROVE  Becomes(t, f, Lookup(n))
<1>. DEFINE k == depth[t]
            gs == frames'[t]
<1>1. k \in 1 .. MaxDepth /\ MaxDepth \in Nat /\ frames[t] \in Stacks /\ k < MaxDepth
  BY StackShape DEF Call
<1>2. /\ depth'[t] = k + 1
      /\ gs[k] = f /\ gs[k + 1] = Lookup(n)
      /\ \A d \in 1 .. MaxDepth : d # k /\ d # k + 1 => gs[d] = frames[t][d]
  <2>1. depth' = [depth EXCEPT ![t] = @ + 1]
        /\ frames' = [frames EXCEPT ![t][k] = f, ![t][k + 1] = Lookup(n)]
    BY DEF Call
  <2>2. frames'[t] = [frames[t] EXCEPT ![k] = f, ![k + 1] = Lookup(n)]
    BY <2>1 DEF IInv, TypeOK
  <2>3. k + 1 \in 1 .. MaxDepth /\ k # k + 1
    BY <1>1
  <2>. QED BY <1>1, <2>1, <2>2, <2>3 DEF IInv, TypeOK, Stacks
<1>. HIDE DEF gs
<1>3. \A d \in 1 .. k : CallerOf(d, gs) = CallerOf(d, frames[t])
  BY <1>1, <1>2 DEF CallerOf
<1>4. CallerOf(k + 1, gs) = f /\ Running(k + 1, gs) = Lookup(n)
  BY <1>1, <1>2 DEF CallerOf, Running
<1>5. Nested(f, Lookup(n))
  BY DEF Nested, Lookup, NoFrame
<1>6. WellNested(k + 1, gs)
  BY <1>1, <1>2, <1>3, <1>4, <1>5 DEF WellNested, Caller
<1>. QED BY <1>2, <1>4, <1>6 DEF Becomes, Caller, Current, gs

\* A lookup returns to a request or to an announcement, which is itself in no
\* announcement.
LEMMA ReturnBecomes ==
  ASSUME IInv, NEW t \in Threads, WellNested(depth[t], frames[t]), depth[t] > 0,
         Current(t).kind = "get", NEW v \in Networks, Return(t, v)
  PROVE  \E g : /\ Becomes(t, g, [Caller(t) EXCEPT !.got = v])
                /\ g.at # "register"
                /\ Nested(g, Caller(t))
<1>. DEFINE k == depth[t]
            gs == frames'[t]
            f == [frames[t][k - 1] EXCEPT !.got = v]
<1>1. /\ k \in 1 .. MaxDepth /\ MaxDepth \in Nat /\ frames[t] \in Stacks
      /\ Nested(Caller(t), Current(t))
  BY StackShape
<1>2. k > 1
  BY <1>1, StackShape DEF Nested, NoFrame
<1>3. Caller(t) = frames[t][k - 1] /\ Caller(t) \in Frame /\ Caller(t).at \in {"recheck", "register"}
  BY <1>1, <1>2, StackShape DEF Nested, NoFrame
<1>4. /\ depth'[t] = k - 1
      /\ gs[k - 1] = f
      /\ \A d \in 1 .. MaxDepth : d # k /\ d # k - 1 => gs[d] = frames[t][d]
  <2>1. depth' = [depth EXCEPT ![t] = @ - 1]
        /\ frames' = [frames EXCEPT ![t][k] = NoFrame, ![t][k - 1].got = v]
    BY DEF Return
  <2>2. frames'[t] = [frames[t] EXCEPT ![k] = NoFrame, ![k - 1].got = v]
    BY <2>1 DEF IInv, TypeOK
  <2>3. depth'[t] = k - 1
    BY <2>1 DEF IInv, TypeOK
  <2>4. k - 1 # k /\ k \in 1 .. MaxDepth /\ k - 1 \in 1 .. MaxDepth
    BY <1>1, <1>2
  <2>. DEFINE fs == frames[t]
  <2>5. fs \in Stacks /\ gs = [fs EXCEPT ![k] = NoFrame, ![k - 1].got = v]
        /\ f = [fs[k - 1] EXCEPT !.got = v]
    BY <1>1, <2>2
  <2>. HIDE DEF fs, gs, k, f
  <2>6. gs[k - 1] = f /\ \A d \in 1 .. MaxDepth : d # k /\ d # k - 1 => gs[d] = fs[d]
    BY <2>4, <2>5 DEF Stacks
  <2>. QED BY <2>3, <2>6 DEF fs, k
<1>. HIDE DEF gs
<1>5. \A d \in 1 .. k - 1 : CallerOf(d, gs) = CallerOf(d, frames[t])
  BY <1>1, <1>4 DEF CallerOf
<1>6. /\ f = [Caller(t) EXCEPT !.got = v]
      /\ f.kind = Caller(t).kind /\ f.at = Caller(t).at /\ f.name = Caller(t).name
      /\ f.todo = Caller(t).todo
  BY <1>3 DEF Frame, FrameRecord
<1>7. Nested(CallerOf(k - 1, gs), Caller(t))
  BY <1>1, <1>2, <1>3, <1>5 DEF WellNested
<1>8. Nested(CallerOf(k - 1, gs), f)
  BY <1>6, <1>7 DEF Nested
<1>9. WellNested(k - 1, gs)
  BY <1>1, <1>2, <1>4, <1>5, <1>8 DEF WellNested
<1>10. CallerOf(k - 1, gs).at # "register"
  BY <1>3, <1>7 DEF Nested
<1>11. Running(k - 1, gs) = f
  BY <1>1, <1>2, <1>4 DEF Running
<1>. QED BY <1>4, <1>6, <1>7, <1>9, <1>10, <1>11 DEF Becomes, Caller, Current, gs

-----------------------------------------------------------------------------
(* What the parts of the invariant need of a step *)

LEMMA Together ==
  ASSUME NEW t \in Threads, NEW g, NEW f, IInv', Becomes(t, g, f),
         ListenerInv(g, f, agents', allowed'),
         Touched' = Present', Bounded' \/ EvictionDue(g, f),
         MemoryInv(f, agents', base', leftover')
  PROVE  SerialInv(t)'
BY DEF SerialInv, Becomes

\* A frame that neither writes nor fills the tables asks nothing of the base
\* storage, whatever was removed from memory.
LEMMA MemoryRests ==
  ASSUME NEW e, NEW f, NEW ag, NEW al, NEW bs, NEW lf, MemoryInv(e, ag, bs, lf),
         \A n \in OwnNames : al[n] \in {ag[n], NoNetwork},
         f.at \notin {"write", "insert", "cache"}
  PROVE  MemoryInv(f, al, bs, lf)
BY DEF MemoryInv, NotAhead

LEMMA FiniteTables ==
  ASSUME IsFiniteSet(Names)
  PROVE  IsFiniteSet(Present) /\ Cardinality(Present) \in Nat
<1>1. Present \subseteq Names
  BY DEF Present
<1>. QED BY <1>1, FS_Subset, FS_CardinalityType

LEMMA ThresholdIsNatural == OverflowThreshold \in Nat
<1>1. MaxItems \in Int
  BY ConstantsAssumption
<1>2. RoundTwentieth(MaxItems) \in Int
  BY <1>1 DEF RoundTwentieth
<1>. QED BY <1>2 DEF OverflowThreshold

\* A removal keeps the tables in step and below the limit.
LEMMA RemovalKeepsLimit ==
  ASSUME IsFiniteSet(Names), Touched = Present, NEW S, Remove(S)
  PROVE  /\ Touched' = Present'
         /\ Present' = Present \ S
         /\ Bounded => Bounded'
<1>1. Touched' = Touched \ S /\ Present' = Present \ S
  BY RemoveEmpties DEF Touched, Present
<1>2. Cardinality(Present') <= Cardinality(Present)
  BY <1>1, FiniteTables, FS_Subset
<1>3. Cardinality(Present') \in Nat
  BY <1>1, FiniteTables, FS_Subset, FS_CardinalityType
<1>. QED BY <1>1, <1>2, <1>3, FiniteTables, ThresholdIsNatural, ConstantsAssumption DEF Bounded

\* The tables stay: the same names are present.
LEMMA TablesStay ==
  ASSUME UNCHANGED storage
  PROVE  /\ Touched' = Touched /\ Present' = Present
         /\ Bounded' <=> Bounded
BY DEF storage, Touched, Present, Bounded

\* Calls that owe nothing leave the listener and the tables in agreement.
LEMMA NothingOwed ==
  ASSUME NEW g, NEW f, NEW ag, NEW al,
         g.at # "register", f.at \notin {"tell", "register", "untell"}
  PROVE  /\ ListenerInv(g, f, ag, al) => \A n \in Names : Known(ag, al, n)
         /\ (\A n \in Names : Known(ag, al, n)) /\ f.at \notin {"lookup", "fetch", "cache"}
              => ListenerInv(g, f, ag, al)
BY DEF ListenerInv, Followed, Owed, Leaving, InHand, Announcement

-----------------------------------------------------------------------------
(* The invariant holds at first, and is kept by what others do *)

LEMMA SerialInit ==
  ASSUME Init, NEW t \in Threads, IsFiniteSet(Names)
  PROVE  SerialInv(t)
<1>1. IInv /\ depth[t] = 0
  BY InvInit DEF Init
<1>2. Caller(t) = NoFrame /\ Current(t) = NoFrame
  BY <1>1 DEF Caller, CallerOf, Current, Running
<1>3. \A n \in Names : agents[n] = NoNetwork /\ allowed[n] = NoNetwork /\ accessTimes[n] = NoTime
  BY DEF Init
<1>4. ListenerInv(NoFrame, NoFrame, agents, allowed)
  BY <1>3, NothingOwed DEF NoFrame, Known
<1>5. Touched = Present /\ Present = {}
  BY <1>3 DEF Touched, Present
<1>6. Bounded
  BY <1>5, FS_EmptySet, ThresholdIsNatural, ConstantsAssumption DEF Bounded
<1>7. MemoryInv(NoFrame, agents, base, leftover)
  BY <1>3 DEF MemoryInv, NotAhead, NoFrame, OwnNames
<1>8. WellNested(depth[t], frames[t])
  BY <1>1 DEF WellNested
<1>. QED BY <1>1, <1>2, <1>4, <1>5, <1>6, <1>7, <1>8 DEF SerialInv

\* The clock, the other servers, the base storage's expiration and the late writes.
LEMMA OthersKeepSerialInv ==
  ASSUME NEW t \in Threads, SerialInv(t), IInv',
         \/ Tick \/ UNCHANGED vars
         \/ \E n \in ForeignNames : DeployElsewhere(n)
         \/ \E n \in Names : ExpireBase(n)
         \/ \E v \in Networks, n \in Names : WriteLate(v, n)
  PROVE  SerialInv(t)'
<1>. DEFINE g == Caller(t)
            f == Current(t)
<1>1. UNCHANGED <<storage, allowed, depth, frames>>
  BY DEF Tick, vars, DeployElsewhere, ExpireBase, WriteLate
<1>2. Becomes(t, g, f)
  BY <1>1 DEF SerialInv, Becomes, Caller, Current
<1>3. ListenerInv(g, f, agents', allowed')
  BY <1>1 DEF SerialInv, storage
<1>4. Touched' = Present' /\ (Bounded' \/ EvictionDue(g, f))
  BY <1>1, TablesStay DEF SerialInv
<1>5. MemoryInv(f, agents', base', leftover')
  <2>1. \A n \in OwnNames : \A v : NotAhead(base, leftover, n, v) => NotAhead(base', leftover', n, v)
    <3>1. CASE Tick \/ UNCHANGED vars
      BY <3>1 DEF Tick, vars, disk
    <3>2. ASSUME NEW m \in ForeignNames, DeployElsewhere(m)
          PROVE  \A n \in OwnNames : base'[n] = base[n] /\ leftover' = leftover
      BY <3>2 DEF DeployElsewhere, OwnNames, IInv, TypeOK, SerialInv
    <3>3. ASSUME NEW m \in Names, ExpireBase(m)
          PROVE  \A n \in OwnNames : base'[n] \in {base[n], NoEntry} /\ leftover' = leftover
      BY <3>3 DEF ExpireBase, OwnNames, IInv, TypeOK, SerialInv
    <3>4. ASSUME NEW v \in Networks, NEW m \in Names, WriteLate(v, m), NEW n \in OwnNames
          PROVE  \/ base'[n] = base[n] /\ \A w \in Networks : leftover'[w][n] = leftover[w][n]
                 \/ leftover'[base'[n].network][n] = "written"
      BY <3>4 DEF WriteLate, OwnNames, IInv, TypeOK, SerialInv
    <3>5. \A n \in OwnNames : base[n].network \in Networks
      BY DEF OwnNames, IInv, TypeOK, SerialInv
    <3>. QED BY <3>1, <3>2, <3>3, <3>4, <3>5 DEF NotAhead
  <2>2. agents' = agents
    BY <1>1 DEF storage
  <2>3. ASSUME IInv, depth[t] > 0, f.at = "write" PROVE f.batch \subseteq OwnNames
    <3>1. Nested(g, f) /\ FrameFits(deployments, now, f)
      BY <2>3, StackShape, TopFits DEF SerialInv
    <3>2. f.kind = "deploy"
      BY <2>3, <3>1 DEF Nested
    <3>. QED BY <3>1, <3>2 DEF FrameFits
  <2>4. f.at = "write" => f.batch \subseteq OwnNames
    <3>1. depth[t] = 0 => f = NoFrame
      BY DEF Current, Running
    <3>2. depth[t] \in Nat /\ IInv
      BY DEF SerialInv, IInv, TypeOK
    <3>. QED BY <2>3, <3>1, <3>2 DEF NoFrame
  <2>. QED BY <2>1, <2>2, <2>4 DEF MemoryInv, SerialInv
<1>. QED BY <1>2, <1>3, <1>4, <1>5, Together

-----------------------------------------------------------------------------
(* The steps of a deployment *)

\* What is known of the two uppermost frames while a call is under way.
LEMMA UnderWay ==
  ASSUME NEW t \in Threads, SerialInv(t), depth[t] > 0
  PROVE  /\ Current(t) = Top(t) /\ Top(t) \in Frame
         /\ Nested(Caller(t), Top(t))
         /\ Caller(t).at = "none" => depth[t] = 1 /\ Caller(t) = NoFrame
         /\ Caller(t).at # "none" => depth[t] > 1 /\ Caller(t) \in Frame
         /\ FrameFits(deployments, now, Top(t))
         /\ ListenerInv(Caller(t), Top(t), agents, allowed)
         /\ Touched = Present
         /\ Bounded \/ EvictionDue(Caller(t), Top(t))
         /\ MemoryInv(Top(t), agents, base, leftover)
<1>1. IInv /\ WellNested(depth[t], frames[t])
  BY DEF SerialInv
<1>2. Current(t) = Top(t) /\ Nested(Caller(t), Top(t))
  BY <1>1, StackShape
<1>3. /\ Caller(t).at = "none" => depth[t] = 1 /\ Caller(t) = NoFrame
      /\ Caller(t).at # "none" => depth[t] > 1 /\ Caller(t) \in Frame
  <2>1. depth[t] \in 1 .. MaxDepth /\ MaxDepth \in Nat
    BY <1>1, StackShape
  <2>2. CASE depth[t] = 1
    BY <1>1, <2>2, StackShape DEF NoFrame
  <2>3. CASE depth[t] > 1
    <3>1. Top(t).kind = "get"
      BY <1>1, <2>1, <2>3, TopFits
    <3>. QED BY <1>1, <1>2, <2>3, <3>1, StackShape DEF Nested
  <2>. QED BY <2>1, <2>2, <2>3
<1>. QED BY <1>1, <1>2, <1>3, TopFits DEF SerialInv

\* Nobody calls when the thread is idle.
LEMMA AtRest ==
  ASSUME NEW t \in Threads, SerialInv(t), Idle(t)
  PROVE  /\ \A n \in Names : Known(agents, allowed, n)
         /\ Touched = Present /\ Bounded
         /\ MemoryInv(NoFrame, agents, base, leftover)
<1>1. Caller(t) = NoFrame /\ Current(t) = NoFrame
  BY DEF Idle, Caller, CallerOf, Current, Running
<1>2. NoFrame.at = "none"
  BY DEF NoFrame
<1>. QED BY <1>1, <1>2, NothingOwed DEF SerialInv, EvictionDue

LEMMA DeployKeepsSerialInv ==
  ASSUME NEW t \in Threads, SerialInv(t), IInv', NEW B \in SUBSET OwnNames, Deploy(t, B)
  PROVE  SerialInv(t)'
<1>. DEFINE v == Len(deployments) + 1
            f == [NoFrame EXCEPT !.kind = "deploy", !.batch = B,
                                 !.at = IF HasBase THEN "write" ELSE "insert",
                                 !.todo = IF HasBase THEN B ELSE {},
                                 !.net = v]
<1>1. Start(t, f) /\ Idle(t) /\ UNCHANGED <<storage, disk, allowed>>
  BY DEF Deploy, NextDeployment
<1>2. /\ f.kind = "deploy" /\ f.batch = B /\ f.net = v
      /\ f.at = (IF HasBase THEN "write" ELSE "insert")
      /\ HasBase => f.todo = B
  BY DEF NoFrame
<1>. HIDE DEF f
<1>3. Becomes(t, NoFrame, f)
  <2>1. Nested(NoFrame, f)
    BY <1>2 DEF Nested, NoFrame
  <2>. QED BY <1>1, <2>1, StartBecomes DEF SerialInv
<1>4. ListenerInv(NoFrame, f, agents', allowed')
  BY <1>1, <1>2, AtRest, NothingOwed DEF NoFrame, storage
<1>5. Touched' = Present' /\ Bounded'
  BY <1>1, AtRest, TablesStay
<1>6. MemoryInv(f, agents', base', leftover')
  <2>1. \A n \in OwnNames : agents[n] <= v
    <3>1. ASSUME NEW n \in OwnNames, agents[n] # NoNetwork PROVE agents[n] <= v
      BY <3>1 DEF SerialInv, IInv, LeaseKept, IsLeaseOf, DeployedUnder, TypeOK, OwnNames
    <3>2. Len(deployments) \in Nat
      BY DEF SerialInv, IInv, TypeOK
    <3>. QED BY <3>1, <3>2 DEF NoNetwork
  <2>2. MemoryInv(NoFrame, agents, base, leftover) /\ UNCHANGED <<agents, base, leftover>>
    BY <1>1, AtRest DEF storage, disk
  <2>. QED BY <1>2, <2>1, <2>2, ConstantsAssumption DEF MemoryInv
<1>. QED BY <1>3, <1>4, <1>5, <1>6, Together

LEMMA WriteBaseKeepsSerialInv ==
  ASSUME NEW t \in Threads, SerialInv(t), IInv', NEW n \in Names, WriteBase(t, n)
  PROVE  SerialInv(t)'
<1>. DEFINE e == Top(t)
            f == [e EXCEPT !.todo = @ \ {n}]
<1>1. /\ depth[t] > 0 /\ e.kind = "deploy" /\ e.at = "write" /\ n \in e.todo
      /\ base' = [base EXCEPT ![n] = [network |-> e.net, expiration |-> expirationOf[n]]]
      /\ Goto(t, f)
      /\ UNCHANGED <<storage, leftover, allowed>>
  BY DEF WriteBase, At
<1>2. /\ e \in Frame /\ FrameFits(deployments, now, e) /\ Nested(Caller(t), e)
      /\ ListenerInv(Caller(t), e, agents, allowed)
      /\ MemoryInv(e, agents, base, leftover)
      /\ Touched = Present /\ (Bounded \/ EvictionDue(Caller(t), e))
  BY <1>1, UnderWay
<1>3. /\ f.kind = "deploy" /\ f.at = "write" /\ f.batch = e.batch /\ f.net = e.net
      /\ f.todo = e.todo \ {n}
  BY <1>1, <1>2 DEF Frame, FrameRecord
<1>4. Caller(t).at = "none"
  BY <1>1, <1>2 DEF Nested
<1>. HIDE DEF e, f
<1>5. Becomes(t, Caller(t), f)
  <2>1. Nested(Caller(t), f)
    BY <1>3, <1>4 DEF Nested
  <2>. QED BY <1>1, <2>1, GotoBecomes DEF SerialInv
<1>6. ListenerInv(Caller(t), f, agents', allowed')
  BY <1>1, <1>2, <1>3, <1>4, NothingOwed DEF storage
<1>7. Touched' = Present' /\ Bounded'
  BY <1>1, <1>2, <1>4, TablesStay DEF EvictionDue
<1>8. MemoryInv(f, agents', base', leftover')
  <2>1. /\ \A m \in Names : m # n => base'[m] = base[m]
        /\ base'[n].network = e.net
    BY <1>1 DEF SerialInv, IInv, TypeOK
  <2>2. e.batch \subseteq OwnNames /\ OwnNames \subseteq Names
    BY <1>1, <1>2 DEF FrameFits, OwnNames
  <2>3. e.net \in Nat
    BY <1>1, <1>2 DEF FrameFits
  <2>4. \A m \in OwnNames : agents[m] <= e.net
    BY <1>1, <1>2 DEF MemoryInv
  <2>5. \A m \in OwnNames : \A v : m # n /\ NotAhead(base, leftover, m, v)
                            => NotAhead(base', leftover', m, v)
    BY <1>1, <2>1, <2>2 DEF NotAhead
  <2>6. \A v : v <= e.net => NotAhead(base', leftover', n, v)
    BY <2>1 DEF NotAhead
  <2>7. agents' = agents
    BY <1>1 DEF storage
  <2>8. ASSUME NEW m \in OwnNames PROVE NotAhead(base', leftover', m, agents[m])
    BY <1>2, <2>4, <2>5, <2>6 DEF MemoryInv
  <2>9. ASSUME NEW m \in f.batch \ f.todo PROVE NotAhead(base', leftover', m, f.net)
    <3>1. e.net <= e.net
      BY <2>3
    <3>. QED BY <1>1, <1>2, <1>3, <2>2, <2>5, <2>6, <3>1 DEF MemoryInv
  <2>. QED BY <1>3, <2>4, <2>7, <2>8, <2>9 DEF MemoryInv
<1>. QED BY <1>5, <1>6, <1>7, <1>8, Together

LEMMA WriteFailsKeepsSerialInv ==
  ASSUME NEW t \in Threads, SerialInv(t), IInv', WriteFails(t)
  PROVE  SerialInv(t)'
<1>. DEFINE e == Top(t)
<1>1. /\ depth[t] > 0 /\ e.kind = "deploy" /\ e.at = "write"
      /\ \E n \in e.todo : leftover' = LeftBehind(e.todo \ {n}, e.net)
      /\ Finish(t)
      /\ UNCHANGED <<storage, base, allowed>>
  BY DEF WriteFails, At
<1>2. /\ Nested(Caller(t), e)
      /\ ListenerInv(Caller(t), e, agents, allowed)
      /\ MemoryInv(e, agents, base, leftover)
      /\ Touched = Present /\ (Bounded \/ EvictionDue(Caller(t), e))
  BY <1>1, UnderWay
<1>3. Caller(t).at = "none"
  BY <1>1, <1>2 DEF Nested
<1>. HIDE DEF e
<1>4. Becomes(t, NoFrame, NoFrame)
  BY <1>1, FinishBecomes DEF SerialInv
<1>5. ListenerInv(NoFrame, NoFrame, agents', allowed')
  BY <1>1, <1>2, <1>3, NothingOwed DEF storage, NoFrame
<1>6. Touched' = Present' /\ Bounded'
  BY <1>1, <1>2, <1>3, TablesStay DEF EvictionDue
<1>7. MemoryInv(NoFrame, agents', base', leftover')
  <2>1. \A v \in Networks : v # e.net => leftover'[v] = leftover[v]
    BY <1>1 DEF LeftBehind, SerialInv, IInv, TypeOK
  <2>2. agents' = agents /\ base' = base
    BY <1>1 DEF storage
  <2>3. \A n \in OwnNames : base[n].network \in Networks
    BY DEF SerialInv, IInv, TypeOK, OwnNames
  <2>4. ASSUME NEW n \in OwnNames PROVE NotAhead(base, leftover', n, agents[n])
    BY <1>1, <1>2, <2>1, <2>3 DEF MemoryInv, NotAhead
  <2>. QED BY <2>2, <2>4 DEF MemoryInv, NoFrame
<1>. QED BY <1>4, <1>5, <1>6, <1>7, Together

LEMMA InsertKeepsSerialInv ==
  ASSUME NEW t \in Threads, SerialInv(t), IInv', Insert(t)
  PROVE  SerialInv(t)'
<1>. DEFINE e == Top(t)
            added == {n \in e.batch : agents[n] = NoNetwork}
            f == [e EXCEPT !.at = IF added = {} THEN "evict" ELSE "tell", !.todo = added]
<1>1. /\ depth[t] > 0 /\ e.kind = "deploy"
      /\ e.at = "insert" \/ (e.at = "write" /\ e.todo = {})
      /\ Goto(t, f)
      /\ UNCHANGED <<base, leftover, allowed>>
  BY DEF Insert, Written, At, disk
<1>2. /\ e \in Frame /\ FrameFits(deployments, now, e) /\ Nested(Caller(t), e)
      /\ ListenerInv(Caller(t), e, agents, allowed)
      /\ MemoryInv(e, agents, base, leftover)
      /\ Touched = Present
  BY <1>1, UnderWay
<1>3. /\ f.kind = "deploy" /\ f.at \in {"evict", "tell"}
      /\ f.at = "tell" => f.todo = added
      /\ f.at = "evict" => added = {}
  BY <1>1, <1>2 DEF Frame, FrameRecord
<1>4. Caller(t).at = "none" /\ e.at \in {"insert", "write"}
  BY <1>1, <1>2 DEF Nested
<1>5. /\ e.net # NoNetwork /\ e.batch \subseteq OwnNames /\ OwnNames \subseteq Names
      /\ \A n \in Names : n \in e.batch => agents'[n] = e.net /\ accessTimes'[n] = now
      /\ \A n \in Names : n \notin e.batch =>
           agents'[n] = agents[n] /\ accessTimes'[n] = accessTimes[n]
  BY InsertFills DEF SerialInv, OwnNames
<1>6. \A n : n \in added <=> n \in e.batch /\ agents[n] = NoNetwork
  OBVIOUS
<1>. HIDE DEF e, f, added
<1>7. Becomes(t, Caller(t), f)
  <2>1. Nested(Caller(t), f)
    BY <1>3, <1>4 DEF Nested
  <2>. QED BY <1>1, <2>1, GotoBecomes DEF SerialInv
<1>8. ListenerInv(Caller(t), f, agents', allowed')
  <2>1. \A n \in Names : Known(agents, allowed, n)
    BY <1>2, <1>4, NothingOwed
  <2>2. \A n \in Names : /\ n \in added => agents'[n] # NoNetwork /\ allowed'[n] = NoNetwork
                         /\ n \notin added => Known(agents', allowed', n)
    BY <1>1, <1>5, <1>6, <2>1 DEF Known
  <2>3. added \subseteq Names
    BY <1>5, <1>6
  <2>. QED BY <1>3, <1>4, <2>2, <2>3
       DEF ListenerInv, Followed, Owed, Leaving, InHand, Announcement
<1>9. Touched' = Present' /\ EvictionDue(Caller(t), f)
  <2>1. now # NoTime
    BY DEF SerialInv, IInv, TypeOK, NoTime
  <2>2. \A n \in Names : accessTimes'[n] # NoTime <=> agents'[n] # NoNetwork
    BY <1>2, <1>5, <2>1 DEF Touched, Present
  <2>. QED BY <1>3, <2>2 DEF Touched, Present, EvictionDue
<1>10. MemoryInv(f, agents', base', leftover')
  <2>1. ASSUME NEW n \in OwnNames PROVE NotAhead(base, leftover, n, agents'[n])
    <3>1. CASE n \in e.batch
      BY <1>1, <1>2, <1>5, <3>1 DEF MemoryInv, NotAhead
    <3>2. CASE n \notin e.batch
      BY <1>2, <1>5, <3>2 DEF MemoryInv
    <3>. QED BY <3>1, <3>2
  <2>. QED BY <1>1, <1>3, <2>1 DEF MemoryInv
<1>. QED BY <1>7, <1>8, <1>9, <1>10, Together

-----------------------------------------------------------------------------
(* The steps that tell the listener *)

\* A lookup returns: what it was called for goes on.
LEMMA ReturnKeepsSerialInv ==
  ASSUME NEW t \in Threads, SerialInv(t), IInv', depth[t] > 0, Top(t).kind = "get",
         Top(t).at \notin {"tell", "register", "evict"},
         NEW v \in Networks, Return(t, v),
         UNCHANGED <<agents, allowed, base, leftover>>, Touched' = Touched,
         IF Caller(t).at = "register"
         THEN /\ \A n \in Names :
                   /\ n \in Caller(t).todo => agents[n] # NoNetwork /\ allowed[n] = NoNetwork
                   /\ n \notin Caller(t).todo \cup {Caller(t).name} => Known(agents, allowed, n)
              /\ IF v = NoNetwork THEN Known(agents, allowed, Caller(t).name)
                 ELSE agents[Caller(t).name] # NoNetwork
         ELSE \A n \in Names : Known(agents, allowed, n)
  PROVE  SerialInv(t)'
<1>. DEFINE c == Caller(t)
            f == [c EXCEPT !.got = v]
<1>1. /\ Current(t) = Top(t) /\ Nested(c, Top(t)) /\ Touched = Present
      /\ Bounded \/ EvictionDue(c, Top(t))
      /\ ListenerInv(c, Top(t), agents, allowed)
      /\ MemoryInv(Top(t), agents, base, leftover)
  BY UnderWay
<1>2. c.at \in {"recheck", "register"}
  BY <1>1 DEF Nested
<1>3. c \in Frame
  BY <1>2, UnderWay
<1>4. f.at = c.at /\ f.name = c.name /\ f.todo = c.todo /\ f.got = v
  BY <1>3 DEF Frame, FrameRecord
<1>5. PICK g : Becomes(t, g, f) /\ g.at # "register" /\ Nested(g, c)
  BY <1>1, ReturnBecomes DEF SerialInv
<1>6. Present' = Present /\ Touched' = Present' /\ (Bounded' <=> Bounded)
  BY <1>1 DEF Present, Bounded
<1>7. Bounded' \/ EvictionDue(g, f)
  BY <1>1, <1>2, <1>4, <1>6 DEF EvictionDue
<1>8. MemoryInv(f, agents', base', leftover')
  BY <1>1, <1>2, <1>4, MemoryRests
<1>. HIDE DEF f, c
<1>9. ListenerInv(g, f, agents', allowed')
  <2>1. CASE c.at = "recheck"
    BY <1>4, <1>5, <2>1, NothingOwed DEF c
  <2>2. CASE c.at = "register"
    <3>1. c.todo \cap {c.name} = {}
      BY <1>1, <1>2, <2>2 DEF ListenerInv, Owed, InHand
    <3>. QED BY <1>4, <1>5, <2>2, <3>1
         DEF ListenerInv, Followed, Owed, Leaving, InHand, Announcement, c
  <2>. QED BY <1>2, <2>1, <2>2
<1>. QED BY <1>5, <1>6, <1>7, <1>8, <1>9, Together

LEMMA TellAddedKeepsSerialInv ==
  ASSUME NEW t \in Threads, SerialInv(t), IInv', NEW n \in Names, TellAdded(t, n)
  PROVE  SerialInv(t)'
<1>. DEFINE e == Top(t)
            f == [e EXCEPT !.at = "register", !.name = n, !.todo = @ \ {n}]
<1>1. /\ depth[t] > 0 /\ e.at = "tell" /\ n \in e.todo /\ Call(t, f, n)
      /\ UNCHANGED <<storage, disk, allowed>>
  BY DEF TellAdded
<1>2. /\ e \in Frame /\ Nested(Caller(t), e)
      /\ ListenerInv(Caller(t), e, agents, allowed)
      /\ MemoryInv(e, agents, base, leftover)
      /\ Touched = Present
  BY <1>1, UnderWay
<1>3. /\ f.kind = e.kind /\ f.at = "register" /\ f.name = n /\ f.todo = e.todo \ {n}
  BY <1>1, <1>2 DEF Frame, FrameRecord
<1>4. /\ Lookup(n).at = "lookup" /\ Lookup(n).name = n /\ Lookup(n).net = NoNetwork
  BY DEF Lookup, NoFrame
<1>. HIDE DEF e, f
<1>5. Becomes(t, f, Lookup(n))
  <2>1. Nested(Caller(t), f)
    BY <1>1, <1>2, <1>3 DEF Nested
  <2>. QED BY <1>1, <1>3, <2>1, CallBecomes DEF SerialInv
<1>6. ListenerInv(f, Lookup(n), agents', allowed')
  <2>. DEFINE l == Lookup(n)
  <2>1. /\ Owed(f, l) = e.todo \ {n} /\ InHand(f, l) = {n} /\ Leaving(l) = {}
        /\ Owed(Caller(t), e) = e.todo /\ Leaving(e) = {} /\ InHand(Caller(t), e) = {}
    BY <1>1, <1>2, <1>3, <1>4 DEF Nested, Owed, InHand, Leaving
  <2>2. \A m \in Names : Followed(Caller(t), e, agents, allowed, m)
    BY <1>2 DEF ListenerInv
  <2>3. \A m \in Names : Followed(f, l, agents, allowed, m)
    BY <1>1, <2>1, <2>2 DEF Followed
  <2>4. agents[n] # NoNetwork /\ allowed[n] = NoNetwork
    BY <1>1, <2>1, <2>2 DEF Followed
  <2>5. agents' = agents /\ allowed' = allowed
    BY <1>1 DEF storage
  <2>. HIDE DEF l
  <2>. QED BY <1>3, <1>4, <2>1, <2>3, <2>4, <2>5 DEF ListenerInv, Announcement, l
<1>7. Touched' = Present' /\ EvictionDue(f, Lookup(n))
  BY <1>1, <1>2, <1>3, TablesStay DEF EvictionDue
<1>8. MemoryInv(Lookup(n), agents', base', leftover')
  BY <1>1, <1>2, <1>4, MemoryRests DEF storage, disk
<1>. QED BY <1>5, <1>6, <1>7, <1>8, Together

LEMMA RegisterKeepsSerialInv ==
  ASSUME NEW t \in Threads, SerialInv(t), IInv', Register(t)
  PROVE  SerialInv(t)'
<1>. DEFINE e == Top(t)
            f == [e EXCEPT !.at = IF e.todo = {} THEN "evict" ELSE "tell", !.got = NoNetwork]
<1>1. /\ depth[t] > 0 /\ e.at = "register" /\ Goto(t, f)
      /\ allowed' = IF e.got = NoNetwork THEN allowed ELSE [allowed EXCEPT ![e.name] = e.got]
      /\ UNCHANGED <<storage, disk>>
  BY DEF Register
<1>2. /\ e \in Frame /\ Nested(Caller(t), e)
      /\ ListenerInv(Caller(t), e, agents, allowed)
      /\ MemoryInv(e, agents, base, leftover)
      /\ Touched = Present
  BY <1>1, UnderWay
<1>3. /\ f.kind = e.kind /\ f.at = (IF e.todo = {} THEN "evict" ELSE "tell")
      /\ f.name = e.name /\ f.todo = e.todo
  BY <1>1, <1>2 DEF Frame, FrameRecord
<1>4. Caller(t).at \in {"none", "recheck"}
  BY <1>1, <1>2 DEF Nested
<1>. HIDE DEF e, f
<1>5. Becomes(t, Caller(t), f)
  <2>1. Nested(Caller(t), f)
    BY <1>1, <1>2, <1>3 DEF Nested
  <2>. QED BY <1>1, <2>1, GotoBecomes DEF SerialInv
<1>6. ListenerInv(Caller(t), f, agents', allowed')
  <2>1. /\ e.name \notin e.todo
        /\ \A n \in Names : /\ n \in e.todo => agents[n] # NoNetwork /\ allowed[n] = NoNetwork
                            /\ n \notin e.todo \cup {e.name} => Known(agents, allowed, n)
        /\ IF e.got = NoNetwork THEN Known(agents, allowed, e.name)
           ELSE agents[e.name] # NoNetwork
    BY <1>1, <1>2 DEF ListenerInv, Followed, Owed, Leaving, InHand, Announcement
  <2>2. \A n \in Names : /\ n # e.name => allowed'[n] = allowed[n]
                         /\ n = e.name => Known(agents, allowed', n)
    BY <1>1, <2>1 DEF Known, SerialInv, IInv, TypeOK
  <2>3. \A n \in Names : /\ n \in e.todo => agents[n] # NoNetwork /\ allowed'[n] = NoNetwork
                         /\ n \notin e.todo => Known(agents, allowed', n)
    BY <2>1, <2>2 DEF Known
  <2>4. agents' = agents
    BY <1>1 DEF storage
  <2>. QED BY <1>3, <1>4, <2>3, <2>4
       DEF ListenerInv, Followed, Owed, Leaving, InHand, Announcement
<1>7. Touched' = Present' /\ EvictionDue(Caller(t), f)
  BY <1>1, <1>2, <1>3, TablesStay DEF EvictionDue
<1>8. MemoryInv(f, agents', base', leftover')
  BY <1>1, <1>2, <1>3, MemoryRests DEF storage, disk
<1>. QED BY <1>5, <1>6, <1>7, <1>8, Together

LEMMA TellRemovedKeepsSerialInv ==
  ASSUME NEW t \in Threads, SerialInv(t), IInv', NEW n \in Names, TellRemoved(t, n)
  PROVE  SerialInv(t)'
<1>. DEFINE e == Top(t)
            f == [e EXCEPT !.gone = @ \ {n}]
<1>1. /\ depth[t] > 0 /\ e.at = "untell" /\ n \in e.gone /\ Goto(t, f)
      /\ allowed' = [allowed EXCEPT ![n] = NoNetwork]
      /\ UNCHANGED <<storage, disk>>
  BY DEF TellRemoved, Forgotten
<1>2. /\ e \in Frame /\ Nested(Caller(t), e)
      /\ ListenerInv(Caller(t), e, agents, allowed)
      /\ MemoryInv(e, agents, base, leftover)
      /\ Touched = Present /\ (Bounded \/ EvictionDue(Caller(t), e))
  BY <1>1, UnderWay
<1>3. /\ f.kind = e.kind /\ f.at = e.at /\ f.name = e.name /\ f.todo = e.todo
      /\ f.net = e.net /\ f.gone = e.gone \ {n}
  BY <1>1, <1>2 DEF Frame, FrameRecord
<1>. HIDE DEF e, f
<1>4. Becomes(t, Caller(t), f)
  <2>1. Nested(Caller(t), f)
    BY <1>1, <1>2, <1>3 DEF Nested
  <2>. QED BY <1>1, <2>1, GotoBecomes DEF SerialInv
<1>5. ListenerInv(Caller(t), f, agents', allowed')
  <2>. DEFINE c == Caller(t)
  <2>1. c.at = "register" => e.name = c.name
    BY <1>1, <1>2 DEF Nested
  <2>2. /\ Owed(c, f) = Owed(c, e) /\ InHand(c, f) = InHand(c, e)
        /\ Leaving(e) = e.gone /\ Leaving(f) = e.gone \ {n}
        /\ Owed(c, e) # {} => c.at = "register" /\ InHand(c, e) = {c.name}
    BY <1>1, <1>3 DEF Owed, InHand, Leaving
  <2>3. n \notin Owed(c, e)
    BY <1>1, <1>2, <2>1, <2>2 DEF ListenerInv, Announcement
  <2>4. agents' = agents /\ agents[n] = NoNetwork
    BY <1>1, <1>2, <2>2 DEF ListenerInv, Followed, storage
  <2>5. allowed'[n] = NoNetwork /\ \A m \in Names : m # n => allowed'[m] = allowed[m]
    BY <1>1 DEF SerialInv, IInv, TypeOK
  <2>6. Known(agents, allowed', n)
    BY <2>4, <2>5 DEF Known
  <2>. HIDE DEF c
  <2>7. ASSUME NEW m \in Names PROVE Followed(c, f, agents, allowed', m)
    <3>1. Followed(c, e, agents, allowed, m)
      BY <1>2 DEF ListenerInv, c
    <3>2. CASE m = n
      BY <2>2, <2>3, <2>4, <2>6, <3>2 DEF Followed
    <3>3. CASE m # n
      BY <2>2, <2>5, <3>1, <3>3 DEF Followed, Known
    <3>. QED BY <3>2, <3>3
  <2>8. e.name \in Names \/ c.at # "register"
    BY <1>1, <1>2 DEF Nested, Frame, c
  <2>9. Announcement(c, f, agents, allowed')
    <3>1. Announcement(c, e, agents, allowed)
      BY <1>2 DEF ListenerInv, c
    <3>2. c.at = "register" => f.gone \subseteq {f.name} /\ f.net = NoNetwork
      BY <1>1, <1>3, <3>1 DEF Announcement
    <3>3. c.at = "register" /\ f.name \notin f.gone => Known(agents, allowed', f.name)
      BY <1>1, <1>3, <2>5, <2>6, <2>8, <3>1 DEF Announcement, Known
    <3>. QED BY <1>1, <1>3, <3>2, <3>3 DEF Announcement
  <2>. QED BY <1>1, <1>2, <1>3, <2>2, <2>4, <2>7, <2>9 DEF ListenerInv, c
<1>6. Touched' = Present' /\ (Bounded' \/ EvictionDue(Caller(t), f))
  BY <1>1, <1>2, <1>3, TablesStay DEF EvictionDue
<1>7. MemoryInv(f, agents', base', leftover')
  BY <1>1, <1>2, <1>3, MemoryRests DEF storage, disk
<1>. QED BY <1>4, <1>5, <1>6, <1>7, Together

LEMMA AllToldKeepsSerialInv ==
  ASSUME NEW t \in Threads, SerialInv(t), IInv', AllTold(t)
  PROVE  SerialInv(t)'
<1>. DEFINE e == Top(t)
            c == Caller(t)
<1>1. /\ depth[t] > 0 /\ e.at = "untell" /\ e.gone = {} /\ Conclude(t)
      /\ UNCHANGED <<storage, disk, allowed>>
  BY DEF AllTold
<1>2. /\ e \in Frame /\ Nested(c, e)
      /\ ListenerInv(c, e, agents, allowed)
      /\ MemoryInv(e, agents, base, leftover)
      /\ Touched = Present /\ (Bounded \/ EvictionDue(c, e))
  BY <1>1, UnderWay
<1>. HIDE DEF e, c
<1>3. Leaving(e) = {} /\ e.net \in Networks
  BY <1>1, <1>2 DEF Leaving, Frame, FrameRecord
<1>4. CASE e.kind = "get"
  <2>1. Return(t, e.net) /\ UNCHANGED <<agents, allowed, base, leftover>> /\ Touched' = Touched
    BY <1>1, <1>4, TablesStay DEF Conclude, e, storage, disk
  <2>2. CASE c.at = "register"
    <3>1. e.name = c.name
      BY <1>2, <2>2 DEF Nested
    <3>2. /\ \A n \in Names :
               /\ n \in c.todo => agents[n] # NoNetwork /\ allowed[n] = NoNetwork
               /\ n \notin c.todo \cup {c.name} => Known(agents, allowed, n)
      BY <1>1, <1>2, <1>3, <2>2 DEF ListenerInv, Followed, Owed, InHand
    <3>3. e.net = NoNetwork /\ Known(agents, allowed, c.name)
      BY <1>1, <1>2, <2>2, <3>1 DEF ListenerInv, Announcement
    <3>. QED BY <1>1, <1>3, <1>4, <2>1, <2>2, <3>2, <3>3, ReturnKeepsSerialInv DEF e, c
  <2>3. CASE c.at # "register"
    <3>1. \A n \in Names : Known(agents, allowed, n)
      BY <1>1, <1>2, <1>3, <2>3 DEF ListenerInv, Followed, Owed, InHand
    <3>. QED BY <1>1, <1>3, <1>4, <2>1, <2>3, <3>1, ReturnKeepsSerialInv DEF e, c
  <2>. QED BY <2>2, <2>3
<1>5. CASE e.kind # "get"
  <2>1. c.at = "none" /\ Finish(t)
    BY <1>1, <1>2, <1>5 DEF Nested, Conclude, e
  <2>2. Becomes(t, NoFrame, NoFrame)
    BY <2>1, FinishBecomes DEF SerialInv
  <2>3. \A n \in Names : Known(agents, allowed, n)
    BY <1>1, <1>2, <1>3, <2>1 DEF ListenerInv, Followed, Owed, InHand
  <2>4. ListenerInv(NoFrame, NoFrame, agents', allowed')
    BY <1>1, <2>3, NothingOwed DEF storage, NoFrame
  <2>5. Touched' = Present' /\ Bounded'
    BY <1>1, <1>2, <2>1, TablesStay DEF EvictionDue
  <2>6. MemoryInv(NoFrame, agents', base', leftover')
    BY <1>1, <1>2, MemoryRests DEF storage, disk, NoFrame
  <2>. QED BY <2>2, <2>4, <2>5, <2>6, Together
<1>. QED BY <1>4, <1>5

-----------------------------------------------------------------------------
(* The steps that remove *)

\* What was removed is to be told.
LEMMA RemovedIsLeaving ==
  ASSUME NEW c, NEW e, NEW f, NEW S, Remove(S), UNCHANGED allowed,
         c.at # "register",
         \A n \in Names : Known(agents, allowed, n),
         f.at = "untell", f.gone = S
  PROVE  ListenerInv(c, f, agents', allowed')
<1>1. Owed(c, f) = {} /\ InHand(c, f) = {} /\ Leaving(f) = S
  BY DEF Owed, InHand, Leaving
<1>2. \A n \in Names : Followed(c, f, agents', allowed', n)
  BY <1>1, RemoveEmpties DEF Followed, Known
<1>. QED BY <1>1, <1>2 DEF ListenerInv, Announcement

LEMMA EvictKeepsSerialInv ==
  ASSUME IsFiniteSet(Names), NEW t \in Threads, SerialInv(t), IInv', Evict(t)
  PROVE  SerialInv(t)'
<1>. DEFINE e == Top(t)
            c == Caller(t)
<1>1. /\ depth[t] > 0 /\ e.at = "evict" /\ UNCHANGED <<world, disk, allowed>>
  BY DEF Evict
<1>2. /\ e \in Frame /\ Nested(c, e)
      /\ ListenerInv(c, e, agents, allowed)
      /\ MemoryInv(e, agents, base, leftover)
      /\ Touched = Present
  BY <1>1, UnderWay
<1>3. c.at # "register" /\ \A n \in Names : Known(agents, allowed, n)
  BY <1>1, <1>2, NothingOwed DEF Nested
<1>4. ASSUME NEW S, Goto(t, [e EXCEPT !.at = "untell", !.gone = S]),
             ListenerInv(c, [e EXCEPT !.at = "untell", !.gone = S], agents', allowed'),
             \A n \in OwnNames : agents'[n] \in {agents[n], NoNetwork},
             Touched' = Present', Bounded'
      PROVE  SerialInv(t)'
  <2>. DEFINE f == [e EXCEPT !.at = "untell", !.gone = S]
  <2>1. f.kind = e.kind /\ f.at = "untell" /\ f.name = e.name /\ f.todo = e.todo
    BY <1>2 DEF Frame, FrameRecord
  <2>. HIDE DEF f, e
  <2>2. Nested(c, f)
    BY <1>1, <1>2, <2>1 DEF Nested
  <2>3. Becomes(t, c, f)
    BY <1>1, <1>4, <2>2, GotoBecomes DEF SerialInv, f
  <2>4. MemoryInv(f, agents', base', leftover')
    BY <1>1, <1>2, <1>4, <2>1, MemoryRests DEF disk
  <2>. QED BY <1>4, <2>3, <2>4, Together DEF f
<1>5. CASE /\ MaxItems <= 0 \/ Overflow <= OverflowThreshold
           /\ Goto(t, [e EXCEPT !.at = "untell", !.gone = {}])
           /\ UNCHANGED storage
  <2>. DEFINE f == [e EXCEPT !.at = "untell", !.gone = {}]
  <2>1. f.at = "untell" /\ f.gone = {}
    BY <1>2 DEF Frame, FrameRecord
  <2>. HIDE DEF f
  <2>2. ListenerInv(c, f, agents, allowed)
    BY <1>3, <2>1 DEF ListenerInv, Followed, Owed, InHand, Leaving, Announcement
  <2>3. Bounded
    BY <1>5, FiniteTables, ThresholdIsNatural, ConstantsAssumption DEF Bounded, Overflow
  <2>4. Touched' = Present' /\ Bounded' /\ agents' = agents /\ allowed' = allowed
    BY <1>1, <1>2, <1>5, <2>3, TablesStay DEF storage
  <2>. QED BY <1>4, <1>5, <2>2, <2>4 DEF f
<1>6. ASSUME MaxItems > 0, Overflow > OverflowThreshold, NEW S \in Oldest(Overflow),
             Remove(S), Goto(t, [e EXCEPT !.at = "untell", !.gone = S])
      PROVE  SerialInv(t)'
  <2>. DEFINE f == [e EXCEPT !.at = "untell", !.gone = S]
  <2>1. f.at = "untell" /\ f.gone = S
    BY <1>2 DEF Frame, FrameRecord
  <2>. HIDE DEF f
  <2>2. ListenerInv(c, f, agents', allowed')
    BY <1>1, <1>3, <1>6, <2>1, RemovedIsLeaving
  <2>3. Touched' = Present' /\ Present' = Present \ S
    BY <1>2, <1>6, RemovalKeepsLimit
  <2>4. Bounded'
    <3>1. S \subseteq Present
      BY <1>2, <1>6 DEF Oldest
    <3>2. IsFiniteSet(Present) /\ Cardinality(Present) \in Nat /\ MaxItems \in Int
      BY FiniteTables, ConstantsAssumption
    <3>3. Overflow < Cardinality(Touched) /\ Overflow = Cardinality(Present) - MaxItems
      BY <1>2, <1>6, <3>2 DEF Overflow
    <3>4. Cardinality(S) = Overflow
      BY <1>6, <3>3 DEF Oldest
    <3>5. Cardinality(Present \ S) = Cardinality(Present) - Cardinality(Present \cap S)
      BY <3>2, FS_Difference
    <3>6. Present \cap S = S
      BY <3>1
    <3>7. Cardinality(Present') = Cardinality(Present) - Overflow
      BY <2>3, <3>4, <3>5, <3>6
    <3>8. Cardinality(Present') = MaxItems
      BY <3>2, <3>3, <3>7
    <3>. QED BY <3>2, <3>8, ThresholdIsNatural DEF Bounded
  <2>5. \A n \in OwnNames : agents'[n] \in {agents[n], NoNetwork}
    BY <1>6, RemoveEmpties DEF OwnNames
  <2>. QED BY <1>4, <1>6, <2>2, <2>3, <2>4, <2>5 DEF f
<1>. QED BY <1>1, <1>5, <1>6 DEF Evict

LEMMA ScanKeepsSerialInv ==
  ASSUME NEW t \in Threads, SerialInv(t), IInv', Scan(t)
  PROVE  SerialInv(t)'
<1>. DEFINE f == [NoFrame EXCEPT !.kind = "sweep", !.at = "sweep", !.gone = ExpiredNames]
<1>1. Start(t, f) /\ Idle(t) /\ UNCHANGED <<storage, disk, allowed>>
  BY DEF Scan
<1>2. f.kind = "sweep" /\ f.at = "sweep" /\ NoFrame.at = "none"
  BY DEF NoFrame
<1>. HIDE DEF f
<1>3. Becomes(t, NoFrame, f)
  BY <1>1, <1>2, StartBecomes DEF SerialInv, Nested
<1>4. ListenerInv(NoFrame, f, agents', allowed')
  BY <1>1, <1>2, AtRest, NothingOwed DEF storage
<1>5. Touched' = Present' /\ Bounded'
  BY <1>1, AtRest, TablesStay
<1>6. MemoryInv(f, agents', base', leftover')
  BY <1>1, <1>2, AtRest, MemoryRests DEF storage, disk
<1>. QED BY <1>3, <1>4, <1>5, <1>6, Together

LEMMA SweepKeepsSerialInv ==
  ASSUME IsFiniteSet(Names), NEW t \in Threads, SerialInv(t), IInv', Sweep(t)
  PROVE  SerialInv(t)'
<1>. DEFINE e == Top(t)
            c == Caller(t)
            f == [e EXCEPT !.at = "untell"]
<1>1. /\ depth[t] > 0 /\ e.kind = "sweep" /\ e.at = "sweep" /\ Remove(e.gone)
      /\ Goto(t, f) /\ UNCHANGED <<disk, allowed>>
  BY DEF Sweep, At
<1>2. /\ e \in Frame /\ Nested(c, e)
      /\ ListenerInv(c, e, agents, allowed)
      /\ MemoryInv(e, agents, base, leftover)
      /\ Touched = Present /\ (Bounded \/ EvictionDue(c, e))
  BY <1>1, UnderWay
<1>3. f.kind = "sweep" /\ f.at = "untell" /\ f.gone = e.gone
  BY <1>1, <1>2 DEF Frame, FrameRecord
<1>4. c.at = "none"
  BY <1>1, <1>2 DEF Nested
<1>. HIDE DEF e, f
<1>5. Becomes(t, c, f)
  <2>1. Nested(c, f)
    BY <1>3, <1>4 DEF Nested
  <2>. QED BY <1>1, <2>1, GotoBecomes DEF SerialInv
<1>6. ListenerInv(c, f, agents', allowed')
  BY <1>1, <1>2, <1>3, <1>4, NothingOwed, RemovedIsLeaving
<1>7. Touched' = Present' /\ Bounded'
  BY <1>1, <1>2, <1>4, RemovalKeepsLimit DEF EvictionDue
<1>8. MemoryInv(f, agents', base', leftover')
  <2>1. \A n \in OwnNames : agents'[n] \in {agents[n], NoNetwork}
    BY <1>1, RemoveEmpties DEF OwnNames
  <2>. QED BY <1>1, <1>2, <1>3, <2>1, MemoryRests DEF disk
<1>. QED BY <1>5, <1>6, <1>7, <1>8, Together

LEMMA DropExpiredKeepsSerialInv ==
  ASSUME IsFiniteSet(Names), NEW t \in Threads, SerialInv(t), IInv', DropExpired(t)
  PROVE  SerialInv(t)'
<1>. DEFINE e == Top(t)
            c == Caller(t)
            f == [e EXCEPT !.at = "untell", !.gone = {e.name}]
<1>1. /\ depth[t] > 0 /\ e.kind = "get" /\ e.at = "drop" /\ Remove({e.name})
      /\ Goto(t, f) /\ UNCHANGED <<disk, allowed>>
  BY DEF DropExpired, At
<1>2. /\ e \in Frame /\ Nested(c, e)
      /\ ListenerInv(c, e, agents, allowed)
      /\ MemoryInv(e, agents, base, leftover)
      /\ Touched = Present
  BY <1>1, UnderWay
<1>3. /\ f.kind = "get" /\ f.at = "untell" /\ f.name = e.name /\ f.net = e.net
      /\ f.gone = {e.name}
  BY <1>1, <1>2 DEF Frame, FrameRecord
<1>4. c.at = "register" /\ c.name = e.name
  BY <1>1, <1>2 DEF Nested
<1>. HIDE DEF e, f, c
<1>5. Becomes(t, c, f)
  <2>1. Nested(c, f)
    BY <1>3, <1>4 DEF Nested
  <2>. QED BY <1>1, <2>1, GotoBecomes DEF SerialInv, c
<1>6. ListenerInv(c, f, agents', allowed')
  <2>1. /\ Owed(c, f) = c.todo /\ InHand(c, f) = {e.name} /\ Leaving(f) = {e.name}
        /\ Owed(c, e) = c.todo /\ InHand(c, e) = {e.name} /\ Leaving(e) = {}
    BY <1>1, <1>3, <1>4 DEF Owed, InHand, Leaving
  <2>2. /\ \A n \in Names : Followed(c, e, agents, allowed, n)
        /\ c.todo \cap {e.name} = {}
        /\ e.net = NoNetwork
    BY <1>1, <1>2, <1>4, <2>1 DEF ListenerInv, Announcement
  <2>3. \A n \in Names : Followed(c, f, agents', allowed', n)
    BY <1>1, <2>1, <2>2, RemoveEmpties DEF Followed, Known
  <2>. QED BY <1>3, <1>4, <2>1, <2>2, <2>3 DEF ListenerInv, Announcement
<1>7. Touched' = Present' /\ EvictionDue(c, f)
  BY <1>1, <1>2, <1>4, RemovalKeepsLimit DEF EvictionDue
<1>8. MemoryInv(f, agents', base', leftover')
  <2>1. \A n \in OwnNames : agents'[n] \in {agents[n], NoNetwork}
    BY <1>1, RemoveEmpties DEF OwnNames
  <2>. QED BY <1>1, <1>2, <1>3, <2>1, MemoryRests DEF disk
<1>. QED BY <1>5, <1>6, <1>7, <1>8, Together

-----------------------------------------------------------------------------
(* The steps of a lookup *)

\* A lookup made for an announcement, and one made for a request.
LEMMA LookupIsFor ==
  ASSUME NEW t \in Threads, SerialInv(t), depth[t] > 0, Top(t).kind = "get",
         Top(t).at \in {"lookup", "read", "touch", "fetch", "cache"}
  PROVE  /\ Top(t).name \in Names
         /\ Caller(t).at \in {"recheck", "register"}
         /\ Caller(t).at = "register" =>
              /\ Top(t).name = Caller(t).name
              /\ agents[Top(t).name] # NoNetwork
              /\ \A n \in Names :
                   /\ n \in Caller(t).todo => agents[n] # NoNetwork /\ allowed[n] = NoNetwork
                   /\ n \notin Caller(t).todo \cup {Caller(t).name} => Known(agents, allowed, n)
         /\ Caller(t).at = "recheck" =>
              /\ Top(t).at \in {"lookup", "fetch", "cache"}
              /\ agents[Top(t).name] = NoNetwork
              /\ \A n \in Names : Known(agents, allowed, n)
<1>. DEFINE e == Top(t)
            c == Caller(t)
<1>1. e \in Frame /\ Nested(c, e) /\ ListenerInv(c, e, agents, allowed)
  BY UnderWay
<1>2. e.name \in Names
  BY <1>1 DEF Frame
<1>3. /\ c.at \in {"recheck", "register"}
      /\ c.at = "register" => e.name = c.name /\ e.at \in {"lookup", "read", "touch"}
      /\ c.at = "recheck" => e.at \in {"lookup", "fetch", "cache"}
  BY <1>1 DEF Nested
<1>. HIDE DEF e, c
<1>4. ASSUME c.at = "register"
      PROVE  /\ agents[e.name] # NoNetwork
             /\ \A n \in Names :
                  /\ n \in c.todo => agents[n] # NoNetwork /\ allowed[n] = NoNetwork
                  /\ n \notin c.todo \cup {c.name} => Known(agents, allowed, n)
  <2>1. Owed(c, e) = c.todo /\ InHand(c, e) = {c.name} /\ Leaving(e) = {}
    BY <1>3, <1>4 DEF Owed, InHand, Leaving
  <2>. QED BY <1>1, <1>3, <1>4, <2>1 DEF ListenerInv, Followed, Announcement
<1>5. ASSUME c.at = "recheck"
      PROVE  agents[e.name] = NoNetwork /\ \A n \in Names : Known(agents, allowed, n)
  BY <1>1, <1>3, <1>5, NothingOwed DEF ListenerInv
<1>. QED BY <1>2, <1>3, <1>4, <1>5 DEF e, c

\* A lookup goes on to its next step, changing nothing yet.
LEMMA LookupGoesOn ==
  ASSUME NEW t \in Threads, SerialInv(t), IInv', depth[t] > 0, Top(t).kind = "get",
         Top(t).at \in {"lookup", "read", "fetch"},
         UNCHANGED <<storage, disk, allowed>>,
         NEW f, Goto(t, f), f.kind = "get", f.name = Top(t).name, f.todo = Top(t).todo,
         \/ /\ Caller(t).at = "register"
            /\ f.at \in {"drop", "read"} /\ f.net = Top(t).net /\ Top(t).at = "lookup"
         \/ /\ Caller(t).at = "register"
            /\ f.at = "touch" /\ f.net # NoNetwork
         \/ /\ Caller(t).at = "recheck"
            /\ f.at = "fetch"
         \/ /\ Caller(t).at = "recheck"
            /\ f.at = "cache"
            /\ f.name \in OwnNames => NotAhead(base, leftover, f.name, f.net)
  PROVE  SerialInv(t)'
<1>. DEFINE e == Top(t)
            c == Caller(t)
<1>1. /\ Nested(c, e)
      /\ ListenerInv(c, e, agents, allowed)
      /\ MemoryInv(e, agents, base, leftover)
      /\ Touched = Present /\ (Bounded \/ EvictionDue(c, e))
  BY UnderWay
<1>2. Nested(c, f)
  BY <1>1 DEF Nested
<1>3. Becomes(t, c, f)
  BY <1>2, GotoBecomes DEF SerialInv
<1>4. ListenerInv(c, f, agents', allowed')
  <2>1. agents' = agents /\ allowed' = allowed
    BY DEF storage
  <2>2. CASE c.at = "register"
    <3>1. Owed(c, f) = Owed(c, e) /\ InHand(c, f) = InHand(c, e) /\ Leaving(f) = Leaving(e)
      BY <2>2 DEF Owed, InHand, Leaving
    <3>2. \A n \in Names : Followed(c, f, agents, allowed, n)
      BY <1>1, <3>1 DEF ListenerInv, Followed
    <3>3. Announcement(c, f, agents, allowed)
      <4>1. agents[e.name] # NoNetwork
        BY <2>2, LookupIsFor
      <4>2. e.at = "lookup" => e.net = NoNetwork
        BY <1>1, <2>2 DEF ListenerInv, Announcement
      <4>. QED BY <2>2, <4>1, <4>2 DEF Announcement
    <3>. QED BY <1>1, <2>1, <2>2, <3>1, <3>2, <3>3 DEF ListenerInv
  <2>3. CASE c.at = "recheck"
    <3>1. agents[e.name] = NoNetwork /\ \A n \in Names : Known(agents, allowed, n)
      BY <2>3, LookupIsFor
    <3>. QED BY <2>1, <2>3, <3>1
         DEF ListenerInv, Followed, Owed, InHand, Leaving, Announcement
  <2>. QED BY <2>2, <2>3
<1>5. Touched' = Present' /\ (Bounded' \/ EvictionDue(c, f))
  BY <1>1, TablesStay DEF EvictionDue
<1>6. MemoryInv(f, agents', base', leftover')
  BY <1>1 DEF MemoryInv, storage, disk
<1>. QED BY <1>3, <1>4, <1>5, <1>6, Together

LEMMA LookupReservationKeepsSerialInv ==
  ASSUME NEW t \in Threads, SerialInv(t), IInv', LookupReservation(t)
  PROVE  SerialInv(t)'
<1>. DEFINE e == Top(t)
            c == Caller(t)
            r == reservations[e.name]
<1>1. depth[t] > 0 /\ e.kind = "get" /\ e.at = "lookup" /\ UNCHANGED <<world, storage, disk, allowed>>
  BY DEF LookupReservation, At
<1>2. e \in Frame
  BY <1>1, UnderWay
<1>3. /\ e.name \in Names
      /\ c.at \in {"recheck", "register"}
      /\ c.at = "register" => agents[e.name] # NoNetwork
      /\ c.at = "recheck" => agents[e.name] = NoNetwork /\ \A n \in Names : Known(agents, allowed, n)
  BY <1>1, LookupIsFor
<1>4. r = NoReservation <=> c.at = "recheck"
  BY <1>3 DEF SerialInv, IInv, TablesTogether
<1>5. \A x \in {"drop", "read", "fetch"} :
        /\ [e EXCEPT !.at = x].kind = "get" /\ [e EXCEPT !.at = x].name = e.name
        /\ [e EXCEPT !.at = x].todo = e.todo /\ [e EXCEPT !.at = x].net = e.net
        /\ [e EXCEPT !.at = x].at = x
  BY <1>1, <1>2 DEF Frame, FrameRecord
<1>6. CASE r # NoReservation /\ \E x \in {"drop", "read"} : Goto(t, [e EXCEPT !.at = x])
  <2>1. PICK x \in {"drop", "read"} : Goto(t, [e EXCEPT !.at = x])
    BY <1>6
  <2>. QED BY <1>1, <1>3, <1>4, <1>5, <1>6, <2>1, LookupGoesOn
<1>7. CASE r = NoReservation /\ Goto(t, [e EXCEPT !.at = "fetch"])
  BY <1>1, <1>3, <1>4, <1>5, <1>7, LookupGoesOn
<1>8. CASE r = NoReservation /\ Return(t, NoNetwork)
  <2>1. NoNetwork \in Networks
    BY ConstantsAssumption DEF NoNetwork, Networks
  <2>2. UNCHANGED <<agents, allowed, base, leftover>> /\ Touched' = Touched
    BY <1>1, TablesStay DEF storage, disk
  <2>. QED BY <1>1, <1>3, <1>4, <1>8, <2>1, <2>2, ReturnKeepsSerialInv
<1>. QED BY <1>6, <1>7, <1>8 DEF LookupReservation

LEMMA ReadNetworkKeepsSerialInv ==
  ASSUME NEW t \in Threads, SerialInv(t), IInv', ReadNetwork(t)
  PROVE  SerialInv(t)'
<1>. DEFINE e == Top(t)
            v == agents[e.name]
            f == [e EXCEPT !.at = "touch", !.net = v]
<1>1. /\ depth[t] > 0 /\ e.kind = "get" /\ e.at = "read"
      /\ v # NoNetwork => Goto(t, f)
      /\ UNCHANGED <<world, storage, disk, allowed>>
  BY DEF ReadNetwork, At
<1>2. e \in Frame
  BY <1>1, UnderWay
<1>3. Caller(t).at = "register" /\ v # NoNetwork
  BY <1>1, LookupIsFor
<1>4. f.kind = "get" /\ f.at = "touch" /\ f.name = e.name /\ f.todo = e.todo /\ f.net = v
  BY <1>1, <1>2 DEF Frame, FrameRecord
<1>. HIDE DEF f
<1>. QED BY <1>1, <1>3, <1>4, LookupGoesOn

LEMMA TouchKeepsSerialInv ==
  ASSUME NEW t \in Threads, SerialInv(t), IInv', Touch(t)
  PROVE  SerialInv(t)'
<1>. DEFINE e == Top(t)
            c == Caller(t)
<1>1. /\ depth[t] > 0 /\ e.kind = "get" /\ e.at = "touch" /\ Return(t, e.net)
      /\ accessTimes' = [accessTimes EXCEPT ![e.name] = now]
      /\ UNCHANGED <<world, reservations, agents, disk, allowed>>
  BY DEF Touch, At
<1>2. /\ e \in Frame /\ Touched = Present
      /\ ListenerInv(c, e, agents, allowed)
  BY <1>1, UnderWay
<1>3. /\ e.name \in Names /\ c.at = "register" /\ e.name = c.name
      /\ agents[c.name] # NoNetwork
      /\ \A n \in Names : /\ n \in c.todo => agents[n] # NoNetwork /\ allowed[n] = NoNetwork
                          /\ n \notin c.todo \cup {c.name} => Known(agents, allowed, n)
  BY <1>1, LookupIsFor
<1>4. e.net # NoNetwork /\ e.net \in Networks
  BY <1>1, <1>2, <1>3 DEF ListenerInv, Announcement, Frame, FrameRecord
<1>5. Touched' = Touched
  <2>1. now # NoTime /\ e.name \in Touched
    BY <1>2, <1>3 DEF SerialInv, IInv, TypeOK, NoTime, Present
  <2>. QED BY <1>1, <2>1 DEF Touched, SerialInv, IInv, TypeOK
<1>. HIDE DEF e, c
<1>6. UNCHANGED <<agents, allowed, base, leftover>>
  BY <1>1 DEF disk
<1>. QED BY <1>1, <1>3, <1>4, <1>5, <1>6, ReturnKeepsSerialInv DEF e, c

LEMMA FetchKeepsSerialInv ==
  ASSUME NEW t \in Threads, SerialInv(t), IInv', Fetch(t)
  PROVE  SerialInv(t)'
<1>. DEFINE e == Top(t)
            b == base[e.name]
            f == [e EXCEPT !.at = "cache", !.net = b.network, !.res = Copy(b.expiration)]
<1>1. /\ depth[t] > 0 /\ e.kind = "get" /\ e.at = "fetch"
      /\ Goto(t, f) \/ Return(t, NoNetwork)
      /\ UNCHANGED <<world, storage, disk, allowed>>
  BY DEF Fetch, At
<1>2. e \in Frame /\ Nested(Caller(t), e)
  BY <1>1, UnderWay
<1>3. /\ e.name \in Names /\ Caller(t).at = "recheck"
      /\ \A n \in Names : Known(agents, allowed, n)
  BY <1>1, <1>2, LookupIsFor DEF Nested
<1>4. /\ f.kind = "get" /\ f.at = "cache" /\ f.name = e.name /\ f.todo = e.todo
      /\ f.net = b.network
  BY <1>1, <1>2 DEF Frame, FrameRecord
<1>5. NotAhead(base, leftover, e.name, b.network)
  <2>1. b.network \in Int
    BY <1>3 DEF SerialInv, IInv, TypeOK, Networks
  <2>2. b.network <= b.network
    BY <2>1
  <2>. QED BY <2>2 DEF NotAhead
<1>. HIDE DEF f
<1>6. CASE Goto(t, f)
  BY <1>1, <1>3, <1>4, <1>5, <1>6, LookupGoesOn
<1>7. CASE Return(t, NoNetwork)
  <2>1. NoNetwork \in Networks
    BY ConstantsAssumption DEF NoNetwork, Networks
  <2>2. UNCHANGED <<agents, allowed, base, leftover>> /\ Touched' = Touched
    BY <1>1, TablesStay DEF storage, disk
  <2>. QED BY <1>1, <1>3, <1>7, <2>1, <2>2, ReturnKeepsSerialInv
<1>. QED BY <1>1, <1>6, <1>7

\* What was fetched for a request is stored, and is to be announced.
LEMMA CacheKeepsSerialInv ==
  ASSUME NEW t \in Threads, SerialInv(t), IInv', Cache(t)
  PROVE  SerialInv(t)'
<1>. DEFINE e == Top(t)
            c == Caller(t)
            f == [e EXCEPT !.at = "tell", !.todo = {e.name}, !.res = NoReservation]
<1>1. /\ depth[t] > 0 /\ e.kind = "get" /\ e.at = "cache" /\ Goto(t, f)
      /\ UNCHANGED <<disk, allowed>>
  BY DEF Cache, At
<1>2. /\ e \in Frame /\ Nested(c, e)
      /\ MemoryInv(e, agents, base, leftover)
      /\ Touched = Present
  BY <1>1, UnderWay
<1>3. /\ e.name \in Names /\ c.at = "recheck"
      /\ agents[e.name] = NoNetwork
      /\ \A n \in Names : Known(agents, allowed, n)
  BY <1>1, <1>2, LookupIsFor DEF Nested
<1>4. /\ e.net # NoNetwork
      /\ agents' = [agents EXCEPT ![e.name] = e.net]
      /\ accessTimes' = [accessTimes EXCEPT ![e.name] = now]
  BY CacheFills DEF SerialInv
<1>5. f.kind = "get" /\ f.at = "tell" /\ f.name = e.name /\ f.todo = {e.name}
  BY <1>1, <1>2 DEF Frame, FrameRecord
<1>6. /\ agents'[e.name] = e.net /\ accessTimes'[e.name] = now
      /\ \A n \in Names : n # e.name => agents'[n] = agents[n] /\ accessTimes'[n] = accessTimes[n]
  BY <1>3, <1>4 DEF SerialInv, IInv, TypeOK
<1>. HIDE DEF e, f
<1>7. Becomes(t, c, f)
  <2>1. Nested(c, f)
    BY <1>1, <1>2, <1>3, <1>5 DEF Nested
  <2>. QED BY <1>1, <2>1, GotoBecomes DEF SerialInv
<1>8. ListenerInv(c, f, agents', allowed')
  <2>1. Owed(c, f) = {e.name} /\ InHand(c, f) = {} /\ Leaving(f) = {}
    BY <1>3, <1>5 DEF Owed, InHand, Leaving
  <2>2. \A n \in Names : Followed(c, f, agents', allowed', n)
    BY <1>1, <1>3, <1>4, <1>6, <2>1 DEF Followed, Known
  <2>. QED BY <1>3, <1>5, <2>1, <2>2 DEF ListenerInv, Announcement
<1>9. Touched' = Present' /\ EvictionDue(c, f)
  <2>1. now # NoTime
    BY DEF SerialInv, IInv, TypeOK, NoTime
  <2>2. \A n \in Names : accessTimes'[n] # NoTime <=> agents'[n] # NoNetwork
    BY <1>2, <1>4, <1>6, <2>1 DEF Touched, Present
  <2>. QED BY <1>5, <2>2 DEF Touched, Present, EvictionDue
<1>10. MemoryInv(f, agents', base', leftover')
  <2>1. ASSUME NEW n \in OwnNames PROVE NotAhead(base, leftover, n, agents'[n])
    BY <1>1, <1>2, <1>6 DEF MemoryInv, OwnNames
  <2>. QED BY <1>1, <1>5, <2>1 DEF MemoryInv, disk
<1>. QED BY <1>7, <1>8, <1>9, <1>10, Together

\* A request looks up a network the listener does not know, so it is not stored.
LEMMA RequestKeepsSerialInv ==
  ASSUME NEW t \in Threads, SerialInv(t), IInv', NEW n \in Names, Request(t, n)
  PROVE  SerialInv(t)'
<1>. DEFINE q == [NoFrame EXCEPT !.kind = "request", !.at = "recheck",
                                 !.name = n, !.since = now]
            l == Lookup(n)
<1>1. /\ Idle(t) /\ allowed[n] = NoNetwork /\ MaxDepth >= 2
      /\ depth' = [depth EXCEPT ![t] = 2]
      /\ frames' = [frames EXCEPT ![t][1] = q, ![t][2] = l]
      /\ UNCHANGED <<world, storage, disk, allowed>>
  BY DEF Request
<1>2. /\ q.kind = "request" /\ q.at = "recheck" /\ q.name = n
      /\ l.kind = "get" /\ l.at = "lookup" /\ l.name = n /\ l.todo = {} /\ NoFrame.at = "none"
  BY DEF Lookup, NoFrame
<1>. HIDE DEF q, l
<1>3. Becomes(t, q, l)
  <2>1. frames'[t] = [frames[t] EXCEPT ![1] = q, ![2] = l] /\ depth'[t] = 2
    BY <1>1 DEF SerialInv, IInv, TypeOK
  <2>2. 1 \in 1 .. MaxDepth /\ 2 \in 1 .. MaxDepth /\ frames[t] \in Stacks
    BY <1>1, ConstantsAssumption DEF SerialInv, IInv, TypeOK, Stacks
  <2>3. frames'[t][1] = q /\ frames'[t][2] = l
    <3>1. ASSUME NEW fs \in Stacks
          PROVE  /\ [fs EXCEPT ![1] = q, ![2] = l][1] = q
                 /\ [fs EXCEPT ![1] = q, ![2] = l][2] = l
      BY <2>2 DEF Stacks
    <3>. QED BY <2>1, <2>2, <3>1
  <2>4. Nested(NoFrame, q) /\ Nested(q, l)
    BY <1>2 DEF Nested
  <2>5. WellNested(2, frames'[t])
    <3>1. /\ CallerOf(1, frames'[t]) = NoFrame /\ CallerOf(2, frames'[t]) = q
      BY <2>3 DEF CallerOf
    <3>2. \A d \in 1 .. 2 : d = 1 \/ d = 2
      OBVIOUS
    <3>. QED BY <2>3, <2>4, <3>1, <3>2 DEF WellNested
  <2>. QED BY <2>1, <2>3, <2>5 DEF Becomes, Caller, CallerOf, Current, Running
<1>4. ListenerInv(q, l, agents', allowed')
  <2>1. agents[n] = NoNetwork /\ \A m \in Names : Known(agents, allowed, m)
    BY <1>1, AtRest DEF Known
  <2>2. agents' = agents /\ allowed' = allowed
    BY <1>1 DEF storage
  <2>. QED BY <1>2, <2>1, <2>2
       DEF ListenerInv, Followed, Owed, InHand, Leaving, Announcement
<1>5. Touched' = Present' /\ Bounded'
  BY <1>1, AtRest, TablesStay
<1>6. MemoryInv(l, agents', base', leftover')
  BY <1>1, <1>2, AtRest, MemoryRests DEF storage, disk
<1>. QED BY <1>3, <1>4, <1>5, <1>6, Together

LEMMA AnswerKeepsSerialInv ==
  ASSUME NEW t \in Threads, SerialInv(t), IInv', Answer(t)
  PROVE  SerialInv(t)'
<1>. DEFINE e == Top(t)
            c == Caller(t)
<1>1. /\ depth[t] > 0 /\ e.kind = "request" /\ e.at = "recheck" /\ Finish(t)
      /\ UNCHANGED <<world, storage, disk, allowed>>
  BY DEF Answer, At
<1>2. /\ Nested(c, e)
      /\ ListenerInv(c, e, agents, allowed)
      /\ MemoryInv(e, agents, base, leftover)
      /\ Touched = Present /\ (Bounded \/ EvictionDue(c, e))
  BY <1>1, UnderWay
<1>3. c.at = "none" /\ NoFrame.at = "none"
  BY <1>1, <1>2 DEF Nested, NoFrame
<1>. HIDE DEF e, c
<1>4. Becomes(t, NoFrame, NoFrame)
  BY <1>1, FinishBecomes DEF SerialInv
<1>5. ListenerInv(NoFrame, NoFrame, agents', allowed')
  BY <1>1, <1>2, <1>3, NothingOwed DEF storage
<1>6. Touched' = Present' /\ Bounded'
  BY <1>1, <1>2, <1>3, TablesStay DEF EvictionDue
<1>7. MemoryInv(NoFrame, agents', base', leftover')
  BY <1>1, <1>2, <1>3, MemoryRests DEF storage, disk
<1>. QED BY <1>4, <1>5, <1>6, <1>7, Together

-----------------------------------------------------------------------------
(* The theorems *)

LEMMA SerialStep ==
  ASSUME NEW t, Threads = {t}, IsFiniteSet(Names), SerialInv(t), [Next]_vars
  PROVE  SerialInv(t)'
<1>1. IInv' /\ t \in Threads
  BY InvStep DEF SerialInv
<1>2. CASE Tick \/ UNCHANGED vars
  BY <1>1, <1>2, OthersKeepSerialInv
<1>3. CASE \E n \in ForeignNames : DeployElsewhere(n)
  BY <1>1, <1>3, OthersKeepSerialInv
<1>4. CASE (\E n \in Names : ExpireBase(n)) \/ (\E v \in Networks, n \in Names : WriteLate(v, n))
  BY <1>1, <1>4, OthersKeepSerialInv
<1>5. CASE \E B \in SUBSET OwnNames : Deploy(t, B)
  BY <1>1, <1>5, DeployKeepsSerialInv
<1>6. CASE \E n \in Names : Request(t, n)
  BY <1>1, <1>6, RequestKeepsSerialInv
<1>7. CASE WriteFails(t) \/ Scan(t)
  BY <1>1, <1>7, WriteFailsKeepsSerialInv, ScanKeepsSerialInv
<1>8. CASE Step(t)
  <2>1. CASE \E n \in Names : WriteBase(t, n) \/ TellAdded(t, n) \/ TellRemoved(t, n)
    BY <1>1, <2>1, WriteBaseKeepsSerialInv, TellAddedKeepsSerialInv, TellRemovedKeepsSerialInv
  <2>2. CASE Insert(t) \/ Register(t) \/ AllTold(t)
    BY <1>1, <2>2, InsertKeepsSerialInv, RegisterKeepsSerialInv, AllToldKeepsSerialInv
  <2>3. CASE Evict(t) \/ Sweep(t) \/ DropExpired(t)
    BY <1>1, <2>3, EvictKeepsSerialInv, SweepKeepsSerialInv, DropExpiredKeepsSerialInv
  <2>4. CASE LookupReservation(t) \/ ReadNetwork(t) \/ Touch(t)
    BY <1>1, <2>4, LookupReservationKeepsSerialInv, ReadNetworkKeepsSerialInv,
       TouchKeepsSerialInv
  <2>5. CASE Fetch(t) \/ Cache(t) \/ Answer(t)
    BY <1>1, <2>5, FetchKeepsSerialInv, CacheKeepsSerialInv, AnswerKeepsSerialInv
  <2>. QED BY <1>8, <2>1, <2>2, <2>3, <2>4, <2>5 DEF Step
<1>. QED BY <1>2, <1>3, <1>4, <1>5, <1>6, <1>7, <1>8 DEF Next

\* What the running call owes the listener, the limit and the base storage.
THEOREM SerialInvariance ==
  ASSUME NEW t, Threads = {t}, IsFiniteSet(Names)
  PROVE  Spec => []SerialInv(t)
<1>1. Init => SerialInv(t)
  BY SerialInit
<1>2. SerialInv(t) /\ [Next]_vars => SerialInv(t)'
  BY SerialStep
<1>. QED BY <1>1, <1>2, PTL DEF Spec

\* Calls made one after another leave the listener, the two tables, the limit and
\* the base storage in agreement: every network added, evicted, expired or dropped
\* was announced, the eviction leaves no more than max_items and its slack, and the
\* memory is not ahead of the base storage but for a late write
\* (expiring_agent_network_storage.py).
THEOREM CallsAgree ==
  ASSUME NEW t, Threads = {t}, IsFiniteSet(Names)
  PROVE  Spec => []AgreesBetweenCalls
<1>1. SerialInv(t) => AgreesBetweenCalls
  <2>. SUFFICES ASSUME SerialInv(t) PROVE AgreesBetweenCalls
    OBVIOUS
  <2>1. t \in Threads
    OBVIOUS
  <2>2. ASSUME Quiet PROVE Idle(t)
    BY <2>1, <2>2 DEF Quiet
  <2>3. ListenerAgrees
    BY <2>1, <2>2, AtRest DEF ListenerAgrees, Known
  <2>4. WithinLimit
    BY <2>1, <2>2, AtRest DEF WithinLimit, Bounded
  <2>5. MemoryNotAheadOfBase
    BY DEF SerialInv, MemoryInv, NotAhead, MemoryNotAheadOfBase
  <2>. QED BY <2>3, <2>4, <2>5 DEF AgreesBetweenCalls
<1>. QED BY <1>1, SerialInvariance, PTL
=============================================================================

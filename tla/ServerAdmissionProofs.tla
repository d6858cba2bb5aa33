----------------------- MODULE ServerAdmissionProofs -----------------------
(***************************************************************************)
(* Safety of ServerAdmission for any requests and limits: the count is that *)
(* of the requests processing and of those whose end it missed, so it can   *)
(* only be too high, and the limits hold.                                   *)
(***************************************************************************)
EXTENDS ServerAdmission, FiniteSetTheorems, TLAPS

\* The requests that are in num_processing: processing, or failed without
\* finish_client_request().
Counted == {r \in Requests : request[r] \in {"processing", "failed"} /\ Kind[r] # "mcp"}

CountInv == IsFiniteSet(Counted) /\ num_processing = Cardinality(Counted)

LimitInv == concurrent_requests_limit > 0 => num_processing <= concurrent_requests_limit

StopInv ==
  /\ serving <=> shutdown = "none"
  /\ serving => ~LimitReached(total)
  /\ shutdown = "exiting" => num_processing <= 0 \/ polls = MaxPolls

IInv == TypeOK /\ CountInv /\ LimitInv /\ StopInv
-----------------------------------------------------------------------------
\* The types are kept by every step.
LEMMA TypeStep == TypeOK /\ [Next]_vars => TypeOK'
<1>. SUFFICES ASSUME TypeOK, [Next]_vars PROVE TypeOK'
  OBVIOUS
<1>. USE AdmissionAssumption DEF TypeOK, counts, stopping
<1>1. ASSUME NEW r \in Requests, Prepare(r) PROVE TypeOK'
  BY <1>1 DEF Prepare, Moves
<1>2. ASSUME NEW r \in Requests, NoService(r) \/ Refuse(r) PROVE TypeOK'
  BY <1>2 DEF NoService, Refuse, Moves
<1>3. ASSUME NEW r \in Requests, Start(r) \/ StartRaises(r) PROVE TypeOK'
  BY <1>3 DEF Start, StartRaises, Moves
<1>4. ASSUME NEW r \in Requests, StartAndFinish(r) \/ Finish(r) PROVE TypeOK'
  <2>1. serving' \in BOOLEAN
    BY <1>4, Zenon DEF StartAndFinish, Finish, CountTotal
  <2>2. total' \in Nat /\ shutdown' \in {"none", "polling", "exiting"}
    BY <1>4 DEF StartAndFinish, Finish, CountTotal
  <2>3. /\ num_processing' \in Int /\ polls' \in 0 .. MaxPolls /\ running' \in BOOLEAN
        /\ request' \in [Requests -> {"new", "received", "processing", "finished",
                                      "refused", "failed"}]
    BY <1>4 DEF StartAndFinish, Finish, Moves
  <2>. QED BY <2>1, <2>2, <2>3
<1>5. ASSUME NEW r \in Requests, ListRaises(r) \/ ServeMcp(r) PROVE TypeOK'
  BY <1>5 DEF ListRaises, ServeMcp, Moves
<1>6. CASE Poll
  BY <1>6 DEF Poll
<1>7. CASE StopServer
  BY <1>7 DEF StopServer
<1>8. CASE UNCHANGED vars
  BY <1>8 DEF vars
<1>. QED BY <1>1, <1>2, <1>3, <1>4, <1>5, <1>6, <1>7, <1>8 DEF Next

\* TypeOK is an invariant.
THEOREM TypeCorrect == Spec => []TypeOK
<1>1. Init => TypeOK
  BY AdmissionAssumption DEF Init, TypeOK
<1>. QED BY <1>1, TypeStep, PTL DEF Spec
-----------------------------------------------------------------------------
\* What the steps of a request do to the set that is counted.
LEMMA CountedSteps ==
  ASSUME TypeOK, NEW r \in Requests
  PROVE  /\ Prepare(r) \/ NoService(r) \/ Refuse(r) \/ StartAndFinish(r) \/ ListRaises(r)
              \/ ServeMcp(r) => Counted' = Counted
         /\ Start(r) \/ StartRaises(r) => r \notin Counted /\ Counted' = Counted \cup {r}
         /\ Finish(r) => r \in Counted /\ Counted' = Counted \ {r}
<1>1. Prepare(r) => Counted' = Counted
  BY DEF TypeOK, Counted, Prepare, Moves
<1>2. NoService(r) \/ Refuse(r) => Counted' = Counted
  BY DEF TypeOK, Counted, NoService, Refuse, Moves
<1>3. StartAndFinish(r) => Counted' = Counted
  BY DEF TypeOK, Counted, StartAndFinish, Moves
<1>4. ListRaises(r) \/ ServeMcp(r) => Counted' = Counted
  BY DEF TypeOK, Counted, ListRaises, ServeMcp, Moves
<1>5. Start(r) \/ StartRaises(r) => r \notin Counted /\ Counted' = Counted \cup {r}
  BY DEF TypeOK, Counted, Start, StartRaises, Moves
<1>6. Finish(r) => r \in Counted /\ Counted' = Counted \ {r}
  BY DEF TypeOK, Counted, Finish, Moves
<1>. QED BY <1>1, <1>2, <1>3, <1>4, <1>5, <1>6

\* The other steps leave the requests and the count alone.
LEMMA OtherSteps ==
  Poll \/ StopServer \/ UNCHANGED vars =>
    UNCHANGED <<request, num_processing, serving, total>>
BY DEF Poll, StopServer, vars, counts

\* num_processing is kept equal to the number of counted requests.
LEMMA CountStep == TypeOK /\ CountInv /\ [Next]_vars => CountInv'
<1>. SUFFICES ASSUME TypeOK, CountInv, [Next]_vars PROVE CountInv'
  OBVIOUS
<1>. IsFiniteSet(Counted) /\ num_processing = Cardinality(Counted) /\ num_processing \in Int
  BY DEF CountInv, TypeOK
<1>1. ASSUME NEW r \in Requests,
             Prepare(r) \/ NoService(r) \/ Refuse(r) \/ StartAndFinish(r) \/ ListRaises(r)
               \/ ServeMcp(r)
      PROVE  CountInv'
  <2>1. num_processing' = num_processing
    BY <1>1 DEF Prepare, NoService, Refuse, StartAndFinish, ListRaises, ServeMcp, counts
  <2>. QED BY <1>1, <2>1, CountedSteps DEF CountInv
<1>2. ASSUME NEW r \in Requests, Start(r) \/ StartRaises(r) PROVE CountInv'
  <2>1. r \notin Counted /\ Counted' = Counted \cup {r}
    BY <1>2, CountedSteps
  <2>2. num_processing' = num_processing + 1
    BY <1>2 DEF Start, StartRaises
  <2>3. IsFiniteSet(Counted \cup {r}) /\ Cardinality(Counted \cup {r}) = Cardinality(Counted) + 1
    BY <2>1, FS_AddElement
  <2>. QED BY <2>1, <2>2, <2>3 DEF CountInv
<1>3. ASSUME NEW r \in Requests, Finish(r) PROVE CountInv'
  <2>1. r \in Counted /\ Counted' = Counted \ {r}
    BY <1>3, CountedSteps
  <2>2. num_processing' = num_processing - 1
    BY <1>3 DEF Finish
  <2>3. IsFiniteSet(Counted \ {r}) /\ Cardinality(Counted \ {r}) = Cardinality(Counted) - 1
    BY <2>1, FS_RemoveElement
  <2>. QED BY <2>1, <2>2, <2>3 DEF CountInv
<1>4. CASE Poll \/ StopServer \/ UNCHANGED vars
  BY <1>4, OtherSteps DEF CountInv, Counted
<1>. QED BY <1>1, <1>2, <1>3, <1>4 DEF Next

\* Only try_start_client_request() raises the count, below the limit.
LEMMA LimitStep == TypeOK /\ LimitInv /\ [Next]_vars => LimitInv'
<1>. SUFFICES ASSUME TypeOK, LimitInv, [Next]_vars PROVE LimitInv'
  OBVIOUS
<1>. num_processing \in Int /\ concurrent_requests_limit \in Int
  BY AdmissionAssumption DEF TypeOK
<1>1. ASSUME NEW r \in Requests, Start(r) \/ StartRaises(r) PROVE LimitInv'
  BY <1>1 DEF Start, StartRaises, Admits, LimitInv
<1>2. ASSUME NEW r \in Requests, Finish(r) PROVE LimitInv'
  BY <1>2 DEF Finish, LimitInv
<1>3. ASSUME NEW r \in Requests,
             Prepare(r) \/ NoService(r) \/ Refuse(r) \/ StartAndFinish(r) \/ ListRaises(r)
               \/ ServeMcp(r)
      PROVE  LimitInv'
  BY <1>3 DEF Prepare, NoService, Refuse, StartAndFinish, ListRaises, ServeMcp, counts, LimitInv
<1>4. CASE Poll \/ StopServer \/ UNCHANGED vars
  BY <1>4, OtherSteps DEF LimitInv
<1>. QED BY <1>1, <1>2, <1>3, <1>4 DEF Next

\* Counting an end keeps the server serving below its limit, and starts the
\* thread when it stops that.
LEMMA EndCounted ==
  ASSUME TypeOK, StopInv, CountTotal
  PROVE  /\ serving' <=> shutdown' = "none"
         /\ serving' => ~LimitReached(total')
         /\ shutdown' = "exiting" => shutdown = "exiting"
<1>. total' = total + 1
  BY DEF CountTotal
<1>1. CASE LimitReached(total + 1)
  BY <1>1 DEF CountTotal, StopInv
<1>2. CASE ~LimitReached(total + 1)
  <2>1. serving' <=> serving
    BY <1>2, Zenon DEF CountTotal
  <2>2. shutdown' = shutdown
    BY <1>2 DEF CountTotal
  <2>. QED BY <1>2, <2>1, <2>2 DEF StopInv
<1>. QED BY <1>1, <1>2

\* The server serves until it is past its limit, which starts the thread; once
\* the thread has found nothing processing nothing can be admitted.
LEMMA StopStep == TypeOK /\ CountInv /\ StopInv /\ [Next]_vars => StopInv'
<1>. SUFFICES ASSUME TypeOK, CountInv, StopInv, [Next]_vars PROVE StopInv'
  OBVIOUS
<1>. num_processing \in Int /\ polls \in Int /\ MaxPolls \in Int
  BY AdmissionAssumption DEF TypeOK
<1>1. ASSUME NEW r \in Requests, Start(r) \/ StartRaises(r) PROVE StopInv'
  BY <1>1 DEF Start, StartRaises, Admits, StopInv, stopping, LimitReached
<1>2. ASSUME NEW r \in Requests, StartAndFinish(r) PROVE StopInv'
  BY <1>2, EndCounted DEF StartAndFinish, StopInv
<1>3. ASSUME NEW r \in Requests, Finish(r) PROVE StopInv'
  BY <1>3, EndCounted DEF Finish, StopInv
<1>4. ASSUME NEW r \in Requests,
             Prepare(r) \/ NoService(r) \/ Refuse(r) \/ ListRaises(r) \/ ServeMcp(r)
      PROVE  StopInv'
  BY <1>4 DEF Prepare, NoService, Refuse, ListRaises, ServeMcp, counts, stopping, StopInv,
              LimitReached
<1>5. CASE Poll
  BY <1>5 DEF Poll, StopInv, counts, LimitReached, TypeOK
<1>6. CASE StopServer \/ UNCHANGED vars
  BY <1>6 DEF StopServer, vars, counts, stopping, StopInv, LimitReached
<1>. QED BY <1>1, <1>2, <1>3, <1>4, <1>5, <1>6 DEF Next

\* The inductive invariant: what num_processing counts, that it keeps to the
\* limit, and what the shutdown thread may rely on.
THEOREM Inductive == Spec => []IInv
<1>1. Init => IInv
  <2>. SUFFICES ASSUME Init PROVE IInv
    OBVIOUS
  <2>1. TypeOK
    BY AdmissionAssumption DEF Init, TypeOK
  <2>2. Counted = {}
    BY DEF Init, Counted
  <2>3. CountInv
    BY <2>2, FS_EmptySet DEF Init, CountInv
  <2>4. LimitInv /\ StopInv
    BY AdmissionAssumption DEF Init, LimitInv, StopInv, LimitReached
  <2>. QED BY <2>1, <2>3, <2>4 DEF IInv
<1>2. IInv /\ [Next]_vars => IInv'
  BY TypeStep, CountStep, LimitStep, StopStep DEF IInv
<1>. QED BY <1>1, <1>2, PTL DEF Spec
-----------------------------------------------------------------------------
\* The requests processing are among the counted ones.
LEMMA ProcessingCounted ==
  ASSUME TypeOK, CountInv
  PROVE  /\ IsFiniteSet(Processing)
         /\ Cardinality(Processing) <= num_processing
         /\ num_processing <= 0 => Processing = {}
<1>1. Processing \subseteq Counted
  BY DEF Processing, Counted
<1>2. IsFiniteSet(Counted) /\ num_processing = Cardinality(Counted) /\ Cardinality(Counted) \in Nat
  BY FS_CardinalityType DEF CountInv
<1>3. IsFiniteSet(Processing) /\ Cardinality(Processing) <= Cardinality(Counted)
  BY <1>1, <1>2, FS_Subset
<1>4. ASSUME num_processing <= 0 PROVE Processing = {}
  <2>1. Cardinality(Counted) = 0
    BY <1>2, <1>4
  <2>2. Counted = {}
    BY <1>2, <2>1, FS_EmptySet
  <2>. QED BY <1>1, <2>2
<1>. QED BY <1>2, <1>3, <1>4

\* However many requests arrive and fail, the counted ones processing keep to the
\* concurrent limit of try_start_client_request().
THEOREM ConcurrencyLimited == Spec => []WithinConcurrentLimit
<1>1. IInv => WithinConcurrentLimit
  <2>. SUFFICES ASSUME IInv, concurrent_requests_limit > 0
                PROVE  IsFiniteSet(Processing)
                       /\ Cardinality(Processing) <= concurrent_requests_limit
    BY DEF WithinConcurrentLimit
  <2>1. /\ IsFiniteSet(Processing) /\ Cardinality(Processing) <= num_processing
        /\ num_processing <= concurrent_requests_limit
    BY ProcessingCounted DEF IInv, LimitInv
  <2>2. Cardinality(Processing) \in Nat /\ num_processing \in Int
        /\ concurrent_requests_limit \in Int
    BY <2>1, FS_CardinalityType, AdmissionAssumption DEF IInv, TypeOK
  <2>. QED BY <2>1, <2>2
<1>. QED BY <1>1, Inductive, PTL

\* do_shutdown() stops the loop only with nothing counted processing, or after
\* its time is over.
THEOREM StopsOnlyWhenIdle == Spec => []StopsWhenIdle
<1>1. IInv => StopsWhenIdle
  BY ProcessingCounted DEF IInv, StopInv, StopsWhenIdle
<1>. QED BY <1>1, Inductive, PTL

\* Past the limit nothing that was received is admitted.
THEOREM NoLateAdmission == Spec => NoneAdmittedPastLimit
<1>1. IInv /\ [Next]_vars =>
        [\A r \in Requests :
           Kind[r] # "mcp" /\ request[r] = "received"
             /\ request'[r] \in {"processing", "finished", "failed"}
           => ~LimitReached(total)]_vars
  <2>. SUFFICES ASSUME IInv, Next, NEW r \in Requests, Kind[r] # "mcp",
                       request[r] = "received",
                       request'[r] \in {"processing", "finished", "failed"}
                PROVE  serving
    BY DEF IInv, StopInv
  <2>1. PICK q \in Requests :
           \/ Prepare(q) \/ NoService(q) \/ Refuse(q)
           \/ Start(q) \/ StartAndFinish(q) \/ StartRaises(q)
           \/ ListRaises(q) \/ Finish(q) \/ ServeMcp(q)
    BY OtherSteps DEF Next
  <2>2. CASE Start(q) \/ StartAndFinish(q) \/ StartRaises(q)
    BY <2>2 DEF Start, StartAndFinish, StartRaises, Admits
  <2>3. CASE Prepare(q) \/ NoService(q) \/ Refuse(q) \/ ListRaises(q) \/ Finish(q) \/ ServeMcp(q)
    <3>1. q # r => request'[r] = request[r]
      BY <2>3 DEF Prepare, NoService, Refuse, ListRaises, Finish, ServeMcp, Moves, IInv, TypeOK
    <3>2. q = r => FALSE
      BY <2>3 DEF Prepare, NoService, Refuse, ListRaises, Finish, ServeMcp, Moves, IInv, TypeOK
    <3>. QED BY <3>1, <3>2
  <2>. QED BY <2>1, <2>2, <2>3
<1>. QED BY <1>1, Inductive, PTL DEF Spec, NoneAdmittedPastLimit
=============================================================================

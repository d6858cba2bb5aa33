---------------------- MODULE OpenFgaAuthorizationProofs ----------------------
(***************************************************************************)
(* Proofs about OpenFgaAuthorization, for every set of processes, agents   *)
(* and concurrent requests, however their scopes overlap and whatever      *)
(* fails: a service is given only on the server's word, a process asks a   *)
(* store that is ready and creates at most one, and a request that has     *)
(* the scope for itself is answered.                                       *)
(***************************************************************************)
EXTENDS OpenFgaAuthorization, TLAPS

AuthorizationSpec == Init /\ [][Next]_authorizationVars

Question ==
  [pc : {"idle", "closing", "listing", "creating", "policy", "locking", "checking", "exiting", "lookup", "done"},
   wanted : SUBSET Agents, list : BOOLEAN, again : BOOLEAN, client : Nat, store : Nat,
   said : SUBSET Agents, answer : SUBSET Agents, raised : BOOLEAN, alone : BOOLEAN,
   result : {"none", "raised", "listed", "403", "service", "lookup", "404"}]

\* What the requests of C share in their process.
Shared(C) ==
  {l \in [client : Nat, open : SUBSET Nat, made : Nat, store : Nat, lock : C \cup {Nobody}, blocked : BOOLEAN] :
     l.open \subseteq 1..l.made /\ l.client \in 0..l.made}

Types ==
  /\ Calls \subseteq Processes \X Nat
  /\ asks \in [Calls -> Question] /\ local \in [Processes -> Shared(Calls)]
  /\ stores \in Seq(Processes) /\ models \subseteq DOMAIN stores
  /\ granted \subseteq models \X Agents /\ served \subseteq Agents
  /\ faults \in 0..MaxFaults

\* Who initializes the store holds the lock, and no store is cached before.
Holds(r, q, l) ==
  q.pc \in {"listing", "creating", "policy"} => l.lock = r /\ l.store = NoStore

\* A store is created for a process that created none; its policy is then written.
StoreIsNew(r) ==
  /\ asks[r].pc = "creating" => \A s \in DOMAIN stores : stores[s] # P(r)
  /\ asks[r].pc = "policy" => asks[r].store \in DOMAIN stores

\* What a request may conclude it was told.  A request that asks again was told
\* so the first time, and has no second answer.
Consent(q) ==
  /\ q.pc # "idle" => q.list \/ \E a \in Agents : q.wanted = {a}
  /\ q.said \subseteq q.wanted
  /\ q.pc = "idle" => ~q.again /\ q.said = {}
  /\ q.pc = "lookup" \/ q.again => ~q.list /\ q.said = q.wanted
  /\ q.pc \notin {"exiting", "done"} => ~q.raised
  /\ q.pc # "done" => q.result \in {"none", "lookup"}
  /\ q.pc = "exiting" /\ ~q.raised /\ ~q.again => q.answer = q.said
  /\ q.result = "service" => q.said = q.wanted
  /\ q.result = "listed" => q.answer \subseteq q.said

\* A request that nobody disturbs asks on the client of the scope, which is open,
\* and raises nothing but a denial.
Undisturbed(q, l) ==
  /\ q.pc = "checking" => q.client = l.client /\ l.client # NoClient /\ l.client \in l.open
  /\ (q.pc = "exiting" /\ q.raised) \/ q.result = "raised" => Hard /\ q.answer = {}

Active(q) == q.pc \notin {"idle", "done"}

\* A request is alone while nobody else of its process is in a scope.
Alone(r) ==
  asks[r].alone => /\ Active(asks[r]) => \A o \in Calls \ {r} : P(o) = P(r) => ~Active(asks[o])
                   /\ Undisturbed(asks[r], local[P(r)])

RequestInv(r) ==
  Holds(r, asks[r], local[P(r)]) /\ StoreIsNew(r) /\ Consent(asks[r]) /\ Alone(r)

IInv == Types /\ OneReadyStore /\ \A r \in Calls : RequestInv(r)
-----------------------------------------------------------------------------
LEMMA PairIsSomebody ==
  ASSUME NEW r \in Processes \X Nat
  PROVE  r # Nobody /\ P(r) \in Processes
<1>1. PICK p \in Processes, n \in Nat : r = <<p, n>>
  OBVIOUS
<1>2. <<p, n>>[1] = p /\ Len(<<p, n>>) = 2 /\ Len(<<>>) = 0
  OBVIOUS
<1>. QED BY <1>1, <1>2 DEF Nobody, P

LEMMA InitInv == ASSUME AuthorizationAssumption, Init PROVE IInv
<1>1. PICK load \in Loads : asks = [r \in load |->
       [pc |-> "idle", wanted |-> {}, list |-> FALSE, again |-> FALSE, client |-> NoClient, store |-> NoStore,
        said |-> {}, answer |-> {}, raised |-> FALSE, alone |-> TRUE, result |-> "none"]]
  BY DEF Init
<1>2. Calls = load /\ load \subseteq Processes \X Nat
  BY <1>1 DEF Calls, AuthorizationAssumption
<1>3. Types
  <2>1. asks \in [Calls -> Question]
    BY <1>1, <1>2 DEF Question, NoClient, NoStore
  <2>2. local \in [Processes -> Shared(Calls)]
    BY DEF Init, Shared, NoClient, NoStore
  <2>3. stores \in Seq(Processes) /\ models \subseteq DOMAIN stores
    BY DEF Init
  <2>4. MaxFaults \in Nat
    BY DEF AuthorizationAssumption
  <2>5. granted = {} /\ served \subseteq Agents /\ faults = 0
    BY DEF Init
  <2>. QED BY <1>2, <2>1, <2>2, <2>3, <2>4, <2>5 DEF Types
<1>4. OneReadyStore
  <2>1. DOMAIN stores = {}
    BY DEF Init
  <2>. QED BY <2>1 DEF Init, OneReadyStore, NoStore
<1>5. ASSUME NEW r \in Calls PROVE RequestInv(r)
  <2>1. asks[r].pc = "idle" /\ asks[r].said = {} /\ asks[r].result = "none" /\ ~asks[r].raised /\ ~asks[r].again
    BY <1>1, <1>2
  <2>2. Holds(r, asks[r], local[P(r)]) /\ StoreIsNew(r) /\ Alone(r)
    BY <2>1 DEF Holds, StoreIsNew, Alone, Active, Undisturbed
  <2>3. Consent(asks[r])
    BY <2>1 DEF Consent
  <2>. QED BY <2>2, <2>3 DEF RequestInv
<1>. QED BY <1>3, <1>4, <1>5 DEF IInv
-----------------------------------------------------------------------------
(* A step of one request: q is the request after it, l what its process shares *)

Becomes(r, q, l) == asks' = [asks EXCEPT ![r] = q] /\ local' = [local EXCEPT ![P(r)] = l]

\* Whoever has the lock keeps it, and finds the cache as it was.
Respects(r, l) ==
  local[P(r)].lock \notin {Nobody, r} =>
    l.lock = local[P(r)].lock /\ l.store = local[P(r)].store

Legal(r, q, l) ==
  /\ q \in Question /\ l \in Shared(Calls)
  /\ Respects(r, l) /\ Holds(r, q, l) /\ Consent(q)
  /\ q.alone => Undisturbed(q, l)

\* The new client of a scope: the question is asked on it.
Asks(q, m, q2, m2) ==
  /\ q2 = [q EXCEPT !.pc = "checking", !.client = m2.client, !.store = m.store]
  /\ m2 = [m EXCEPT !.made = @ + 1, !.client = m.made + 1, !.open = @ \cup {m.made + 1}]

LEMMA AskingAsks ==
  ASSUME NEW C, NEW r \in C, NEW qs \in [C -> Question], NEW m \in Shared(C)
  PROVE  \E q2 \in Question, m2 \in Shared(C) :
           Asks(qs[r], m, q2, m2) /\ Asking(r, m, qs) = [own |-> m2, all |-> [qs EXCEPT ![r] = q2]]
<1>. DEFINE m2 == NewClient(m)
            q2 == [qs[r] EXCEPT !.pc = "checking", !.client = m2.client, !.store = m.store]
<1>1. m2 = [m EXCEPT !.made = @ + 1, !.client = m.made + 1, !.open = @ \cup {m.made + 1}]
  BY DEF NewClient
<1>2. Asking(r, m, qs) = [own |-> m2, all |-> [qs EXCEPT ![r] = q2]]
  BY DEF Asking
<1>. HIDE DEF m2
<1>3. m2 \in Shared(C)
  <2>1. m.made \in Nat /\ m.open \subseteq 1..m.made /\ m.made + 1 \in 1..m.made + 1
    BY DEF Shared
  <2>2. m.open \cup {m.made + 1} \subseteq 1..m.made + 1 /\ m.open \cup {m.made + 1} \subseteq Nat
    BY <2>1
  <2>3. m2 = [client |-> m.made + 1, open |-> m.open \cup {m.made + 1}, made |-> m.made + 1,
              store |-> m.store, lock |-> m.lock, blocked |-> m.blocked]
    BY <1>1 DEF Shared
  <2>4. m.made + 1 \in Nat /\ m.made + 1 \in 0..m.made + 1
    BY <2>1
  <2>. QED BY <2>2, <2>3, <2>4 DEF Shared
<1>4. q2 \in Question
  <2>1. m2.client \in Nat /\ m.store \in Nat
    BY <1>3 DEF Shared
  <2>. QED BY <2>1 DEF Question
<1>. QED BY <1>1, <1>2, <1>3, <1>4 DEF Asks

\* The scope is entered, with or without a client that is to be closed first.
Enters(r, q, m, q2, m2) ==
  \/ m.store # NoStore /\ Asks(q, m, q2, m2)
  \/ /\ m.store = NoStore /\ m.lock = Nobody
     /\ m2 = [m EXCEPT !.lock = r] /\ q2 = [q EXCEPT !.pc = "listing"]
  \/ m2 = [m EXCEPT !.blocked = TRUE] /\ q2 = [q EXCEPT !.pc = "locking"]
  \/ m2 = [m EXCEPT !.open = @ \ {m.client}] /\ q2 = [q EXCEPT !.pc = "closing"]

LEMMA GetClientEnters ==
  ASSUME NEW C, NEW r \in C, NEW qs \in [C -> Question], NEW m \in Shared(C)
  PROVE  \E q2 \in Question, m2 \in Shared(C) :
           Enters(r, qs[r], m, q2, m2) /\ GetClient(r, m, qs) = [own |-> m2, all |-> [qs EXCEPT ![r] = q2]]
<1>1. CASE m.store # NoStore
  <2>1. GetClient(r, m, qs) = Asking(r, m, qs)
    BY <1>1 DEF GetClient
  <2>. QED BY <1>1, <2>1, AskingAsks DEF Enters
<1>2. CASE m.store = NoStore /\ m.lock = Nobody
  <2>. DEFINE m2 == [m EXCEPT !.lock = r]
              q2 == [qs[r] EXCEPT !.pc = "listing"]
  <2>1. m2 \in Shared(C) /\ q2 \in Question
    BY DEF Shared, Question
  <2>2. GetClient(r, m, qs) = [own |-> m2, all |-> [qs EXCEPT ![r] = q2]]
    BY <1>2 DEF GetClient
  <2>. QED BY <1>2, <2>1, <2>2 DEF Enters
<1>3. CASE m.store = NoStore /\ m.lock # Nobody
  <2>. DEFINE m2 == [m EXCEPT !.blocked = TRUE]
              q2 == [qs[r] EXCEPT !.pc = "locking"]
  <2>1. m2 \in Shared(C) /\ q2 \in Question
    BY DEF Shared, Question
  <2>2. GetClient(r, m, qs) = [own |-> m2, all |-> [qs EXCEPT ![r] = q2]]
    BY <1>3 DEF GetClient
  <2>. QED BY <2>1, <2>2 DEF Enters
<1>. QED BY <1>1, <1>2, <1>3

LEMMA EnterEnters ==
  ASSUME NEW C, NEW r \in C, NEW qs \in [C -> Question], NEW m \in Shared(C)
  PROVE  \E q2 \in Question, m2 \in Shared(C) :
           Enters(r, qs[r], m, q2, m2) /\ Enter(r, m, qs) = [own |-> m2, all |-> [qs EXCEPT ![r] = q2]]
<1>1. CASE m.client = NoClient
  BY <1>1, GetClientEnters DEF Enter
<1>2. CASE m.client # NoClient
  <2>. DEFINE m2 == Close(m)
              q2 == [qs[r] EXCEPT !.pc = "closing"]
  <2>1. m2 = [m EXCEPT !.open = @ \ {m.client}]
    BY DEF Close
  <2>2. m2 \in Shared(C) /\ q2 \in Question
    BY <2>1 DEF Shared, Question
  <2>3. Enter(r, m, qs) = [own |-> m2, all |-> [qs EXCEPT ![r] = q2]]
    BY <1>2 DEF Enter
  <2>. QED BY <2>1, <2>2, <2>3 DEF Enters
<1>. QED BY <1>1, <1>2

LEMMA EnteredRequest ==
  ASSUME NEW C, NEW r \in C, NEW q \in Question, NEW m \in Shared(C),
         NEW q2 \in Question, NEW m2 \in Shared(C), Enters(r, q, m, q2, m2)
  PROVE  /\ q2.alone = q.alone /\ m2.store = m.store
         /\ q2.pc \in {"checking", "listing", "locking", "closing"}
<1>1. /\ q2.pc \in {"checking", "listing", "locking", "closing"}
      /\ q2 = [q EXCEPT !.pc = q2.pc, !.client = q2.client, !.store = q2.store]
  BY DEF Enters, Asks, Question
<1>2. m2.store = m.store
  BY DEF Enters, Asks, Shared
<1>. QED BY <1>1, <1>2 DEF Question

\* Entering is legal for a request of which nothing was asked yet, or that asks again.
LEMMA EnteringIsLegal ==
  ASSUME Types, NEW r \in Calls, NEW q \in Question, NEW q2 \in Question, NEW m2 \in Shared(Calls),
         Enters(r, q, local[P(r)], q2, m2),
         Consent(q), q.pc \notin {"exiting", "done"}, q.list \/ \E a \in Agents : q.wanted = {a}
  PROVE  Legal(r, q2, m2)
<1>. DEFINE m == local[P(r)]
<1>0. m \in Shared(Calls)
  BY PairIsSomebody DEF Types
<1>. HIDE DEF m
<1>1. /\ q2.pc \in {"checking", "listing", "locking", "closing"}
      /\ q2 = [q EXCEPT !.pc = q2.pc, !.client = q2.client, !.store = q2.store]
  BY DEF Enters, Asks, Question
<1>2. Consent(q2)
  BY <1>1 DEF Consent, Question
<1>3. /\ m.lock \notin {Nobody, r} => m2.lock = m.lock
      /\ m2.store = m.store
  BY <1>0 DEF Enters, Asks, Shared, m
<1>4. q2.pc \in {"listing", "creating", "policy"} => m2.lock = r /\ m2.store = NoStore
  BY <1>0, <1>1 DEF Enters, Asks, Question, Shared, m
<1>5. q2.pc = "checking" => q2.client = m2.client /\ m2.client # NoClient /\ m2.client \in m2.open
  <2>1. q2.pc = "checking" => Asks(q, m, q2, m2)
    BY DEF Enters, Question, m
  <2>2. m.made \in Nat /\ m.made + 1 # 0
    BY <1>0 DEF Shared
  <2>3. Asks(q, m, q2, m2) =>
          m2.client = m.made + 1 /\ m.made + 1 \in m2.open /\ q2.client = m2.client
    BY <1>0 DEF Asks, Shared, Question
  <2>. QED BY <2>1, <2>2, <2>3 DEF NoClient
<1>6. q2.result # "raised"
  BY <1>1, <1>2 DEF Consent, Question
<1>. QED BY <1>1, <1>2, <1>3, <1>4, <1>5, <1>6 DEF Legal, Respects, Holds, Undisturbed, m
-----------------------------------------------------------------------------
(* A legal step of a request that is active leaves the others as they are *)

LEMMA OthersStay ==
  ASSUME IInv, NEW r \in Calls, NEW q, NEW l, Becomes(r, q, l), Legal(r, q, l)
  PROVE  /\ Calls' = Calls /\ P(r) \in Processes /\ asks'[r] = q /\ local'[P(r)] = l
         /\ asks' \in [Calls -> Question] /\ local' \in [Processes -> Shared(Calls)]
         /\ \A o \in Calls \ {r} :
              /\ o # Nobody /\ P(o) \in Processes
              /\ asks'[o] = asks[o]
              /\ local'[P(o)] = IF P(o) = P(r) THEN l ELSE local[P(o)]
         /\ \A o \in Calls : Holds(o, asks'[o], local'[P(o)]) /\ Consent(asks'[o])
<1>1. /\ Calls \subseteq Processes \X Nat /\ asks \in [Calls -> Question]
      /\ local \in [Processes -> Shared(Calls)] /\ q \in Question /\ l \in Shared(Calls)
  BY DEF IInv, Types, Legal
<1>2. \A o \in Calls : o # Nobody /\ P(o) \in Processes
  BY <1>1, PairIsSomebody
<1>3. Calls' = Calls /\ asks' \in [Calls -> Question] /\ local' \in [Processes -> Shared(Calls)]
  BY <1>1, <1>2 DEF Becomes, Calls
<1>4. asks'[r] = q /\ local'[P(r)] = l
  BY <1>1, <1>2 DEF Becomes
<1>5. ASSUME NEW o \in Calls \ {r}
      PROVE  asks'[o] = asks[o] /\ local'[P(o)] = IF P(o) = P(r) THEN l ELSE local[P(o)]
  BY <1>1, <1>2 DEF Becomes
<1>6. ASSUME NEW o \in Calls PROVE Holds(o, asks'[o], local'[P(o)]) /\ Consent(asks'[o])
  <2>1. CASE o = r
    BY <1>4, <2>1 DEF Legal
  <2>2. CASE o # r
    <3>1. Holds(o, asks[o], local[P(o)]) /\ Consent(asks[o])
      BY DEF IInv, RequestInv
    <3>2. CASE P(o) = P(r)
      <4>1. asks[o].pc \in {"listing", "creating", "policy"} => l.lock = o /\ l.store = NoStore
        BY <1>2, <2>2, <3>1, <3>2 DEF Holds, Legal, Respects
      <4>. QED BY <1>5, <2>2, <3>1, <3>2, <4>1 DEF Holds
    <3>3. CASE P(o) # P(r)
      BY <1>5, <2>2, <3>1, <3>3
    <3>. QED BY <3>2, <3>3
  <2>. QED BY <2>1, <2>2
<1>. QED BY <1>2, <1>3, <1>4, <1>5, <1>6

LEMMA AloneStays ==
  ASSUME IInv, NEW r \in Calls, NEW q, NEW l, Becomes(r, q, l), Legal(r, q, l),
         Active(asks[r]), q.alone => asks[r].alone
  PROVE  \A o \in Calls : Alone(o)'
<1>1. ASSUME NEW o \in Calls, asks'[o].alone
      PROVE  /\ Active(asks'[o]) => \A i \in Calls \ {o} : P(i) = P(o) => ~Active(asks'[i])
             /\ Undisturbed(asks'[o], local'[P(o)])
  <2>1. CASE o = r
    <3>1. asks'[o] = q /\ local'[P(o)] = l /\ Undisturbed(q, l)
      BY <1>1, <2>1, OthersStay DEF Legal
    <3>2. \A i \in Calls \ {r} : P(i) = P(r) => ~Active(asks[i])
      BY <1>1, <2>1, <3>1 DEF IInv, RequestInv, Alone
    <3>. QED BY <2>1, <3>1, <3>2, OthersStay
  <2>2. CASE o # r
    <3>1. asks'[o] = asks[o] /\ Undisturbed(asks[o], local[P(o)])
      BY <1>1, <2>2, OthersStay DEF IInv, RequestInv, Alone
    <3>2. Active(asks[o]) => \A i \in Calls \ {o} : P(i) = P(o) => ~Active(asks[i])
      BY <1>1, <2>2, <3>1 DEF IInv, RequestInv, Alone
    <3>3. CASE P(o) = P(r)
      <4>1. ~Active(asks[o])
        BY <2>2, <3>2, <3>3
      <4>2. Undisturbed(asks[o], local'[P(o)])
        BY <3>1, <4>1 DEF Undisturbed, Active
      <4>. QED BY <3>1, <4>1, <4>2
    <3>4. CASE P(o) # P(r)
      <4>1. local'[P(o)] = local[P(o)]
        BY <2>2, <3>4, OthersStay
      <4>2. \A i \in Calls \ {o} : P(i) = P(o) => asks'[i] = asks[i]
        BY <3>4, OthersStay
      <4>. QED BY <3>1, <3>2, <4>1, <4>2
    <3>. QED BY <3>3, <3>4
  <2>. QED BY <2>1, <2>2
<1>2. Calls' = Calls
  BY OthersStay
<1>. QED BY <1>1, <1>2 DEF Alone

\* The stores, where the step creates none.
LEMMA StoresStay ==
  ASSUME IInv, NEW r \in Calls, NEW q, NEW l, Becomes(r, q, l), Legal(r, q, l),
         stores' = stores, models \subseteq models',
         l.store # NoStore => l.store \in models',
         q.pc = "creating" => \A s \in DOMAIN stores : stores[s] # P(r),
         q.pc = "policy" => q.store \in DOMAIN stores
  PROVE  OneReadyStore' /\ \A o \in Calls : StoreIsNew(o)'
<1>1. ASSUME NEW p \in Processes, local'[p].store # NoStore PROVE local'[p].store \in models'
  <2>1. CASE p = P(r)
    BY <1>1, <2>1, OthersStay
  <2>2. CASE p # P(r)
    <3>1. local'[p] = local[p]
      BY <2>2, OthersStay DEF Becomes, IInv, Types
    <3>. QED BY <1>1, <3>1 DEF IInv, OneReadyStore
  <2>. QED BY <2>1, <2>2
<1>2. \A s, t \in DOMAIN stores : s # t => stores[s] # stores[t]
  BY DEF IInv, OneReadyStore
<1>3. OneReadyStore'
  BY <1>1, <1>2 DEF OneReadyStore
<1>4. ASSUME NEW o \in Calls PROVE StoreIsNew(o)'
  <2>1. CASE o = r
    BY <2>1, OthersStay DEF StoreIsNew
  <2>2. CASE o # r
    <3>1. StoreIsNew(o) /\ asks'[o] = asks[o]
      BY <2>2, OthersStay DEF IInv, RequestInv
    <3>. QED BY <3>1 DEF StoreIsNew
  <2>. QED BY <2>1, <2>2
<1>. QED BY <1>3, <1>4

\* The steps that leave the server and the registry as they are.
LEMMA LegalStepKeeps ==
  ASSUME IInv, NEW r \in Calls, NEW q, NEW l, Becomes(r, q, l), Legal(r, q, l),
         Active(asks[r]), q.alone => asks[r].alone,
         stores' = stores, models \subseteq models', models' \subseteq DOMAIN stores,
         l.store # NoStore => l.store \in models',
         q.pc = "creating" => \A s \in DOMAIN stores : stores[s] # P(r),
         q.pc = "policy" => q.store \in DOMAIN stores,
         granted' = granted, served' \subseteq Agents, faults' \in 0..MaxFaults
  PROVE  IInv'
<1>1. Types'
  <2>1. granted' \subseteq models' \X Agents
    BY DEF IInv, Types
  <2>. QED BY <2>1, OthersStay DEF IInv, Types
<1>. QED BY <1>1, OthersStay, AloneStays, StoresStay DEF IInv, RequestInv
-----------------------------------------------------------------------------
(* A scope is entered: by the first question, by a request that waited for the *)
(* close of the old client, and by one that asks again                         *)

LEMMA EnteringKeeps ==
  ASSUME IInv, NEW r \in Calls, NEW q \in Question, NEW q2 \in Question, NEW m2 \in Shared(Calls),
         Enters(r, q, local[P(r)], q2, m2), Becomes(r, q2, m2),
         Consent(q), q.pc \notin {"exiting", "done"}, q.list \/ \E a \in Agents : q.wanted = {a},
         q.alone = asks[r].alone, Active(asks[r]),
         UNCHANGED <<stores, models, granted, faults>>, served' \subseteq Agents
  PROVE  IInv'
<1>. DEFINE m == local[P(r)]
<1>1. Legal(r, q2, m2)
  BY EnteringIsLegal DEF IInv
<1>2. m \in Shared(Calls) /\ (m.store # NoStore => m.store \in models)
  BY PairIsSomebody DEF IInv, Types, OneReadyStore
<1>3. q2.alone = q.alone /\ q2.pc \in {"checking", "listing", "locking", "closing"} /\ m2.store = m.store
  BY <1>2, EnteredRequest
<1>. HIDE DEF m
<1>4. faults' \in 0..MaxFaults /\ models' \subseteq DOMAIN stores
  BY DEF IInv, Types
<1>. QED BY <1>1, <1>2, <1>3, <1>4, LegalStepKeeps

LEMMA ClosedKeeps == ASSUME IInv, NEW r \in Calls, Closed(r) PROVE IInv'
<1>1. /\ asks \in [Calls -> Question] /\ local[P(r)] \in Shared(Calls) /\ asks[r].pc = "closing"
      /\ Consent(asks[r])
  BY PairIsSomebody DEF Closed, At, IInv, Types, RequestInv
<1>2. PICK q \in Question, l \in Shared(Calls) :
        /\ Enters(r, asks[r], local[P(r)], q, l)
        /\ GetClient(r, local[P(r)], asks) = [own |-> l, all |-> [asks EXCEPT ![r] = q]]
  BY <1>1, GetClientEnters
<1>3. Becomes(r, q, l)
  <2>1. Become(r, GetClient(r, local[P(r)], asks))
    BY DEF Closed
  <2>. QED BY <1>2, <2>1 DEF Become, Becomes
<1>4. asks[r] \in Question /\ Active(asks[r]) /\ (asks[r].list \/ \E a \in Agents : asks[r].wanted = {a})
  BY <1>1 DEF Active, Consent
<1>5. UNCHANGED <<stores, models, granted, faults>> /\ served' \subseteq Agents
  BY DEF Closed, IInv, Types
<1>. QED BY <1>1, <1>2, <1>3, <1>4, <1>5, EnteringKeeps

LEMMA ScopeIsEntered ==
  ASSUME NEW r \in Calls, NEW qs \in [Calls -> Question], local[P(r)] \in Shared(Calls)
  PROVE  \E q2 \in Question, m2 \in Shared(Calls) :
           /\ Enters(r, qs[r], local[P(r)], q2, m2)
           /\ Enter(r, local[P(r)], qs) = [own |-> m2, all |-> [qs EXCEPT ![r] = q2]]
BY EnterEnters

LEMMA LookUpKeeps == ASSUME IInv, NEW r \in Calls, LookUp(r) PROVE IInv'
<1>1. /\ asks \in [Calls -> Question] /\ local \in [Processes -> Shared(Calls)] /\ P(r) \in Processes
      /\ asks[r] \in Question /\ asks[r].pc = "lookup" /\ Consent(asks[r])
  BY PairIsSomebody DEF LookUp, At, IInv, Types, RequestInv
<1>2. UNCHANGED <<stores, models, granted, faults>>
  BY DEF LookUp
<1>3. CASE asks' = [asks EXCEPT ![r].pc = "done", ![r].result = "404"] /\ UNCHANGED <<served, local>>
  <2>. DEFINE q == [asks[r] EXCEPT !.pc = "done", !.result = "404"]
              l == local[P(r)]
  <2>1. Becomes(r, q, l)
    BY <1>1, <1>3 DEF Becomes
  <2>2. Legal(r, q, l)
    BY <1>1 DEF Legal, Question, Respects, Holds, Consent, Undisturbed
  <2>3. /\ q.pc = "done" /\ q.alone = asks[r].alone /\ Active(asks[r])
        /\ l.store # NoStore => l.store \in models'
        /\ served' \subseteq Agents /\ faults' \in 0..MaxFaults /\ models' \subseteq DOMAIN stores
    BY <1>1, <1>2, <1>3 DEF Active, IInv, Types, OneReadyStore, Question
  <2>. QED BY <1>2, <2>1, <2>2, <2>3, LegalStepKeeps
<1>4. CASE /\ served' = served \cup asks[r].wanted
           /\ Become(r, Enter(r, local[P(r)], [asks EXCEPT ![r].again = TRUE]))
  <2>. DEFINE q0 == [asks[r] EXCEPT !.again = TRUE]
  <2>1. q0 \in Question /\ Consent(q0) /\ q0.pc = "lookup" /\ q0.alone = asks[r].alone
    BY <1>1 DEF Question, Consent
  <2>9. PICK qs \in [Calls -> Question] : qs = [asks EXCEPT ![r] = q0]
    BY <1>1, <2>1
  <2>2. qs[r] = q0 /\ qs = [asks EXCEPT ![r].again = TRUE]
    BY <1>1, <2>1, <2>9
  <2>. HIDE DEF q0
  <2>3. PICK q \in Question, l \in Shared(Calls) :
          /\ Enters(r, qs[r], local[P(r)], q, l)
          /\ Enter(r, local[P(r)], qs) = [own |-> l, all |-> [qs EXCEPT ![r] = q]]
    <3>1. local[P(r)] \in Shared(Calls)
      BY <1>1
    <3>. QED BY <2>9, <3>1, ScopeIsEntered
  <2>4. Becomes(r, q, l)
    <3>1. Become(r, Enter(r, local[P(r)], qs))
      BY <1>4, <2>2
    <3>2. [qs EXCEPT ![r] = q] = [asks EXCEPT ![r] = q]
      BY <2>9
    <3>3. local' = [local EXCEPT ![P(r)] = l] /\ asks' = [qs EXCEPT ![r] = q]
      BY <2>3, <3>1 DEF Become
    <3>. QED BY <3>2, <3>3 DEF Becomes
  <2>5. q0.list \/ \E a \in Agents : q0.wanted = {a}
    BY <2>1 DEF Consent
  <2>6. served' \subseteq Agents /\ Active(asks[r])
    BY <1>1, <1>4 DEF IInv, Types, Question, Active
  <2>. QED BY <1>2, <2>1, <2>2, <2>3, <2>4, <2>5, <2>6, EnteringKeeps
<1>. QED BY <1>3, <1>4 DEF LookUp
-----------------------------------------------------------------------------
(* The store is found or created, under the lock *)

LEMMA GoesOn ==
  ASSUME NEW q \in Question, NEW q2 \in Question, Consent(q),
         q.pc \in {"listing", "creating", "policy"}, q2.pc \in {"creating", "policy", "checking"},
         q2 = [q EXCEPT !.pc = q2.pc, !.client = q2.client, !.store = q2.store]
  PROVE  Consent(q2) /\ q2.alone = q.alone /\ q2.result # "raised"
<1>1. /\ q2.wanted = q.wanted /\ q2.list = q.list /\ q2.again = q.again /\ q2.said = q.said
      /\ q2.answer = q.answer /\ q2.raised = q.raised /\ q2.alone = q.alone /\ q2.result = q.result
  BY DEF Question
<1>. QED BY <1>1 DEF Consent

LEMMA ListStoresKeeps == ASSUME IInv, NEW r \in Calls, ListStores(r) PROVE IInv'
<1>. DEFINE l == local[P(r)]
<1>1. /\ asks \in [Calls -> Question] /\ local \in [Processes -> Shared(Calls)] /\ P(r) \in Processes
      /\ asks[r] \in Question /\ l \in Shared(Calls) /\ asks[r].pc = "listing" /\ Consent(asks[r])
      /\ Holds(r, asks[r], l)
  BY PairIsSomebody DEF ListStores, At, IInv, Types, RequestInv
<1>2. /\ UNCHANGED <<stores, models, granted, served, local, faults>>
      /\ models' \subseteq DOMAIN stores /\ served' \subseteq Agents /\ faults' \in 0..MaxFaults
      /\ l.store # NoStore => l.store \in models'
  BY <1>1 DEF ListStores, IInv, Types, OneReadyStore
<1>3. ASSUME NEW q \in Question, Becomes(r, q, l),
             \/ stores = <<>> /\ q = [asks[r] EXCEPT !.pc = "creating"]
             \/ \E s \in DOMAIN stores : q = [asks[r] EXCEPT !.pc = "policy", !.store = s]
      PROVE  IInv'
  <2>1. q.pc \in {"creating", "policy"} /\ q = [asks[r] EXCEPT !.pc = q.pc, !.store = q.store]
    BY <1>1, <1>3 DEF Question
  <2>2. Consent(q) /\ q.alone = asks[r].alone /\ q.result # "raised"
    <3>1. q = [asks[r] EXCEPT !.pc = q.pc, !.client = q.client, !.store = q.store]
      BY <1>1, <1>3 DEF Question
    <3>. QED BY <1>1, <2>1, <3>1, GoesOn
  <2>3. Legal(r, q, l)
    BY <1>1, <2>1, <2>2 DEF Legal, Respects, Holds, Undisturbed
  <2>4. /\ q.pc = "creating" => \A s \in DOMAIN stores : stores[s] # P(r)
        /\ q.pc = "policy" => q.store \in DOMAIN stores
    <3>1. stores = <<>> => DOMAIN stores = {}
      OBVIOUS
    <3>. QED BY <1>1, <1>3, <3>1 DEF Question
  <2>5. Active(asks[r])
    BY <1>1 DEF Active
  <2>. QED BY <1>2, <1>3, <2>2, <2>3, <2>4, <2>5, LegalStepKeeps
<1>4. CASE stores = <<>> /\ asks' = [asks EXCEPT ![r].pc = "creating"]
  <2>. DEFINE q == [asks[r] EXCEPT !.pc = "creating"]
  <2>1. q \in Question /\ Becomes(r, q, l)
    BY <1>1, <1>2, <1>4 DEF Question, Becomes
  <2>. QED BY <1>3, <1>4, <2>1
<1>5. ASSUME NEW s \in DOMAIN stores, asks' = [asks EXCEPT ![r].pc = "policy", ![r].store = s] PROVE IInv'
  <2>. DEFINE q == [asks[r] EXCEPT !.pc = "policy", !.store = s]
  <2>1. s \in Nat
    BY DEF IInv, Types
  <2>2. q \in Question
    BY <1>1, <2>1 DEF Question
  <2>3. Becomes(r, q, l)
    BY <1>1, <1>2, <1>5 DEF Becomes
  <2>. QED BY <1>3, <2>2, <2>3
<1>. QED BY <1>4, <1>5 DEF ListStores

\* A process that creates a store has created none.
LEMMA CreateStoreKeeps == ASSUME IInv, NEW r \in Calls, CreateStore(r) PROVE IInv'
<1>. DEFINE l == local[P(r)]
            n == Len(stores) + 1
            q == [asks[r] EXCEPT !.pc = "policy", !.store = n]
<1>1. /\ asks \in [Calls -> Question] /\ local \in [Processes -> Shared(Calls)] /\ P(r) \in Processes
      /\ asks[r] \in Question /\ l \in Shared(Calls) /\ asks[r].pc = "creating" /\ Consent(asks[r])
      /\ Holds(r, asks[r], l) /\ stores \in Seq(Processes)
  BY PairIsSomebody DEF CreateStore, At, IInv, Types, RequestInv
<1>2. /\ UNCHANGED <<models, granted, served, local, faults>>
      /\ stores' = Append(stores, P(r))
  BY DEF CreateStore
<1>3. /\ stores' \in Seq(Processes) /\ DOMAIN stores' = DOMAIN stores \cup {n} /\ n \notin DOMAIN stores
      /\ n \in Nat /\ stores'[n] = P(r) /\ \A s \in DOMAIN stores : stores'[s] = stores[s]
  BY <1>1, <1>2
<1>. HIDE DEF n
<1>4. q \in Question /\ q.pc = "policy" /\ q.store = n /\ q.alone = asks[r].alone /\ Active(asks[r])
  BY <1>1, <1>3 DEF Question, Active
<1>5. Consent(q) /\ q.result # "raised"
  BY <1>1 DEF Consent, Question
<1>6. Becomes(r, q, l)
  BY <1>1, <1>2 DEF CreateStore, Becomes, n
<1>7. Legal(r, q, l)
  BY <1>1, <1>4, <1>5 DEF Legal, Respects, Holds, Undisturbed
<1>. HIDE DEF q
<1>8. Types'
  BY <1>2, <1>3, <1>6, <1>7, OthersStay DEF IInv, Types
<1>9. OneReadyStore'
  <2>1. \A p \in Processes : local'[p].store # NoStore => local'[p].store \in models'
    BY <1>2 DEF IInv, OneReadyStore
  <2>2. \A s \in DOMAIN stores : stores[s] # P(r)
    BY <1>1 DEF IInv, RequestInv, StoreIsNew
  <2>3. \A s, t \in DOMAIN stores' : s # t => stores'[s] # stores'[t]
    BY <1>3, <2>2 DEF IInv, OneReadyStore
  <2>. QED BY <2>1, <2>3 DEF OneReadyStore
<1>10. ASSUME NEW o \in Calls PROVE StoreIsNew(o)'
  <2>1. CASE o = r
    <3>1. asks'[o] = q
      BY <1>6, <1>7, <2>1, OthersStay
    <3>. QED BY <1>3, <1>4, <3>1 DEF StoreIsNew
  <2>2. CASE o # r
    <3>1. asks'[o] = asks[o] /\ StoreIsNew(o) /\ o # Nobody
      BY <1>6, <1>7, <2>2, OthersStay DEF IInv, RequestInv
    <3>2. asks[o].pc = "creating" => P(o) # P(r)
      <4>1. Holds(o, asks[o], local[P(o)])
        BY DEF IInv, RequestInv
      <4>. QED BY <1>1, <2>2, <4>1 DEF Holds
    <3>. QED BY <1>3, <3>1, <3>2 DEF StoreIsNew
  <2>. QED BY <2>1, <2>2
<1>11. \A o \in Calls : Alone(o)'
  BY <1>4, <1>6, <1>7, AloneStays
<1>. QED BY <1>6, <1>7, <1>8, <1>9, <1>10, <1>11, OthersStay DEF IInv, RequestInv

\* The store has a policy before it is cached.
LEMMA PreparePolicyKeeps == ASSUME IInv, NEW r \in Calls, PreparePolicy(r) PROVE IInv'
<1>. DEFINE m == [local[P(r)] EXCEPT !.store = asks[r].store, !.lock = Nobody]
<1>1. /\ asks \in [Calls -> Question] /\ local \in [Processes -> Shared(Calls)] /\ P(r) \in Processes
      /\ asks[r] \in Question /\ local[P(r)] \in Shared(Calls) /\ asks[r].pc = "policy" /\ Consent(asks[r])
      /\ Holds(r, asks[r], local[P(r)]) /\ asks[r].store \in DOMAIN stores
  BY PairIsSomebody DEF PreparePolicy, At, IInv, Types, RequestInv, StoreIsNew
<1>2. m \in Shared(Calls) /\ m.store = asks[r].store
  BY <1>1 DEF Shared, Question
<1>3. /\ UNCHANGED <<stores, granted, served, faults>>
      /\ models' = models \cup {asks[r].store} /\ models' \subseteq DOMAIN stores
      /\ served' \subseteq Agents /\ faults' \in 0..MaxFaults
  BY <1>1 DEF PreparePolicy, IInv, Types
<1>4. Become(r, Asking(r, m, asks))
  BY DEF PreparePolicy
<1>. HIDE DEF m
<1>5. PICK q \in Question, l \in Shared(Calls) :
        Asks(asks[r], m, q, l) /\ Asking(r, m, asks) = [own |-> l, all |-> [asks EXCEPT ![r] = q]]
  BY <1>1, <1>2, AskingAsks
<1>6. Becomes(r, q, l)
  BY <1>4, <1>5 DEF Become, Becomes
<1>7. q.pc = "checking" /\ q = [asks[r] EXCEPT !.pc = q.pc, !.client = q.client, !.store = q.store]
  BY <1>1, <1>5 DEF Asks, Question
<1>8. Consent(q) /\ q.alone = asks[r].alone /\ q.result # "raised"
  BY <1>1, <1>7, GoesOn
<1>9. l.store = m.store
  BY <1>2, <1>5 DEF Asks, Shared
<1>10. q.client = l.client /\ l.client # NoClient /\ l.client \in l.open
  <2>1. m.made \in Nat /\ m.made + 1 # 0
    BY <1>2 DEF Shared
  <2>2. l.client = m.made + 1 /\ m.made + 1 \in l.open /\ q.client = l.client
    BY <1>1, <1>2, <1>5 DEF Asks, Shared, Question
  <2>. QED BY <2>1, <2>2 DEF NoClient
<1>11. Legal(r, q, l)
  BY <1>1, <1>7, <1>8, <1>10 DEF Legal, Respects, Holds, Undisturbed
<1>12. Active(asks[r]) /\ l.store \in models'
  BY <1>1, <1>2, <1>3, <1>9 DEF Active
<1>. QED BY <1>3, <1>6, <1>7, <1>8, <1>11, <1>12, LegalStepKeeps

LEMMA InitializeFailsKeeps ==
  ASSUME AuthorizationAssumption, IInv, NEW r \in Calls, InitializeFails(r)
  PROVE  IInv'
<1>. DEFINE q == [asks[r] EXCEPT !.pc = "done", !.result = "raised", !.alone = FALSE]
            l == [local[P(r)] EXCEPT !.lock = Nobody]
<1>1. /\ asks \in [Calls -> Question] /\ local \in [Processes -> Shared(Calls)] /\ P(r) \in Processes
      /\ asks[r] \in Question /\ local[P(r)] \in Shared(Calls) /\ Consent(asks[r])
      /\ asks[r].pc \in {"listing", "creating", "policy"}
      /\ Holds(r, asks[r], local[P(r)])
  BY PairIsSomebody DEF InitializeFails, At, IInv, Types, RequestInv
<1>2. /\ UNCHANGED <<stores, models, granted, served>> /\ faults < MaxFaults /\ faults' = faults + 1
      /\ Becomes(r, q, l)
  BY <1>1 DEF InitializeFails, Released, Becomes
<1>3. q \in Question /\ l \in Shared(Calls)
  BY <1>1 DEF Question, Shared
<1>4. Consent(q)
  BY <1>1 DEF Consent, Question
<1>5. Legal(r, q, l)
  BY <1>1, <1>3, <1>4 DEF Legal, Respects, Holds, Undisturbed, Question
<1>6. /\ q.pc = "done" /\ ~q.alone /\ Active(asks[r]) /\ l.store = NoStore
      /\ served' \subseteq Agents /\ models' \subseteq DOMAIN stores
  BY <1>1, <1>2 DEF Active, Holds, Shared, Question, IInv, Types
<1>7. faults' \in 0..MaxFaults
  <2>1. MaxFaults \in Nat /\ faults \in 0..MaxFaults
    BY DEF AuthorizationAssumption, IInv, Types
  <2>. QED BY <1>2, <2>1
<1>. HIDE DEF q, l
<1>. QED BY <1>2, <1>5, <1>6, <1>7, LegalStepKeeps
-----------------------------------------------------------------------------
(* The answer, and the end of the scope *)

LEMMA LeaveKeeps ==
  ASSUME IInv, NEW r \in Calls, At(r, "checking"), NEW q \in Question, Leave(r, q),
         q.list \/ \E a \in Agents : q.wanted = {a}, q.said \subseteq q.wanted,
         q.again => ~q.list /\ q.said = q.wanted,
         ~q.raised /\ ~q.again => q.answer = q.said,
         q.result \in {"none", "lookup"}, q.alone => asks[r].alone,
         q.alone /\ q.raised => Hard /\ q.answer = {},
         UNCHANGED <<stores, models, granted, served>>, faults' \in 0..MaxFaults
  PROVE  IInv'
<1>1. /\ asks \in [Calls -> Question] /\ local \in [Processes -> Shared(Calls)] /\ P(r) \in Processes
      /\ local[P(r)] \in Shared(Calls) /\ asks[r].pc = "checking" /\ Alone(r)
  BY PairIsSomebody DEF At, IInv, Types, RequestInv
<1>2. /\ served' \subseteq Agents /\ models' \subseteq DOMAIN stores /\ Active(asks[r])
      /\ local[P(r)].store # NoStore => local[P(r)].store \in models'
  BY <1>1 DEF Active, IInv, Types, OneReadyStore
<1>3. CASE local[P(r)].client = NoClient
  <2>. DEFINE q2 == [q EXCEPT !.pc = "done", !.result = "raised"]
              l == local[P(r)]
  <2>1. Becomes(r, q2, l)
    BY <1>1, <1>3 DEF Leave, Becomes
  <2>2. ~q2.alone
    BY <1>1, <1>3 DEF Alone, Undisturbed, Question
  <2>3. q2 \in Question /\ q2.pc = "done"
    BY DEF Question
  <2>4. Consent(q2)
    BY DEF Consent, Question
  <2>5. Legal(r, q2, l)
    BY <1>1, <2>2, <2>3, <2>4 DEF Legal, Respects, Holds
  <2>. HIDE DEF q2
  <2>. QED BY <1>2, <2>1, <2>2, <2>3, <2>5, LegalStepKeeps
<1>4. CASE local[P(r)].client # NoClient
  <2>. DEFINE q2 == [q EXCEPT !.pc = "exiting"]
              l == [local[P(r)] EXCEPT !.open = @ \ {local[P(r)].client}]
  <2>1. Becomes(r, q2, l)
    BY <1>1, <1>4 DEF Leave, Close, Becomes
  <2>2. l \in Shared(Calls) /\ l.store = local[P(r)].store /\ l.lock = local[P(r)].lock
    BY <1>1 DEF Shared
  <2>3. q2 \in Question /\ q2.pc = "exiting" /\ q2.alone = q.alone /\ q2.raised = q.raised
        /\ q2.result = q.result /\ q2.answer = q.answer
    BY DEF Question
  <2>4. Consent(q2)
    BY DEF Consent, Question
  <2>5. Undisturbed(q2, l) \/ ~q2.alone
    BY <2>3 DEF Undisturbed
  <2>6. Legal(r, q2, l)
    BY <2>2, <2>3, <2>4, <2>5 DEF Legal, Respects, Holds
  <2>. HIDE DEF q2, l
  <2>. QED BY <1>2, <2>1, <2>2, <2>3, <2>6, LegalStepKeeps
<1>. QED BY <1>3, <1>4

LEMMA AnsweredKeeps ==
  ASSUME AuthorizationAssumption, IInv, NEW r \in Calls, Answered(r)
  PROVE  IInv'
<1>. DEFINE told == {a \in asks[r].wanted : <<asks[r].store, a>> \in granted}
            denied == Hard /\ ~asks[r].list /\ told = {}
            q == [asks[r] EXCEPT !.answer = told, !.said = IF asks[r].again THEN @ ELSE told,
                                 !.raised = denied]
<1>1. asks[r] \in Question /\ asks[r].pc = "checking" /\ Consent(asks[r])
  BY DEF Answered, At, IInv, Types, RequestInv
<1>2. told \subseteq asks[r].wanted /\ told \in SUBSET Agents
  BY <1>1 DEF Question
<1>3. denied \in BOOLEAN
  BY <1>1 DEF AuthorizationAssumption, Question
<1>4. Leave(r, q)
  BY DEF Answered
<1>. HIDE DEF told
<1>5. q \in Question
  BY <1>1, <1>2, <1>3 DEF Question
<1>6. /\ q.list \/ \E a \in Agents : q.wanted = {a}
      /\ q.said \subseteq q.wanted
      /\ q.again => ~q.list /\ q.said = q.wanted
      /\ ~q.raised /\ ~q.again => q.answer = q.said
      /\ q.result \in {"none", "lookup"} /\ q.alone = asks[r].alone
  BY <1>1, <1>2 DEF Consent, Question
<1>7. q.raised => Hard /\ q.answer = {}
  BY <1>1 DEF Question
<1>8. At(r, "checking") /\ UNCHANGED <<stores, models, granted, served>> /\ faults' \in 0..MaxFaults
  BY DEF Answered, IInv, Types
<1>. HIDE DEF q
<1>. QED BY <1>4, <1>5, <1>6, <1>7, <1>8, LeaveKeeps

\* An undisturbed request finds its client open, and fails only with the server.
LEMMA CheckFailsKeeps ==
  ASSUME AuthorizationAssumption, IInv, NEW r \in Calls, CheckFails(r)
  PROVE  IInv'
<1>. DEFINE lost == asks[r].client \notin local[P(r)].open
            q == [asks[r] EXCEPT !.raised = TRUE, !.alone = @ /\ lost]
<1>1. /\ asks[r] \in Question /\ asks[r].pc = "checking" /\ Consent(asks[r]) /\ Alone(r)
  BY DEF CheckFails, At, IInv, Types, RequestInv
<1>2. Leave(r, q) /\ At(r, "checking") /\ UNCHANGED <<stores, models, granted, served>>
  BY DEF CheckFails
<1>3. (asks[r].alone /\ lost) = FALSE
  BY <1>1 DEF Alone, Undisturbed
<1>4. q \in Question /\ ~q.alone /\ q.raised
  BY <1>1, <1>3 DEF Question
<1>5. /\ q.list \/ \E a \in Agents : q.wanted = {a}
      /\ q.said \subseteq q.wanted
      /\ q.again => ~q.list /\ q.said = q.wanted
      /\ q.result \in {"none", "lookup"}
  BY <1>1 DEF Consent, Question
<1>6. faults' \in 0..MaxFaults
  <2>1. MaxFaults \in Nat /\ faults \in 0..MaxFaults
    BY DEF AuthorizationAssumption, IInv, Types
  <2>2. (faults' = faults) \/ (faults < MaxFaults /\ faults' = faults + 1)
    BY DEF CheckFails
  <2>. QED BY <2>1, <2>2
<1>. HIDE DEF q
<1>. QED BY <1>2, <1>4, <1>5, <1>6, LeaveKeeps

\* What the handler makes of an answer is what the server said first.
LEMMA ExitedKeeps == ASSUME IInv, NEW r \in Calls, Exited(r) PROVE IInv'
<1>. DEFINE p == asks[r]
            end == IF Outcome(p) = "lookup" THEN "lookup" ELSE "done"
            answer == IF Outcome(p) = "listed" THEN Listed(p.answer) ELSE p.answer
            q == [p EXCEPT !.pc = end, !.result = Outcome(p), !.answer = answer]
            l == [local[P(r)] EXCEPT !.client = NoClient]
<1>1. /\ asks \in [Calls -> Question] /\ local \in [Processes -> Shared(Calls)] /\ P(r) \in Processes
      /\ p \in Question /\ local[P(r)] \in Shared(Calls) /\ p.pc = "exiting" /\ Consent(p) /\ Alone(r)
  BY PairIsSomebody DEF Exited, At, IInv, Types, RequestInv
<1>2. /\ UNCHANGED <<stores, models, granted, served, faults>>
      /\ Becomes(r, q, l)
  BY <1>1 DEF Exited, Becomes
<1>3. p.alone /\ p.raised => Hard /\ p.answer = {}
  BY <1>1 DEF Alone, Undisturbed
<1>4. /\ Outcome(p) = "raised" => p.raised
      /\ Outcome(p) = "listed" => ~p.raised /\ p.list
      /\ Outcome(p) = "lookup" => ~p.raised /\ ~p.list /\ ~p.again /\ p.answer # {}
      /\ Outcome(p) = "service" => ~p.raised /\ ~p.list /\ (p.again \/ p.answer # {})
      /\ Outcome(p) \in {"raised", "listed", "403", "service", "lookup", "404"}
  BY <1>1 DEF Outcome, Question
<1>5. Listed(p.answer) \subseteq p.answer
  BY DEF Listed
<1>6. p.answer \subseteq Agents /\ answer \subseteq p.answer
  BY <1>1, <1>5 DEF Question
<1>. HIDE DEF p, answer
<1>7. q \in Question /\ q.pc \in {"lookup", "done"} /\ q.alone = p.alone /\ q.result = Outcome(p)
  BY <1>1, <1>4, <1>6 DEF Question
<1>8. ~p.raised /\ ~p.list /\ (p.again \/ p.answer # {}) => p.said = p.wanted
  BY <1>1 DEF Consent
<1>9. Consent(q)
  <2>1. /\ q.wanted = p.wanted /\ q.list = p.list /\ q.again = p.again /\ q.said = p.said
        /\ q.answer = answer /\ q.raised = p.raised /\ (q.pc = "lookup" <=> Outcome(p) = "lookup")
    BY <1>1 DEF Question
  <2>2. Outcome(p) = "listed" => answer \subseteq p.said
    BY <1>1, <1>4, <1>6 DEF Consent
  <2>. QED BY <1>1, <1>4, <1>7, <1>8, <2>1, <2>2 DEF Consent
<1>10. q.alone => Undisturbed(q, l)
  <2>1. Outcome(p) = "raised" => answer = p.answer
    BY DEF answer
  <2>2. q.answer = answer
    BY <1>1 DEF Question
  <2>. QED BY <1>3, <1>4, <1>7, <2>1, <2>2 DEF Undisturbed
<1>11. l \in Shared(Calls) /\ l.store = local[P(r)].store /\ l.lock = local[P(r)].lock
  <2>1. NoClient \in 0..local[P(r)].made /\ NoClient \in Nat
    BY <1>1 DEF Shared, NoClient
  <2>. QED BY <1>1, <2>1 DEF Shared
<1>12. Legal(r, q, l)
  BY <1>7, <1>9, <1>10, <1>11 DEF Legal, Respects, Holds
<1>13. /\ served' \subseteq Agents /\ models' \subseteq DOMAIN stores /\ faults' \in 0..MaxFaults
       /\ local[P(r)].store # NoStore => local[P(r)].store \in models'
  BY <1>1, <1>2 DEF IInv, Types, OneReadyStore
<1>14. Active(asks[r])
  BY <1>1 DEF Active, p
<1>15. p.alone = asks[r].alone
  BY DEF p
<1>. HIDE DEF q, l
<1>. QED BY <1>2, <1>7, <1>11, <1>12, <1>13, <1>14, <1>15, LegalStepKeeps
-----------------------------------------------------------------------------
(* A request begins: the others of its process are not alone any more *)

Asked(q, wanted, alone) ==
  [q EXCEPT !.wanted = wanted, !.list = (wanted = Agents), !.alone = alone]

LEMMA NewQuestion ==
  ASSUME NEW q \in Question, q.pc = "idle", Consent(q), NEW alone \in BOOLEAN,
         NEW wanted \in {{a} : a \in Agents} \cup {Agents}
  PROVE  /\ Asked(q, wanted, alone) \in Question /\ Consent(Asked(q, wanted, alone))
         /\ Asked(q, wanted, alone).pc = "idle" /\ Asked(q, wanted, alone).result # "raised"
         /\ Asked(q, wanted, alone).alone = alone
         /\ \/ Asked(q, wanted, alone).list
            \/ \E a \in Agents : Asked(q, wanted, alone).wanted = {a}
<1>. DEFINE q2 == Asked(q, wanted, alone)
<1>1. wanted \in SUBSET Agents /\ (wanted = Agents) \in BOOLEAN
  OBVIOUS
<1>2. q2 \in Question
  BY <1>1 DEF Question, Asked
<1>3. /\ q2.pc = "idle" /\ q2.alone = alone /\ q2.result = q.result /\ q2.again = q.again
      /\ q2.said = q.said /\ q2.answer = q.answer /\ q2.raised = q.raised
      /\ q2.list = (wanted = Agents) /\ q2.wanted = wanted
  BY DEF Question, Asked
<1>. HIDE DEF q2
<1>4. q2.list \/ \E a \in Agents : q2.wanted = {a}
  BY <1>3
<1>5. Consent(q2)
  BY <1>3, <1>4 DEF Consent
<1>6. q2.result # "raised"
  BY <1>3 DEF Consent
<1>. QED BY <1>2, <1>3, <1>4, <1>5, <1>6 DEF q2

\* The others of its process are not alone any more.
LEMMA Hushed ==
  ASSUME NEW C, NEW qs \in [C -> Question], NEW O, NEW r \in C, r \notin O
  PROVE  /\ [o \in C |-> IF o \in O THEN [qs[o] EXCEPT !.alone = FALSE] ELSE qs[o]] \in [C -> Question]
         /\ [o \in C |-> IF o \in O THEN [qs[o] EXCEPT !.alone = FALSE] ELSE qs[o]][r] = qs[r]
<1>1. \A o \in C : [qs[o] EXCEPT !.alone = FALSE] \in Question
  BY DEF Question
<1>. QED BY <1>1

LEMMA HushedConsent ==
  ASSUME NEW q \in Question, NEW s \in Question, Consent(q), s = [q EXCEPT !.alone = FALSE]
  PROVE  Consent(s)
<1>1. /\ s.pc = q.pc /\ s.list = q.list /\ s.wanted = q.wanted /\ s.said = q.said
      /\ s.again = q.again /\ s.raised = q.raised /\ s.result = q.result /\ s.answer = q.answer
  BY DEF Question
<1>. QED BY <1>1 DEF Consent

LEMMA BeginKeeps ==
  ASSUME IInv, NEW r \in Calls, NEW wanted \in {{a} : a \in Agents} \cup {Agents}, Begin(r, wanted)
  PROVE  IInv'
<1>. DEFINE m == local[P(r)]
            together == [o \in Calls |->
              IF o \in Others(r) THEN [asks[o] EXCEPT !.alone = FALSE] ELSE asks[o]]
            q0 == Asked(asks[r], wanted, Others(r) = {})
<1>1. /\ Calls \subseteq Processes \X Nat /\ asks \in [Calls -> Question]
      /\ local \in [Processes -> Shared(Calls)] /\ m \in Shared(Calls)
      /\ asks[r].pc = "idle" /\ Consent(asks[r])
      /\ \A o \in Calls : o # Nobody /\ P(o) \in Processes
  BY PairIsSomebody DEF Begin, At, IInv, Types, RequestInv
<1>2. /\ UNCHANGED <<stores, models, granted, served, faults>>
      /\ served' \subseteq Agents /\ faults' \in 0..MaxFaults /\ models' \subseteq DOMAIN stores
      /\ granted' \subseteq models' \X Agents /\ stores' \in Seq(Processes)
  BY DEF Begin, IInv, Types
<1>3. \A o \in Calls : o \in Others(r) <=> o # r /\ P(o) = P(r) /\ Active(asks[o])
  BY DEF Others, Active
<1>4. (Others(r) = {}) \in BOOLEAN /\ r \notin Others(r)
  BY <1>3
<1>5. /\ q0 \in Question /\ q0.pc = "idle" /\ q0.result # "raised" /\ Consent(q0)
      /\ q0.list \/ \E a \in Agents : q0.wanted = {a}
  <2>1. asks[r] \in Question /\ asks[r].pc = "idle" /\ Consent(asks[r])
    BY <1>1
  <2>2. PICK alone \in BOOLEAN : alone = (Others(r) = {})
    BY <1>4
  <2>. DEFINE a0 == Asked(asks[r], wanted, alone)
  <2>3. /\ a0 \in Question /\ a0.pc = "idle" /\ a0.result # "raised" /\ Consent(a0)
        /\ a0.list \/ \E a \in Agents : a0.wanted = {a}
    BY <2>1, <2>2, NewQuestion
  <2>4. a0 = q0
    BY <2>2
  <2>. QED BY <2>3, <2>4
<1>6. q0.alone <=> Others(r) = {}
  BY <1>1, <1>4, NewQuestion
<1>. HIDE DEF m
<1>7. together \in [Calls -> Question] /\ together[r] = asks[r]
  BY <1>1, <1>4, Hushed
<1>8. PICK qs \in [Calls -> Question] : qs = [together EXCEPT ![r] = q0]
  <2>. HIDE DEF together, q0
  <2>. QED BY <1>5, <1>7
<1>9. qs[r] = q0 /\ \A o \in Calls \ {r} : qs[o] = together[o]
  BY <1>7, <1>8
<1>10. qs = [together EXCEPT ![r].wanted = wanted, ![r].list = (wanted = Agents), ![r].alone = (Others(r) = {})]
  BY <1>7, <1>8 DEF Asked
<1>11. PICK q \in Question, l \in Shared(Calls) :
         /\ Enters(r, qs[r], m, q, l)
         /\ Enter(r, m, qs) = [own |-> l, all |-> [qs EXCEPT ![r] = q]]
  BY <1>1, <1>8, ScopeIsEntered DEF m
<1>12. asks' = [qs EXCEPT ![r] = q] /\ local' = [local EXCEPT ![P(r)] = l]
  <2>1. Become(r, Enter(r, m, qs))
    BY <1>10 DEF Begin, m
  <2>. QED BY <1>11, <2>1 DEF Become
<1>13. /\ Calls' = Calls /\ asks' \in [Calls -> Question] /\ local' \in [Processes -> Shared(Calls)]
       /\ asks'[r] = q /\ local'[P(r)] = l
       /\ \A o \in Calls \ {r} :
            /\ asks'[o] = IF o \in Others(r) THEN [asks[o] EXCEPT !.alone = FALSE] ELSE asks[o]
            /\ local'[P(o)] = IF P(o) = P(r) THEN l ELSE local[P(o)]
  BY <1>1, <1>8, <1>9, <1>12 DEF Calls
<1>. HIDE DEF together, q0
<1>14. Legal(r, q, l) /\ Enters(r, q0, m, q, l)
  <2>1. Enters(r, q0, local[P(r)], q, l)
    BY <1>9, <1>11 DEF m
  <2>2. q0.pc \notin {"exiting", "done"}
    BY <1>5
  <2>3. Legal(r, q, l)
    BY <1>5, <1>11, <2>1, <2>2, EnteringIsLegal DEF IInv
  <2>. QED BY <2>1, <2>3 DEF m
<1>15. q.alone = q0.alone /\ l.store = m.store /\ q.pc \in {"checking", "listing", "locking", "closing"}
  BY <1>1, <1>5, <1>14, EnteredRequest
<1>16. ASSUME NEW o \in Calls PROVE RequestInv(o)'
  <2>1. CASE o = r
    <3>1. Holds(o, asks'[o], local'[P(o)]) /\ Consent(asks'[o]) /\ StoreIsNew(o)'
      BY <1>13, <1>14, <1>15, <2>1 DEF Legal, StoreIsNew
    <3>2. q.alone => \A i \in Calls \ {r} : P(i) = P(r) => ~Active(asks'[i])
      BY <1>3, <1>6, <1>13, <1>15
    <3>3. Alone(o)'
      BY <1>13, <1>14, <2>1, <3>2 DEF Alone, Legal
    <3>. QED BY <3>1, <3>3 DEF RequestInv
  <2>2. CASE o # r
    <3>1. /\ Holds(o, asks[o], local[P(o)]) /\ StoreIsNew(o) /\ Consent(asks[o]) /\ Alone(o)
          /\ asks[o] \in Question
      BY <1>1 DEF IInv, RequestInv
    <3>2. /\ asks'[o].pc = asks[o].pc /\ asks'[o].store = asks[o].store
          /\ asks'[o].alone => asks'[o] = asks[o] /\ o \notin Others(r)
          /\ asks'[o] = asks[o] \/ asks'[o] = [asks[o] EXCEPT !.alone = FALSE]
      BY <1>13, <2>2, <3>1 DEF Question
    <3>3. Consent(asks'[o]) /\ StoreIsNew(o)'
      <4>1. Consent(asks'[o])
        BY <1>13, <3>1, <3>2, HushedConsent
      <4>2. StoreIsNew(o)'
        BY <1>2, <3>1, <3>2 DEF StoreIsNew
      <4>. QED BY <4>1, <4>2
    <3>4. Holds(o, asks'[o], local'[P(o)])
      <4>1. CASE P(o) = P(r)
        BY <1>1, <1>13, <1>14, <2>2, <3>1, <3>2, <4>1 DEF Holds, Legal, Respects
      <4>2. CASE P(o) # P(r)
        BY <1>13, <2>2, <3>1, <3>2, <4>2 DEF Holds
      <4>. QED BY <4>1, <4>2
    <3>5. ASSUME asks'[o].alone
          PROVE  /\ Active(asks'[o]) => \A i \in Calls \ {o} : P(i) = P(o) => ~Active(asks'[i])
                 /\ Undisturbed(asks'[o], local'[P(o)])
      <4>1. asks'[o] = asks[o] /\ o \notin Others(r)
        BY <3>2, <3>5
      <4>2. /\ Active(asks[o]) => \A i \in Calls \ {o} : P(i) = P(o) => ~Active(asks[i])
            /\ Undisturbed(asks[o], local[P(o)])
        BY <3>1, <3>5, <4>1 DEF Alone
      <4>3. CASE P(o) = P(r)
        <5>1. ~Active(asks[o])
          BY <1>3, <2>2, <4>1, <4>3
        <5>. QED BY <4>1, <4>2, <5>1 DEF Undisturbed, Active
      <4>4. CASE P(o) # P(r)
        <5>1. local'[P(o)] = local[P(o)]
          BY <1>13, <2>2, <4>4
        <5>2. \A i \in Calls \ {o} : P(i) = P(o) => asks'[i] = asks[i]
          BY <1>3, <1>13, <4>4
        <5>. QED BY <4>1, <4>2, <5>1, <5>2
      <4>. QED BY <4>3, <4>4
    <3>6. Alone(o)'
      BY <1>13, <3>5 DEF Alone
    <3>. QED BY <3>3, <3>4, <3>6 DEF RequestInv
  <2>. QED BY <2>1, <2>2
<1>17. OneReadyStore'
  <2>1. \A p \in Processes : local'[p].store = local[p].store
    BY <1>1, <1>12, <1>15 DEF m
  <2>. QED BY <1>2, <2>1 DEF IInv, OneReadyStore
<1>18. Types'
  BY <1>1, <1>2, <1>13 DEF Types
<1>. QED BY <1>13, <1>16, <1>17, <1>18 DEF IInv
-----------------------------------------------------------------------------
(* The theorems *)

LEMMA OthersKeep ==
  ASSUME IInv, UNCHANGED <<stores, models, local, asks, faults>>,
         granted' \subseteq models \X Agents, served' \subseteq Agents
  PROVE  IInv'
<1>1. Types'
  BY DEF IInv, Types, Calls
<1>2. OneReadyStore'
  BY DEF IInv, OneReadyStore
<1>3. ASSUME NEW r \in Calls PROVE RequestInv(r)'
  BY DEF IInv, RequestInv, StoreIsNew, Alone, Calls
<1>. QED BY <1>1, <1>2, <1>3 DEF IInv, Calls

LEMMA NextKeeps == ASSUME AuthorizationAssumption, IInv, [Next]_authorizationVars PROVE IInv'
<1>1. CASE UNCHANGED authorizationVars
  BY <1>1, OthersKeep DEF authorizationVars, IInv, Types
<1>2. ASSUME NEW s \in DOMAIN stores, NEW a \in Agents, Grant(s, a) \/ Revoke(s, a) PROVE IInv'
  BY <1>2, OthersKeep DEF Grant, Revoke, IInv, Types
<1>3. ASSUME NEW a \in Agents, Unregister(a) PROVE IInv'
  BY <1>3, OthersKeep DEF Unregister, IInv, Types
<1>4. ASSUME NEW r \in Calls, RequestStep(r) PROVE IInv'
  BY <1>4, ClosedKeeps, ListStoresKeeps, CreateStoreKeeps, PreparePolicyKeeps, InitializeFailsKeeps,
     AnsweredKeeps, CheckFailsKeeps, ExitedKeeps, LookUpKeeps DEF RequestStep
<1>. QED BY <1>1, <1>2, <1>3, <1>4, BeginKeeps DEF Next

\* The invariant: the lock, the stores and what every request was told, for every
\* interleaving of the requests of every process (open_fga_authorizer.py,
\* open_fga_store_cache.py, agent_authorization_policy.py).
THEOREM Invariance == ASSUME AuthorizationAssumption PROVE AuthorizationSpec => []IInv
<1>1. Init => IInv
  BY InitInv
<1>2. IInv /\ [Next]_authorizationVars => IInv'
  BY NextKeeps
<1>. QED BY <1>1, <1>2, PTL DEF AuthorizationSpec

\* A service is given, and an agent listed, only to who was told so by the server,
\* however the scopes of concurrent requests overlap (agent_authorization_policy.py).
THEOREM OnlyOnTheServersWord ==
  ASSUME AuthorizationAssumption PROVE AuthorizationSpec => []OnlyWithConsent
<1>1. IInv => OnlyWithConsent
  BY DEF IInv, RequestInv, Consent, OnlyWithConsent
<1>. QED BY <1>1, Invariance, PTL

\* The store a process asks has a policy, and the lock lets no process create a
\* second one (open_fga_store_cache.py, open_fga_init.py).
THEOREM StoresAreReady ==
  ASSUME AuthorizationAssumption PROVE AuthorizationSpec => []OneReadyStore
<1>1. IInv => OneReadyStore
  BY DEF IInv
<1>. QED BY <1>1, Invariance, PTL

\* Who has the scope for itself keeps its client, and is answered unless the server
\* fails or denials are raised (open_fga_authorizer.py).
THEOREM AloneIsServed ==
  ASSUME AuthorizationAssumption PROVE AuthorizationSpec => []AloneIsAnswered
<1>1. IInv => AloneIsAnswered
  BY DEF IInv, RequestInv, Alone, Undisturbed, AloneIsAnswered
<1>. QED BY <1>1, Invariance, PTL

\* The types of the shared client, the stores and the questions.
THEOREM TypeCorrect ==
  ASSUME AuthorizationAssumption PROVE AuthorizationSpec => []TypeOK
<1>1. IInv => TypeOK
  <2>. SUFFICES ASSUME IInv PROVE TypeOK
    OBVIOUS
  <2>1. ASSUME NEW p \in Processes
        PROVE  /\ local[p].open \subseteq 1..local[p].made /\ local[p].client \in 0..local[p].made
               /\ local[p].lock \in Calls \cup {Nobody} /\ local[p].blocked \in BOOLEAN
    <3>1. local[p] \in Shared(Calls)
      BY DEF IInv, Types
    <3>. QED BY <3>1 DEF Shared
  <2>2. \A r \in Calls : asks[r].wanted \subseteq Agents /\ asks[r].answer \subseteq Agents
    BY DEF IInv, Types, Question
  <2>. QED BY <2>1, <2>2 DEF TypeOK, IInv, Types
<1>. QED BY <1>1, Invariance, PTL
=============================================================================

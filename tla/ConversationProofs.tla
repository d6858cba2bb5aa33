-------------------------- MODULE ConversationProofs --------------------------
(***************************************************************************)
(* Proofs about the agents of a request and their messages, the two parts  *)
(* of Services that are recursions along sequences, for every value of     *)
(* their constants.  What the proofs about the other parts need too, the   *)
(* steps of a part and least numbers, comes first.                         *)
(***************************************************************************)
EXTENDS Services, WellFoundedInduction, FiniteSetTheorems, TLAPS

\* The steps of a behaviour are steps of its part.
LEMMA PartSteps ==
  ASSUME [Next]_ServiceVars
  PROVE  /\ part' = part
         /\ part = "streaming" => [St!Next]_StVars
         /\ part = "periodic" => [Pe!Next]_PeVars
         /\ part = "startup" => [Su!Next]_SuVars
         /\ part = "clients" => [Cl!Next]_ClVars
         /\ part = "objects" => [Ob!Next]_ObVars
         /\ part = "calls" => [Ca!Next]_CaVars
         /\ part = "messages" => [Mf!Next]_MfVars
         /\ part = "authorization" => [Au!Next]_AuVars
         /\ part = "mcp" => [Mc!Next]_McVars
         /\ part = "selection" => [Ts!Next]_TsVars
BY DEF Next, ServiceVars
-----------------------------------------------------------------------------
(* Least numbers, from which induction is had *)

Less == {p \in Nat \X Nat : p[1] < p[2]}

LEMMA LessIsWellFounded == IsWellFoundedOn(Less, Nat)
BY NatLessThanWellFounded DEF OpToRel, Less

LEMMA LeastNatural ==
  ASSUME NEW T, T \subseteq Nat, T # {}
  PROVE  \E x \in T : \A y \in T : x <= y
<1>1. \E x \in T : \A y \in T : ~(<<y, x>> \in Less)
  BY LessIsWellFounded, WFMin
<1>2. ASSUME NEW x \in Nat, NEW y \in Nat, <<y, x>> \notin Less PROVE x <= y
  BY <1>2 DEF Less
<1>. QED BY <1>1, <1>2
-----------------------------------------------------------------------------
(* The agents of a request: recursions along a sequence, and sums *)

\* What is so at the start, and whenever it is so before, is so everywhere.
LEMMA AllOfThem ==
  ASSUME NEW m \in Nat, NEW Good, 0 \in Good, \A n \in 1..m : n - 1 \in Good => n \in Good
  PROVE  0..m \subseteq Good
<1>. DEFINE Bad == {n \in 0..m : n \notin Good}
<1>. SUFFICES ASSUME Bad # {} PROVE FALSE
  OBVIOUS
<1>1. Bad \subseteq Nat
  OBVIOUS
<1>2. PICK n \in Bad : \A k \in Bad : n <= k
  <2>. HIDE DEF Bad
  <2>. QED BY <1>1, LeastNatural
<1>3. n \in 0..m /\ n \notin Good /\ n # 0
  OBVIOUS
<1>4. n \in 1..m /\ n - 1 \in 0..m /\ ~(n <= n - 1)
  BY <1>3
<1>5. n - 1 \in Good
  BY <1>2, <1>4
<1>. QED BY <1>3, <1>4, <1>5

IsSum(s, w, m) == s \in [0..m -> Int] /\ s[0] = 0 /\ \A n \in 1..m : s[n] = s[n - 1] + w[n]

\* x is the sum of the first m of w.
HasSum(w, m, x) == \E s : IsSum(s, w, m) /\ s[m] = x

LEMMA SumsAreUnique ==
  ASSUME NEW m \in Nat, NEW w, NEW s, NEW t, IsSum(s, w, m), IsSum(t, w, m)
  PROVE  s = t
<1>. DEFINE Good == {n \in 0..m : s[n] = t[n]}
<1>1. 0 \in Good
  BY DEF IsSum
<1>2. ASSUME NEW n \in 1..m, n - 1 \in Good PROVE n \in Good
  BY <1>2 DEF IsSum
<1>3. 0..m \subseteq Good
  <2>. HIDE DEF Good
  <2>. QED BY <1>1, <1>2, AllOfThem
<1>. QED BY <1>3 DEF IsSum

LEMMA SumsAreNatural ==
  ASSUME NEW m \in Nat, NEW w, \A n \in 1..m : w[n] \in Nat, NEW x, HasSum(w, m, x)
  PROVE  x \in Nat
<1>1. PICK s : IsSum(s, w, m) /\ s[m] = x
  BY DEF HasSum
<1>. DEFINE Good == {n \in 0..m : s[n] \in Nat}
<1>2. 0 \in Good
  BY <1>1 DEF IsSum
<1>3. ASSUME NEW n \in 1..m, n - 1 \in Good PROVE n \in Good
  BY <1>1, <1>3 DEF IsSum
<1>4. 0..m \subseteq Good
  <2>. HIDE DEF Good
  <2>. QED BY <1>2, <1>3, AllOfThem
<1>. QED BY <1>1, <1>4

LEMMA SumOfMore ==
  ASSUME NEW m \in Nat, NEW w, NEW v, NEW n \in 1..m, NEW d \in Int, NEW x, HasSum(w, m, x),
         v[n] = w[n] + d, \A k \in 1..m : w[k] \in Int /\ (k # n => v[k] = w[k])
  PROVE  HasSum(v, m, x + d)
<1>1. PICK s : IsSum(s, w, m) /\ s[m] = x
  BY DEF HasSum
<1>. DEFINE t == [k \in 0..m |-> IF k < n THEN s[k] ELSE s[k] + d]
<1>2. t \in [0..m -> Int] /\ t[0] = 0 /\ t[m] = x + d
  BY <1>1 DEF IsSum
<1>3. ASSUME NEW k \in 1..m PROVE t[k] = t[k - 1] + v[k]
  <2>1. k - 1 \in 0..m /\ k \in 0..m /\ s[k] = s[k - 1] + w[k] /\ s[k] \in Int /\ s[k - 1] \in Int /\ w[k] \in Int
    BY <1>1 DEF IsSum
  <2>2. CASE k < n
    BY <2>1, <2>2
  <2>3. CASE k = n
    BY <2>1, <2>3
  <2>4. CASE k > n
    BY <2>1, <2>4
  <2>. QED BY <2>2, <2>3, <2>4
<1>. QED BY <1>2, <1>3 DEF HasSum, IsSum

LEMMA SumOfTheSame ==
  ASSUME NEW m \in Nat, NEW w, NEW v, NEW x, HasSum(w, m, x), \A k \in 1..m : v[k] = w[k]
  PROVE  HasSum(v, m, x)
BY DEF HasSum, IsSum

LEMMA SumOfNothingMore ==
  ASSUME NEW m \in Nat, NEW j \in Nat, m <= j, NEW w, NEW x, HasSum(w, m, x), \A n \in (m + 1)..j : w[n] = 0
  PROVE  HasSum(w, j, x)
<1>1. PICK s : IsSum(s, w, m) /\ s[m] = x
  BY DEF HasSum
<1>. DEFINE t == [n \in 0..j |-> IF n <= m THEN s[n] ELSE x]
<1>2. t \in [0..j -> Int] /\ t[0] = 0 /\ t[j] = x
  BY <1>1 DEF IsSum
<1>3. ASSUME NEW n \in 1..j PROVE t[n] = t[n - 1] + w[n]
  <2>1. CASE n <= m
    BY <1>1, <2>1 DEF IsSum
  <2>2. CASE n > m
    BY <1>1, <2>2 DEF IsSum
  <2>. QED BY <2>1, <2>2
<1>. QED BY <1>2, <1>3 DEF HasSum, IsSum

LEMMA SumOfNone == ASSUME NEW w, w[1] = 0 PROVE HasSum(w, 1, 0)
<1>. DEFINE s == [n \in 0..1 |-> 0]
<1>1. \A n \in 1..1 : n = 1
  OBVIOUS
<1>2. IsSum(s, w, 1) /\ s[1] = 0
  BY <1>1 DEF IsSum
<1>. QED BY <1>2 DEF HasSum

\* A sum defined along the sequence is that sum.
LEMMA SumsAreMade ==
  ASSUME NEW m \in Nat, NEW w, \A n \in 1..m : w[n] \in Int
  PROVE  \E s : IsSum(s, w, m)
<1>. DEFINE Good == {n \in 0..m : \E s : IsSum(s, w, n)}
<1>1. 0 \in Good
  <2>1. IsSum([n \in 0..0 |-> 0], w, 0)
    BY DEF IsSum
  <2>. QED BY <2>1
<1>2. ASSUME NEW n \in 1..m, n - 1 \in Good PROVE n \in Good
  <2>1. PICK s : IsSum(s, w, n - 1)
    BY <1>2
  <2>. DEFINE t == [k \in 0..n |-> IF k < n THEN s[k] ELSE s[n - 1] + w[n]]
  <2>2. s[n - 1] \in Int /\ w[n] \in Int /\ s \in [0..(n - 1) -> Int] /\ s[0] = 0
        /\ \A k \in 1..(n - 1) : s[k] = s[k - 1] + w[k]
    BY <2>1 DEF IsSum
  <2>3. t \in [0..n -> Int] /\ t[0] = 0
    BY <2>2
  <2>4. ASSUME NEW k \in 1..n PROVE t[k] = t[k - 1] + w[k]
    <3>1. CASE k < n
      <4>1. k \in 1..(n - 1) /\ k - 1 \in 0..n /\ k - 1 < n /\ k \in 0..n
        BY <3>1
      <4>. QED BY <2>2, <3>1, <4>1
    <3>2. CASE k = n
      <4>1. k - 1 \in 0..n /\ k - 1 < n /\ k \in 0..n
        BY <3>2
      <4>. QED BY <3>2, <4>1
    <3>. QED BY <3>1, <3>2
  <2>. HIDE DEF t
  <2>5. IsSum(t, w, n)
    BY <2>3, <2>4 DEF IsSum
  <2>. QED BY <2>5
<1>3. 0..m \subseteq Good
  <2>. HIDE DEF Good
  <2>. QED BY <1>1, <1>2, AllOfThem
<1>. QED BY <1>3
-----------------------------------------------------------------------------
(* The tree of activations *)

Waiting == {"tools", "timeout", "cancelled"}
Ended == {"done", "linger"}

ActRecord ==
  [kind : {"agent", "tool", "external"}, parent : Nat, cloned : BOOLEAN,
   pc : {"new", "chain", "tools", "stream", "final", "timeout", "report", "close", "cancelled", "linger", "done"},
   attempts : 0..AgentAttempts, own : Nat, heard : Nat, failed : 0..AgentAttempts, finals : 0..1,
   reported : BOOLEAN, open : BOOLEAN]

\* An activation by itself: what its place says of its attempts and its last word.
GoodAct(a) ==
  /\ a \in ActRecord /\ a.own <= a.heard
  /\ a.pc \in {"new", "chain", "tools"} => a.attempts > 0 /\ a.failed + a.attempts = AgentAttempts
  /\ a.finals = 1 => a.kind = "agent" /\ a.pc \in {"report", "close", "cancelled", "linger", "done"}
  /\ a.pc = "report" => a.finals = 1
  /\ a.reported => a.finals = 1 /\ a.pc \in {"close", "cancelled", "linger", "done"}

\* An activation and the one that called it: who runs is awaited, unless it is a clone.
Edge(a, p) ==
  /\ a.cloned <=> p.cloned \/ p.kind = "external"
  /\ a.kind # "agent" => p.kind = "agent"
  /\ a.pc = "linger" => p.kind = "tool" /\ p.pc # "done"
  /\ p.kind # "external" /\ a.pc \notin Ended => p.pc \in Waiting
  /\ p.kind # "external" /\ a.pc = "done" => ~a.open
  /\ p.finals = 1 => a.pc = "done"

Root(a) ==
  /\ a.kind = "agent" /\ a.parent = 0 /\ ~a.cloned
  /\ a.pc # "linger" /\ (a.pc = "done" => ~a.open)
  /\ a.reported => a.pc \in {"close", "done"}

GoodTree(f) ==
  /\ f \in Seq(ActRecord) /\ Len(f) \in 1..MaxActivations
  /\ \A k \in 1..Len(f) : GoodAct(f[k])
  /\ Root(f[1])
  /\ \A k \in 2..Len(f) : f[k].parent \in 1..(k - 1) /\ Edge(f[k], f[f[k].parent])

MainWeights(f) == [n \in 1..Len(f) |-> IF f[n].reported /\ ~f[n].cloned THEN f[n].own ELSE 0]
RestWeights(f) == [n \in 1..Len(f) |-> IF f[n].reported THEN 0 ELSE f[n].own]

AccountInv ==
  /\ llmCalls \in Nat /\ rounds \in 0..MaxRounds /\ acts[1].heard = llmCalls
  /\ accounting \in [main : Int, total : Int, time : 0..Len(acts)]
  /\ acts[1].reported => accounting.time = 1
  /\ HasSum(MainWeights(acts), Len(acts), accounting.main)
  /\ HasSum(RestWeights(acts), Len(acts), llmCalls - accounting.total)
  /\ Ca!EveryCallCountedOnce

CallsInv == GoodTree(acts) /\ AccountInv

LEMMA AgentTypes == MaxActivations \in Nat \ {0} /\ MaxRounds \in Nat /\ AgentAttempts \in Nat \ {0}
BY PartsAssumption DEF Ca!AgentAssumption

LEMMA TreeTypes ==
  ASSUME GoodTree(acts)
  PROVE  /\ Ca!Made = 1..Len(acts) /\ Len(acts) \in Nat /\ 1 \in Ca!Made /\ Ca!FrontMan = 1
         /\ \A k \in Ca!Made : /\ acts[k].parent \in Nat /\ acts[k].parent < k
                               /\ acts[k].parent = 0 <=> k = 1
                               /\ k # 1 => acts[k].parent \in Ca!Made
  <1>1. Ca!Made = 1..Len(acts) /\ Len(acts) \in Nat /\ Len(acts) >= 1 /\ Ca!FrontMan = 1
    BY DEF GoodTree, Ca!Made, Ca!FrontMan
  <1>2. acts[1].parent = 0
    BY DEF GoodTree, Root
  <1>3. \A k \in Ca!Made : k # 1 => k \in 2..Len(acts)
    BY <1>1
  <1>4. \A k \in 2..Len(acts) : acts[k].parent \in 1..(k - 1)
    BY DEF GoodTree
  <1>. QED BY <1>1, <1>2, <1>3, <1>4

\* An activation is in its own chain, and so is the front man.
LEMMA ChainsBegin ==
  ASSUME GoodTree(acts)
  PROVE  \A k \in Ca!Made : k \in Ca!Chain[k] /\ 1 \in Ca!Chain[k]
<1>. DEFINE m == Len(acts)
            IsChain(c, n) == c = [k \in {0} \cup (1..n) |-> IF k = 0 THEN {} ELSE {k} \cup c[acts[k].parent]]
<1>0. /\ Ca!Made = 1..m /\ m \in Nat
      /\ \A k \in 1..m : /\ acts[k].parent \in Nat /\ acts[k].parent < k
                         /\ acts[k].parent = 0 <=> k = 1
  BY TreeTypes
<1>1. \E c : IsChain(c, m)
  <2>. DEFINE Good == {n \in 0..m : \E c : IsChain(c, n)}
  <2>1. 0 \in Good
    <3>1. IsChain([k \in {0} \cup (1..0) |-> {}], 0)
      <4>1. \A k \in {0} \cup (1..0) : k = 0
        OBVIOUS
      <4>. QED BY <4>1
    <3>. HIDE DEF IsChain
    <3>2. \E c : IsChain(c, 0)
      BY <3>1
    <3>. QED BY <1>0, <3>2
  <2>2. ASSUME NEW n \in 1..m, n - 1 \in Good PROVE n \in Good
    <3>1. PICK c : IsChain(c, n - 1)
      BY <2>2
    <3>. DEFINE d == [k \in {0} \cup (1..n) |-> IF k = n THEN {n} \cup c[acts[n].parent] ELSE c[k]]
    <3>2. \A k \in {0} \cup (1..(n - 1)) : c[k] = IF k = 0 THEN {} ELSE {k} \cup c[acts[k].parent]
      BY <3>1
    <3>. HIDE DEF IsChain
    <3>3. ASSUME NEW k \in {0} \cup (1..n)
          PROVE  d[k] = IF k = 0 THEN {} ELSE {k} \cup d[acts[k].parent]
      <4>1. CASE k = 0
        <5>1. k # n /\ k \in {0} \cup (1..(n - 1))
          BY <1>0, <4>1
        <5>. QED BY <3>2, <4>1, <5>1
      <4>2. CASE k # 0
        <5>1. k \in 1..n /\ k \in 1..m /\ acts[k].parent \in {0} \cup (1..n) /\ acts[k].parent # n
          BY <1>0, <4>2
        <5>2. d[acts[k].parent] = c[acts[k].parent]
          BY <5>1
        <5>3. CASE k = n
          BY <4>2, <5>2, <5>3
        <5>4. CASE k # n
          <6>1. k \in 1..(n - 1)
            BY <5>1, <5>4
          <6>. QED BY <3>2, <4>2, <5>2, <5>4, <6>1
        <5>. QED BY <5>3, <5>4
      <4>. QED BY <4>1, <4>2
    <3>. HIDE DEF d
    <3>4. d = [k \in {0} \cup (1..n) |-> d[k]]
      BY DEF d
    <3>5. IsChain(d, n)
      BY <3>3, <3>4 DEF IsChain
    <3>. QED BY <3>5
  <2>3. 0..m \subseteq Good
    <3>. HIDE DEF Good
    <3>. QED BY <1>0, <2>1, <2>2, AllOfThem
  <2>4. m \in 0..m
    BY <1>0
  <2>. QED BY <2>3, <2>4
<1>2. IsChain(Ca!Chain, m)
  <2>1. Ca!Chain = CHOOSE c : c = [k \in {0} \cup Ca!Made |-> IF k = 0 THEN {} ELSE {k} \cup c[acts[k].parent]]
    BY DEF Ca!Chain
  <2>2. Ca!Chain = CHOOSE c : IsChain(c, m)
    BY <1>0, <2>1
  <2>. HIDE DEF IsChain
  <2>. QED BY <1>1, <2>2
<1>3. \A k \in 1..m : Ca!Chain[k] = {k} \cup Ca!Chain[acts[k].parent]
  BY <1>0, <1>2
<1>4. \A k \in 1..m : 1 \in Ca!Chain[k]
  <2>. DEFINE Bad == {k \in 1..m : 1 \notin Ca!Chain[k]}
  <2>. SUFFICES ASSUME Bad # {} PROVE FALSE
    OBVIOUS
  <2>. HIDE DEF IsChain
  <2>1. PICK k \in Bad : \A j \in Bad : k <= j
    <3>1. Bad \subseteq Nat
      OBVIOUS
    <3>. HIDE DEF Bad
    <3>. QED BY <3>1, LeastNatural
  <2>2. k \in 1..m /\ 1 \notin Ca!Chain[k] /\ k # 1
    BY <1>3
  <2>3. acts[k].parent \in 1..m /\ ~(k <= acts[k].parent)
    BY <1>0, <2>2
  <2>4. 1 \in Ca!Chain[acts[k].parent]
    BY <2>1, <2>3
  <2>. QED BY <1>3, <2>2, <2>4
<1>. QED BY <1>0, <1>3, <1>4

\* Who is awaited by n is called by n, or by one that is awaited by n.
LEMMA AwaitedOnes ==
  ASSUME GoodTree(acts), NEW n \in Ca!Made
  PROVE  \A k \in Ca!AwaitedBy(n) : /\ k \in Ca!Made /\ k # 1 /\ ~Ca!IsClone(k) /\ k # n
                                    /\ acts[k].parent \in Ca!AwaitedBy(n) \cup {n}
<1>. DEFINE m == Len(acts)
            Stops(k) == acts[k].parent = 0 \/ Ca!IsClone(k)
            Called(c, j) == c = [k \in 1..j |-> IF Stops(k) THEN {} ELSE {acts[k].parent} \cup c[acts[k].parent]]
<1>0. /\ Ca!Made = 1..m /\ m \in Nat /\ n \in 1..m
      /\ \A k \in 1..m : /\ acts[k].parent \in Nat /\ acts[k].parent < k
                         /\ acts[k].parent = 0 <=> k = 1
  BY TreeTypes
<1>1. \E c : Called(c, m)
  <2>. DEFINE Good == {j \in 0..m : \E c : Called(c, j)}
  <2>. HIDE DEF Stops
  <2>1. 0 \in Good
    <3>1. Called([k \in 1..0 |-> {}], 0)
      <4>1. 1..0 = {}
        OBVIOUS
      <4>. QED BY <4>1
    <3>. HIDE DEF Called
    <3>2. \E c : Called(c, 0)
      BY <3>1
    <3>. QED BY <1>0, <3>2
  <2>2. ASSUME NEW j \in 1..m, j - 1 \in Good PROVE j \in Good
    <3>1. PICK c : Called(c, j - 1)
      BY <2>2
    <3>. DEFINE d == [k \in 1..j |-> IF k = j THEN (IF Stops(j) THEN {} ELSE {acts[j].parent} \cup c[acts[j].parent])
                                     ELSE c[k]]
    <3>2. \A k \in 1..(j - 1) : c[k] = IF Stops(k) THEN {} ELSE {acts[k].parent} \cup c[acts[k].parent]
      BY <3>1
    <3>. HIDE DEF Called
    <3>3. ASSUME NEW k \in 1..j
          PROVE  d[k] = IF Stops(k) THEN {} ELSE {acts[k].parent} \cup d[acts[k].parent]
      <4>1. CASE Stops(k)
        <5>1. k # j => k \in 1..(j - 1)
          BY <1>0
        <5>. QED BY <3>2, <4>1, <5>1
      <4>2. CASE ~Stops(k)
        <5>1. k \in 1..m /\ acts[k].parent \in 1..j /\ acts[k].parent # j
          BY <1>0, <4>2 DEF Stops
        <5>2. d[acts[k].parent] = c[acts[k].parent]
          BY <5>1
        <5>3. CASE k = j
          BY <4>2, <5>2, <5>3
        <5>4. CASE k # j
          <6>1. k \in 1..(j - 1)
            BY <1>0, <5>4
          <6>. QED BY <3>2, <4>2, <5>2, <5>4, <6>1
        <5>. QED BY <5>3, <5>4
      <4>. QED BY <4>1, <4>2
    <3>4. d = [k \in 1..j |-> d[k]]
      OBVIOUS
    <3>. HIDE DEF d
    <3>5. Called(d, j)
      BY <3>3, <3>4 DEF Called
    <3>. QED BY <3>5
  <2>3. 0..m \subseteq Good
    <3>. HIDE DEF Good
    <3>. QED BY <1>0, <2>1, <2>2, AllOfThem
  <2>4. m \in 0..m
    BY <1>0
  <2>. QED BY <2>3, <2>4
<1>2. Called(Ca!Awaiting, m)
  <2>1. Ca!Awaiting = CHOOSE a : a = [k \in Ca!Made |-> IF acts[k].parent = 0 \/ Ca!IsClone(k) THEN {}
                                                        ELSE {acts[k].parent} \cup a[acts[k].parent]]
    BY DEF Ca!Awaiting
  <2>2. Ca!Awaiting = CHOOSE c : Called(c, m)
    BY <1>0, <2>1
  <2>. HIDE DEF Called
  <2>. QED BY <1>1, <2>2
<1>3. \A k \in 1..m : Ca!Awaiting[k] = IF Stops(k) THEN {} ELSE {acts[k].parent} \cup Ca!Awaiting[acts[k].parent]
  BY <1>2
<1>. HIDE DEF Called
<1>4. ASSUME NEW k \in Ca!AwaitedBy(n)
      PROVE  /\ k \in Ca!Made /\ k # 1 /\ ~Ca!IsClone(k) /\ acts[k].parent \in Ca!Made
             /\ acts[k].parent \in Ca!AwaitedBy(n) \cup {n}
  <2>1. k \in 1..m /\ n \in Ca!Awaiting[k]
    BY <1>0 DEF Ca!AwaitedBy
  <2>2. ~Stops(k) /\ n \in {acts[k].parent} \cup Ca!Awaiting[acts[k].parent]
    BY <1>3, <2>1
  <2>3. acts[k].parent \in 1..m
    BY <1>0, <2>1, <2>2
  <2>. QED BY <1>0, <2>1, <2>2, <2>3 DEF Ca!AwaitedBy
<1>5. n \notin Ca!AwaitedBy(n)
  <2>. DEFINE Bad == {k \in 1..n : k \in Ca!AwaitedBy(n)}
  <2>. SUFFICES ASSUME n \in Ca!AwaitedBy(n) PROVE FALSE
    OBVIOUS
  <2>1. Bad # {} /\ Bad \subseteq Nat
    BY <1>0
  <2>2. PICK k \in Bad : \A j \in Bad : k <= j
    <3>. HIDE DEF Bad
    <3>. QED BY <2>1, LeastNatural
  <2>3. k \in 1..n /\ k \in Ca!AwaitedBy(n) /\ k \in 1..m
    BY <1>0
  <2>4. acts[k].parent \in Ca!AwaitedBy(n) \cup {n} /\ acts[k].parent < k /\ acts[k].parent \in Nat /\ k # 1
    BY <1>0, <1>4, <2>3
  <2>5. acts[k].parent \in 1..n /\ acts[k].parent # n /\ ~(k <= acts[k].parent)
    BY <1>0, <2>3, <2>4
  <2>. QED BY <2>2, <2>4, <2>5
<1>. QED BY <1>4, <1>5

\* What is summed for the accounting of the main network.
LEMMA MainIsSummed ==
  ASSUME GoodTree(acts), HasSum(MainWeights(acts), Len(acts), accounting.main)
  PROVE  Ca!MainIsOwn
<1>. DEFINE m == Len(acts)
            w == MainWeights(acts)
            Sums(s) == s = [n \in 0..m |-> IF n = 0 THEN 0
                            ELSE s[n - 1] + (IF acts[n].reported /\ ~acts[n].cloned THEN acts[n].own ELSE 0)]
<1>1. m \in Nat /\ \A n \in 1..m : w[n] \in Int /\ w[n] = IF acts[n].reported /\ ~acts[n].cloned THEN acts[n].own ELSE 0
  <2>1. m \in Nat
    BY DEF GoodTree
  <2>2. ASSUME NEW n \in 1..m
        PROVE  w[n] \in Int /\ w[n] = IF acts[n].reported /\ ~acts[n].cloned THEN acts[n].own ELSE 0
    <3>1. acts[n] \in ActRecord
      BY DEF GoodTree, GoodAct
    <3>2. acts[n].own \in Int
      BY <3>1 DEF ActRecord
    <3>. QED BY <3>2 DEF MainWeights
  <2>. QED BY <2>1, <2>2
<1>. HIDE DEF w
<1>2. ASSUME NEW s, IsSum(s, w, m) PROVE Sums(s)
  <2>1. s = [n \in 0..m |-> s[n]] /\ s[0] = 0 /\ \A n \in 1..m : s[n] = s[n - 1] + w[n]
    BY <1>2 DEF IsSum
  <2>2. \A n \in 0..m : n # 0 => n \in 1..m
    BY <1>1
  <2>. QED BY <1>1, <2>1, <2>2
<1>3. ASSUME NEW s, Sums(s) PROVE IsSum(s, w, m)
  <2>. DEFINE Good == {n \in 0..m : s[n] \in Int}
  <2>1. s[0] = 0
    BY <1>1, <1>3
  <2>2. ASSUME NEW n \in 1..m PROVE s[n] = s[n - 1] + w[n]
    <3>1. n \in 0..m /\ n # 0
      BY <1>1
    <3>. QED BY <1>1, <1>3, <3>1
  <2>3. 0..m \subseteq Good
    <3>1. 0 \in Good
      BY <1>1, <2>1
    <3>2. \A n \in 1..m : n - 1 \in Good => n \in Good
      BY <1>1, <2>2
    <3>. HIDE DEF Good
    <3>. QED BY <1>1, <3>1, <3>2, AllOfThem
  <2>4. s \in [0..m -> Int]
    <3>1. s = [n \in 0..m |-> s[n]]
      BY <1>3
    <3>. QED BY <2>3, <3>1
  <2>. QED BY <2>1, <2>2, <2>4 DEF IsSum
<1>. HIDE DEF Sums
<1>4. PICK s : IsSum(s, w, m) /\ s[m] = accounting.main
  BY DEF HasSum, w
<1>5. \A t : Sums(t) <=> t = s
  BY <1>1, <1>2, <1>3, <1>4, SumsAreUnique
<1>6. (CHOOSE t : Sums(t)) = s
  BY <1>5
<1>7. Ca!MainCalls = (CHOOSE t : Sums(t))[m]
  BY DEF Ca!MainCalls, Sums
<1>. QED BY <1>4, <1>6, <1>7 DEF Ca!MainIsOwn

\* What stays of an activation, and what stays of one that is not concerned by a step.
Birth(b, a) == b.kind = a.kind /\ b.parent = a.parent /\ b.cloned = a.cloned
Still(b, a) == b.pc = a.pc /\ b.finals = a.finals /\ b.reported = a.reported /\ b.open = a.open

\* All that n awaits has ended.
KidsEnded(f, n) == \A k \in 1..Len(f) : f[k].parent = n /\ f[n].kind # "external" => f[k].pc \in Ended

LEMMA KidsDoneMeans ==
  ASSUME GoodTree(acts), NEW n \in Ca!Made
  PROVE  Ca!KidsDone(n) <=> KidsEnded(acts, n)
<1>1. Ca!Made = 1..Len(acts) /\ n # 0
  BY TreeTypes
<1>2. \A k \in Ca!Made : acts[k].parent = n => (Ca!IsClone(k) <=> acts[n].kind = "external")
  BY <1>1 DEF Ca!IsClone
<1>3. Ca!KidsDone(n) <=> \A k \in Ca!Made : acts[k].parent = n => Ca!IsClone(k) \/ acts[k].pc \in {"done", "linger"}
  BY DEF Ca!KidsDone, Ca!Kids
<1>. QED BY <1>1, <1>2, <1>3 DEF KidsEnded, Ended

\* Whoever is not waiting has no one running below.
LEMMA IdleKidsEnded ==
  ASSUME NEW f, GoodTree(f), NEW n \in 1..Len(f), f[n].pc \notin Waiting
  PROVE  KidsEnded(f, n)
<1>. SUFFICES ASSUME NEW k \in 1..Len(f), f[k].parent = n, f[n].kind # "external" PROVE f[k].pc \in Ended
  BY DEF KidsEnded
<1>1. f[1].parent = 0 /\ n # 0 /\ Len(f) \in Nat
  BY DEF GoodTree, Root
<1>2. k \in 2..Len(f)
  BY <1>1
<1>3. Edge(f[k], f[n])
  BY <1>2 DEF GoodTree
<1>. QED BY <1>3 DEF Edge

\* One activation goes on, and perhaps calls others.
LEMMA TreeMoves ==
  ASSUME GoodTree(acts), NEW n \in Ca!Made, NEW g, g \in Seq(ActRecord),
         Len(g) \in Len(acts)..MaxActivations, \A k \in 1..Len(g) : GoodAct(g[k]),
         acts[n].pc \notin Ended, g[n].pc \notin Ended, g[n].open = acts[n].open,
         \A k \in 1..Len(acts) : Birth(g[k], acts[k]) /\ (k # n => Still(g[k], acts[k])),
         n = 1 /\ g[n].reported => g[n].pc = "close",
         g[n].pc \notin Waiting => KidsEnded(acts, n),
         g[n].finals = 1 => KidsEnded(acts, n),
         \A k \in (Len(acts) + 1)..Len(g) :
           /\ g[k].parent = n /\ g[k].pc = "new" /\ g[n].finals = 0
           /\ g[k].cloned <=> acts[n].cloned \/ acts[n].kind = "external"
           /\ g[k].kind # "agent" => acts[n].kind = "agent"
           /\ g[n].pc \in Waiting \/ acts[n].kind = "external"
  PROVE  GoodTree(g)
<1>. DEFINE m == Len(acts)
<1>1. /\ m \in Nat /\ m >= 1 /\ n \in 1..m /\ Len(g) \in Nat /\ m <= Len(g) /\ Len(g) \in 1..MaxActivations
      /\ Root(acts[1]) /\ \A k \in 2..m : acts[k].parent \in 1..(k - 1) /\ Edge(acts[k], acts[acts[k].parent])
  BY TreeTypes, AgentTypes DEF GoodTree
<1>2. Root(g[1])
  <2>1. Birth(g[1], acts[1]) /\ (1 # n => Still(g[1], acts[1]))
    BY <1>1
  <2>. QED BY <1>1, <2>1 DEF Root, Birth, Still, Ended
<1>3. ASSUME NEW k \in 2..m PROVE g[k].parent \in 1..(k - 1) /\ Edge(g[k], g[g[k].parent])
  <2>. DEFINE p == acts[k].parent
  <2>1. /\ k \in 1..m /\ p \in 1..(k - 1) /\ p \in 1..m /\ g[k].parent = p /\ Edge(acts[k], acts[p])
        /\ Birth(g[k], acts[k]) /\ (k # n => Still(g[k], acts[k]))
        /\ Birth(g[p], acts[p]) /\ (p # n => Still(g[p], acts[p])) /\ k # p
    BY <1>1 DEF Birth
  <2>2. CASE p # n /\ k # n
    BY <2>1, <2>2 DEF Edge, Birth, Still
  <2>3. CASE k = n
    <3>1. Still(g[p], acts[p]) /\ p # n
      BY <2>1, <2>3
    <3>. HIDE DEF p
    <3>2. acts[p].finals # 1
      BY <2>1, <2>3 DEF Edge, Ended
    <3>. QED BY <2>1, <2>3, <3>1, <3>2 DEF Edge, Birth, Still, Ended
  <2>4. CASE p = n
    <3>1. Still(g[k], acts[k]) /\ k # n
      BY <2>1, <2>4
    <3>2. KidsEnded(acts, n) => (acts[n].kind # "external" => acts[k].pc \in Ended)
      BY <2>1, <2>4 DEF KidsEnded
    <3>3. GoodAct(g[n])
      BY <1>1
    <3>. HIDE DEF p
    <3>4. /\ g[n].finals = 1 => acts[n].kind = "agent" /\ acts[k].pc = "done"
      BY <2>1, <2>4, <3>2, <3>3 DEF GoodAct, Birth, Edge, Ended
    <3>5. Edge(acts[k], acts[n]) /\ Birth(g[n], acts[n]) /\ Birth(g[k], acts[k])
      BY <2>1, <2>4
    <3>6. g[k].pc = acts[k].pc /\ g[k].open = acts[k].open
      BY <3>1 DEF Still
    <3>7. acts[n].kind # "external" /\ acts[k].pc \notin Ended => g[n].pc \in Waiting
      BY <3>2
    <3>8. Edge(g[k], g[n])
      BY <3>4, <3>5, <3>6, <3>7 DEF Edge, Birth, Ended
    <3>. QED BY <2>1, <2>4, <3>8
  <2>. QED BY <2>2, <2>3, <2>4
<1>4. ASSUME NEW k \in (m + 1)..Len(g) PROVE g[k].parent \in 1..(k - 1) /\ Edge(g[k], g[g[k].parent])
  <2>1. g[k].parent = n /\ n \in 1..(k - 1) /\ Birth(g[n], acts[n])
    BY <1>1
  <2>2. Edge(g[k], g[n])
    BY <2>1 DEF Edge, Birth, Ended
  <2>. QED BY <2>1, <2>2
<1>5. \A k \in 2..Len(g) : k \in 2..m \/ k \in (m + 1)..Len(g)
  BY <1>1
<1>. QED BY <1>1, <1>2, <1>3, <1>4, <1>5 DEF GoodTree

\* A task is cancelled with what it awaits, or n is told that its time is over.
LEMMA TreeIsCancelled ==
  ASSUME GoodTree(acts), NEW n \in Ca!Made, NEW g, g \in Seq(ActRecord), Len(g) = Len(acts),
         \A k \in 1..Len(acts) : GoodAct(g[k]) /\ Birth(g[k], acts[k]) /\ g[k].open = acts[k].open
                                 /\ g[k].finals = acts[k].finals /\ g[k].reported = acts[k].reported,
         acts[n].pc \notin Ended, g[n].pc \in {"timeout", "cancelled"}, n = 1 => ~acts[1].reported,
         \A k \in 1..Len(acts) : k # n =>
           g[k].pc = IF k \in Ca!AwaitedBy(n) /\ acts[k].pc # "done" THEN "cancelled" ELSE acts[k].pc
  PROVE  GoodTree(g)
<1>. DEFINE m == Len(acts)
            S == Ca!AwaitedBy(n)
<1>1. /\ m \in Nat /\ m >= 1 /\ n \in 1..m /\ m \in 1..MaxActivations
      /\ Root(acts[1]) /\ \A k \in 2..m : acts[k].parent \in 1..(k - 1) /\ Edge(acts[k], acts[acts[k].parent])
  BY TreeTypes DEF GoodTree
<1>2. \A k \in S : k \in 1..m /\ k # 1 /\ k # n /\ acts[k].parent \in S \cup {n}
  BY AwaitedOnes, TreeTypes
<1>. HIDE DEF S
<1>3. Root(g[1])
  BY <1>1, <1>2 DEF Root, Birth, Ended, S
<1>4. ASSUME NEW k \in 2..m PROVE g[k].parent \in 1..(k - 1) /\ Edge(g[k], g[g[k].parent])
  <2>. DEFINE p == acts[k].parent
  <2>1. /\ k \in 1..m /\ p \in 1..(k - 1) /\ p \in 1..m /\ g[k].parent = p /\ Edge(acts[k], acts[p])
        /\ Birth(g[k], acts[k]) /\ Birth(g[p], acts[p]) /\ k # p
        /\ g[k].open = acts[k].open /\ g[p].finals = acts[p].finals
    BY <1>1 DEF Birth
  <2>2. /\ k # n => g[k].pc = IF k \in S /\ acts[k].pc # "done" THEN "cancelled" ELSE acts[k].pc
        /\ p # n => g[p].pc = IF p \in S /\ acts[p].pc # "done" THEN "cancelled" ELSE acts[p].pc
    BY <2>1 DEF S
  <2>3. k \in S => p \in S \/ p = n
    BY <1>2
  <2>4. p = n => g[p].pc \in {"timeout", "cancelled"} /\ acts[p].pc \notin Ended
    OBVIOUS
  <2>5. k = n => g[k].pc \in {"timeout", "cancelled"} /\ acts[k].pc \notin Ended
    OBVIOUS
  <2>. HIDE DEF p
  <2>6. g[k].pc = "done" <=> acts[k].pc = "done"
    BY <2>2, <2>5 DEF Ended
  <2>7. g[k].pc = "linger" => g[p].kind = "tool" /\ g[p].pc # "done"
    <3>1. ASSUME g[k].pc = "linger" PROVE acts[k].pc = "linger" /\ k # n
      BY <2>2, <2>5, <3>1
    <3>2. g[p].pc = "done" => acts[p].pc = "done"
      BY <2>2, <2>4
    <3>. QED BY <2>1, <3>1, <3>2 DEF Edge, Birth
  <2>8. g[p].kind # "external" /\ g[k].pc \notin Ended => g[p].pc \in Waiting
    <3>. SUFFICES ASSUME g[p].kind # "external", g[k].pc \notin Ended, p # n PROVE g[p].pc \in Waiting
      BY <2>4 DEF Waiting
    <3>1. acts[p].kind # "external"
      BY <2>1 DEF Birth
    <3>2. CASE acts[k].pc \notin Ended
      BY <2>1, <2>2, <3>1, <3>2 DEF Edge, Waiting
    <3>3. CASE acts[k].pc \in Ended
      <4>1. acts[k].pc = "linger" /\ k \in S
        BY <2>2, <2>5, <3>3 DEF Ended
      <4>. QED BY <2>1, <2>2, <2>3, <4>1 DEF Edge, Waiting
    <3>. QED BY <3>2, <3>3
  <2>9. Edge(g[k], g[p])
    BY <2>1, <2>6, <2>7, <2>8 DEF Edge, Birth
  <2>. QED BY <2>1, <2>9
<1>. QED BY <1>1, <1>3, <1>4 DEF GoodTree

\* An activation is closed, with the tools' agents that waited for it.
LEMMA TreeCloses ==
  ASSUME GoodTree(acts), NEW n \in Ca!Made, NEW g, g \in Seq(ActRecord), Len(g) = Len(acts),
         \A k \in 1..Len(acts) : GoodAct(g[k]) /\ Birth(g[k], acts[k]) /\ (g[k].open => acts[k].open)
                                 /\ g[k].finals = acts[k].finals /\ g[k].reported = acts[k].reported,
         acts[n].pc \in {"close", "cancelled"}, KidsEnded(acts, n),
         g[n].pc = IF Ca!Lingers(n) THEN "linger" ELSE "done",
         ~Ca!Lingers(n) /\ ~Ca!IsClone(n) => ~g[n].open,
         \A k \in 1..Len(acts) : k # n =>
           /\ g[k].pc = IF acts[k].pc = "linger" /\ acts[k].parent = n THEN "done" ELSE acts[k].pc
           /\ acts[k].parent = n /\ acts[n].kind # "agent" => ~g[k].open
  PROVE  GoodTree(g)
<1>. DEFINE m == Len(acts)
<1>1. /\ m \in Nat /\ m >= 1 /\ n \in 1..m /\ m \in 1..MaxActivations
      /\ Root(acts[1]) /\ \A k \in 2..m : acts[k].parent \in 1..(k - 1) /\ Edge(acts[k], acts[acts[k].parent])
  BY TreeTypes DEF GoodTree
<1>2. Root(g[1])
  <2>1. acts[1].parent = 0 /\ Birth(g[1], acts[1]) /\ g[1].reported = acts[1].reported
        /\ (g[1].open => acts[1].open)
    BY <1>1 DEF Root
  <2>2. CASE n = 1
    <3>1. ~Ca!Lingers(1) /\ ~Ca!IsClone(1)
      BY <2>1 DEF Ca!Lingers, Ca!IsClone
    <3>2. g[1].pc = "done" /\ ~g[1].open
      BY <2>2, <3>1
    <3>. QED BY <1>1, <2>1, <3>2 DEF Root, Birth
  <2>3. CASE n # 1
    <3>1. g[1].pc = acts[1].pc
      BY <1>1, <2>1, <2>3
    <3>. QED BY <1>1, <2>1, <3>1 DEF Root, Birth
  <2>. QED BY <2>2, <2>3
<1>3. ASSUME NEW k \in 2..m PROVE g[k].parent \in 1..(k - 1) /\ Edge(g[k], g[g[k].parent])
  <2>. DEFINE p == acts[k].parent
  <2>1. /\ k \in 1..m /\ p \in 1..(k - 1) /\ p \in 1..m /\ g[k].parent = p /\ Edge(acts[k], acts[p])
        /\ Birth(g[k], acts[k]) /\ Birth(g[p], acts[p]) /\ k # p /\ p # 0
        /\ (g[k].open => acts[k].open) /\ g[p].finals = acts[p].finals
    BY <1>1 DEF Birth
  <2>2. k # n => /\ g[k].pc = IF acts[k].pc = "linger" /\ p = n THEN "done" ELSE acts[k].pc
                 /\ p = n /\ acts[n].kind # "agent" => ~g[k].open
    BY <2>1
  <2>3. p # n => g[p].pc = acts[p].pc \/ (g[p].pc = "done" /\ acts[p].pc = "linger")
    BY <2>1
  <2>4. k = n => /\ Ca!Lingers(n) <=> acts[p].kind = "tool"
                 /\ Ca!IsClone(n) <=> acts[p].kind = "external"
    BY <2>1 DEF Ca!Lingers, Ca!IsClone
  <2>5. p # 1 => Edge(acts[p], acts[acts[p].parent])
    BY <1>1, <2>1
  <2>6. p = 1 => acts[p].pc # "linger"
    BY <1>1 DEF Root
  <2>7. p = n /\ acts[n].kind # "external" => acts[k].pc \in Ended
    BY <2>1 DEF KidsEnded
  <2>8. acts[n].pc \notin Ended /\ (acts[n].finals = 1 => acts[n].kind = "agent")
    BY <1>1 DEF Ended, GoodTree, GoodAct
  <2>9. acts[p].finals = 1 => acts[p].kind = "agent"
    BY <2>1 DEF GoodTree, GoodAct
  <2>. HIDE DEF p
  <2>10. CASE k = n
    <3>1. g[p].pc = acts[p].pc /\ p # n /\ acts[k].pc \notin Ended
      <4>1. acts[p].pc = "linger" => acts[p].kind # "external" /\ acts[k].pc \notin Ended /\ acts[p].pc \in Ended
        BY <2>1, <2>5, <2>6, <2>8, <2>10 DEF Edge, Ended
      <4>2. acts[p].pc # "linger"
        BY <2>1, <4>1 DEF Edge, Ended, Waiting
      <4>. QED BY <2>1, <2>3, <2>8, <2>10, <4>2
    <3>2. acts[p].finals # 1
      BY <2>1, <3>1 DEF Edge, Ended
    <3>3. CASE acts[p].kind = "tool"
      <4>1. g[k].pc = "linger"
        BY <2>4, <2>10, <3>3
      <4>2. acts[p].pc # "done"
        BY <2>1, <3>1, <3>3 DEF Edge, Waiting
      <4>. QED BY <2>1, <3>1, <3>2, <3>3, <4>1, <4>2 DEF Edge, Birth, Ended
    <3>4. CASE acts[p].kind # "tool"
      <4>1. g[k].pc = "done" /\ (acts[p].kind # "external" => ~g[k].open)
        BY <2>4, <2>10, <3>4
      <4>. QED BY <2>1, <3>2, <4>1 DEF Edge, Birth, Ended
    <3>. QED BY <3>3, <3>4
  <2>11. CASE k # n /\ p = n
    <3>1. acts[n].finals = 1 => acts[n].kind = "agent" /\ acts[k].pc = "done"
      BY <2>1, <2>8, <2>11 DEF Edge
    <3>2. acts[k].pc = "linger" => acts[n].kind = "tool"
      BY <2>1, <2>11 DEF Edge
    <3>3. acts[n].kind # "external" => g[k].pc = "done" /\ ~g[k].open
      <4>1. ASSUME acts[n].kind # "external" PROVE g[k].pc = "done"
        BY <2>2, <2>7, <2>11, <4>1 DEF Ended
      <4>2. ASSUME acts[n].kind = "agent" PROVE acts[k].pc = "done"
        BY <2>7, <2>11, <3>2, <4>2 DEF Ended
      <4>3. ASSUME acts[n].kind = "agent" PROVE ~g[k].open
        BY <2>1, <2>11, <4>2, <4>3 DEF Edge
      <4>. QED BY <2>2, <2>11, <4>1, <4>3
    <3>4. acts[n].kind = "external" => g[k].pc # "linger"
      BY <2>2, <2>11, <3>2
    <3>5. acts[p].finals = 1 => g[k].pc = "done"
      BY <2>2, <2>11, <3>1
    <3>6. g[k].pc # "linger"
      BY <3>3, <3>4
    <3>7. g[p].kind = acts[p].kind /\ g[p].cloned = acts[p].cloned /\ g[p].finals = acts[p].finals
          /\ g[k].kind = acts[k].kind /\ g[k].cloned = acts[k].cloned
      BY <2>1 DEF Birth
    <3>8. acts[p].kind # "external" => g[k].pc = "done" /\ ~g[k].open
      BY <2>11, <3>3
    <3>9. (acts[k].cloned <=> acts[p].cloned \/ acts[p].kind = "external")
          /\ (acts[k].kind # "agent" => acts[p].kind = "agent")
      BY <2>1 DEF Edge
    <3>10. Edge(g[k], g[p])
      BY <3>5, <3>6, <3>7, <3>8, <3>9 DEF Edge, Ended
    <3>. QED BY <2>1, <3>10
  <2>12. CASE k # n /\ p # n
    <3>1. g[k].pc = acts[k].pc
      BY <2>2, <2>12
    <3>2. CASE g[p].pc = acts[p].pc
      BY <2>1, <3>1, <3>2 DEF Edge, Birth
    <3>3. CASE g[p].pc = "done" /\ acts[p].pc = "linger"
      <4>1. acts[p].kind # "tool" /\ acts[p].pc \notin Waiting
        BY <2>5, <2>6, <3>3 DEF Edge, Waiting
      <4>2. acts[k].pc # "linger" /\ (acts[p].kind # "external" => acts[k].pc \in Ended)
        BY <2>1, <4>1 DEF Edge
      <4>. QED BY <2>1, <3>1, <4>2 DEF Edge, Birth
    <3>. QED BY <2>3, <2>12, <3>2, <3>3
  <2>. QED BY <2>10, <2>11, <2>12
<1>. QED BY <1>1, <1>2, <1>3 DEF GoodTree

\* When the front man is not waiting, no one runs but clones.
LEMMA Quiet ==
  ASSUME NEW f, GoodTree(f), f[1].pc \notin Waiting, NEW n \in 2..Len(f), ~f[n].cloned
  PROVE  f[n].pc \in Ended
<1>. DEFINE m == Len(f)
            Good == {k \in 0..m : k > 1 /\ ~f[k].cloned => f[k].pc \in Ended}
            Bad == {k \in 2..m : ~f[k].cloned /\ f[k].pc \notin Ended}
<1>. SUFFICES ASSUME Bad # {} PROVE FALSE
  OBVIOUS
<1>1. Bad \subseteq Nat
  OBVIOUS
<1>2. PICK k \in Bad : \A j \in Bad : k <= j
  <2>. HIDE DEF Bad
  <2>. QED BY <1>1, LeastNatural
<1>3. k \in 2..m /\ ~f[k].cloned /\ f[k].pc \notin Ended
  OBVIOUS
<1>4. f[k].parent \in 1..(k - 1) /\ Edge(f[k], f[f[k].parent]) /\ m \in Nat
  BY <1>3 DEF GoodTree
<1>5. f[f[k].parent].pc \in Waiting /\ ~f[f[k].parent].cloned
  BY <1>3, <1>4 DEF Edge
<1>6. f[k].parent # 1 /\ f[k].parent \in 2..m /\ ~(k <= f[k].parent)
  BY <1>3, <1>4, <1>5
<1>. QED BY <1>2, <1>5, <1>6 DEF Waiting, Ended

\* When the front man is done, so are all the others, but clones, and they are closed.
LEMMA AllAreClosed ==
  ASSUME NEW f, GoodTree(f), f[1].pc = "done", NEW n \in 1..Len(f), ~f[n].cloned
  PROVE  f[n].pc = "done" /\ ~f[n].open
<1>1. CASE n = 1
  BY <1>1 DEF GoodTree, Root
<1>2. CASE n # 1
  <2>. DEFINE p == f[n].parent
  <2>1. n \in 2..Len(f) /\ p \in 1..(n - 1) /\ p \in 1..Len(f) /\ Edge(f[n], f[p]) /\ Root(f[1])
        /\ (p # 1 => p \in 2..Len(f))
    BY <1>2 DEF GoodTree
  <2>2. p # 1 => Edge(f[p], f[f[p].parent])
    BY <2>1 DEF GoodTree
  <2>. HIDE DEF p
  <2>3. f[n].pc \in Ended /\ ~f[p].cloned /\ f[p].kind # "external"
    BY <2>1, Quiet DEF Edge, Waiting
  <2>4. p # 1 => f[p].pc \in Ended
    BY <2>1, <2>3, Quiet DEF Waiting
  <2>5. f[n].pc # "linger"
    <3>. SUFFICES ASSUME f[n].pc = "linger" PROVE FALSE
      OBVIOUS
    <3>1. f[p].kind = "tool" /\ f[p].pc # "done" /\ p # 1
      BY <2>1 DEF Edge, Root
    <3>2. f[p].pc = "linger"
      BY <2>4, <3>1 DEF Ended
    <3>. QED BY <2>2, <3>1, <3>2 DEF Edge
  <2>. QED BY <2>1, <2>3, <2>5 DEF Edge, Ended
<1>. QED BY <1>1, <1>2
-----------------------------------------------------------------------------
(* The accounting of the calls, and the steps of the agents *)

\* An LLM call, or none, is added to what an agent has to account for.
LEMMA AccountsKept ==
  ASSUME GoodTree(acts), AccountInv, GoodTree(acts'), NEW n \in Ca!Made, NEW d \in Nat,
         Len(acts') >= Len(acts), d # 0 => ~acts[n].reported,
         \A k \in 1..Len(acts) : /\ acts'[k].own = IF k = n THEN acts[k].own + d ELSE acts[k].own
                                 /\ acts'[k].reported = acts[k].reported /\ acts'[k].cloned = acts[k].cloned,
         \A k \in (Len(acts) + 1)..Len(acts') : acts'[k].own = 0,
         acts'[1].heard = acts[1].heard + d, llmCalls' = llmCalls + d, rounds' \in 0..MaxRounds,
         UNCHANGED <<accounting, told>>
  PROVE  AccountInv'
<1>. DEFINE m == Len(acts)
            j == Len(acts')
            w == MainWeights(acts)
            v == MainWeights(acts')
            x == RestWeights(acts)
            y == RestWeights(acts')
<1>1. /\ m \in Nat /\ j \in Nat /\ m <= j /\ m >= 1 /\ n \in 1..m
      /\ \A k \in 1..m : acts[k].own \in Nat /\ k \in 1..j
      /\ \A k \in (m + 1)..j : k \in 1..j
  <2>1. m \in Nat /\ m >= 1 /\ n \in 1..m
    BY TreeTypes
  <2>2. j \in Nat /\ m <= j
    BY DEF GoodTree
  <2>3. \A k \in 1..m : acts[k].own \in Nat
    BY DEF GoodTree, GoodAct, ActRecord
  <2>. QED BY <2>1, <2>2, <2>3
<1>2. /\ \A k \in 1..m : v[k] = w[k] /\ w[k] \in Int
      /\ \A k \in (m + 1)..j : v[k] = 0
  <2>1. ASSUME NEW k \in 1..m PROVE v[k] = w[k] /\ w[k] \in Int
    <3>1. w[k] = IF acts[k].reported /\ ~acts[k].cloned THEN acts[k].own ELSE 0
      BY DEF MainWeights
    <3>2. v[k] = IF acts'[k].reported /\ ~acts'[k].cloned THEN acts'[k].own ELSE 0
      BY <1>1 DEF MainWeights
    <3>3. CASE k = n /\ d # 0
      BY <1>1, <3>1, <3>2, <3>3
    <3>4. CASE k # n \/ d = 0
      <4>1. acts'[k].own = acts[k].own
        BY <1>1, <3>4
      <4>. QED BY <1>1, <3>1, <3>2, <4>1
    <3>. QED BY <3>3, <3>4
  <2>2. ASSUME NEW k \in (m + 1)..j PROVE v[k] = 0
    BY <1>1 DEF MainWeights
  <2>. QED BY <2>1, <2>2
<1>3. /\ \A k \in 1..m : x[k] \in Int /\ (k # n => y[k] = x[k])
      /\ y[n] = x[n] + d
      /\ \A k \in (m + 1)..j : y[k] = 0
  <2>1. ASSUME NEW k \in 1..m PROVE x[k] \in Int /\ (k # n => y[k] = x[k]) /\ (k = n => y[k] = x[k] + d)
    <3>1. x[k] = IF acts[k].reported THEN 0 ELSE acts[k].own
      BY DEF RestWeights
    <3>2. y[k] = IF acts'[k].reported THEN 0 ELSE acts'[k].own
      BY <1>1 DEF RestWeights
    <3>. QED BY <1>1, <3>1, <3>2
  <2>2. ASSUME NEW k \in (m + 1)..j PROVE y[k] = 0
    BY <1>1 DEF RestWeights
  <2>. QED BY <1>1, <2>1, <2>2
<1>4. HasSum(w, m, accounting.main) /\ HasSum(x, m, llmCalls - accounting.total)
      /\ accounting \in [main : Int, total : Int, time : 0..m] /\ llmCalls \in Nat
  BY DEF AccountInv
<1>. HIDE DEF w, v, x, y, m, j
<1>5. HasSum(v, j, accounting.main)
  <2>1. HasSum(v, m, accounting.main)
    BY <1>1, <1>2, <1>4, SumOfTheSame
  <2>. QED BY <1>1, <1>2, <2>1, SumOfNothingMore
<1>6. HasSum(y, j, llmCalls' - accounting.total)
  <2>. HIDE DEF HasSum
  <2>1. HasSum(y, m, (llmCalls - accounting.total) + d)
    <3>1. HasSum(x, m, llmCalls - accounting.total) /\ d \in Int
      BY <1>4
    <3>2. m \in Nat /\ n \in 1..m /\ y[n] = x[n] + d /\ \A k \in 1..m : x[k] \in Int /\ (k # n => y[k] = x[k])
      BY <1>1, <1>3
    <3>. QED BY <3>1, <3>2, SumOfMore
  <2>2. (llmCalls - accounting.total) + d = llmCalls' - accounting.total
    BY <1>4
  <2>3. HasSum(y, m, llmCalls' - accounting.total)
    BY <2>1, <2>2
  <2>. QED BY <1>1, <1>3, <2>3, SumOfNothingMore
<1>7. accounting' \in [main : Int, total : Int, time : 0..j] /\ llmCalls' \in Nat
  BY <1>1, <1>4
<1>8. acts'[1].heard = llmCalls' /\ (acts'[1].reported => accounting'.time = 1)
  BY <1>1 DEF AccountInv, m
<1>9. (Ca!EveryCallCountedOnce)'
  BY DEF AccountInv, Ca!EveryCallCountedOnce
<1>. QED BY <1>5, <1>6, <1>7, <1>8, <1>9 DEF AccountInv, v, y, j

\* What is made for each activation is a sequence of activations.
LEMMA SeqOfAll == ASSUME NEW S, NEW m \in Nat, NEW f \in [1..m -> S] PROVE f \in Seq(S) /\ Len(f) = m
OBVIOUS

Alike(b, a) == Birth(b, a) /\ b.own = a.own /\ b.heard = a.heard /\ b.reported = a.reported /\ b.open = a.open

\* One activation goes on, without a call.
LEMMA OneMoves ==
  ASSUME CallsInv, NEW n \in Ca!Made, NEW a, acts' = [acts EXCEPT ![n] = a], GoodAct(a), Alike(a, acts[n]),
         acts[n].pc \notin Ended, a.pc \notin Ended, n = 1 /\ a.reported => a.pc = "close",
         a.pc \notin Waiting => KidsEnded(acts, n), a.finals = 1 => KidsEnded(acts, n),
         UNCHANGED <<accounting, told, llmCalls, rounds>>
  PROVE  CallsInv'
<1>1. /\ n \in 1..Len(acts) /\ acts \in Seq(ActRecord) /\ a \in ActRecord /\ Len(acts) \in Nat
      /\ \A k \in 1..Len(acts) : GoodAct(acts[k]) /\ acts[k].own \in Nat
      /\ 1 \in 1..Len(acts)
  BY TreeTypes DEF CallsInv, GoodTree, GoodAct, ActRecord
<1>2. acts' \in Seq(ActRecord) /\ Len(acts') = Len(acts)
  BY <1>1
<1>3. \A k \in 1..Len(acts) : acts'[k] = IF k = n THEN a ELSE acts[k]
  BY <1>1
<1>4. Len(acts') \in Len(acts)..MaxActivations /\ Len(acts) <= MaxActivations
  BY <1>2, AgentTypes DEF CallsInv, GoodTree
<1>5. \A k \in 1..Len(acts) : Birth(acts'[k], acts[k]) /\ (k # n => Still(acts'[k], acts[k]))
  BY <1>3 DEF Alike, Birth, Still
<1>6. \A k \in 1..Len(acts') : GoodAct(acts'[k])
  BY <1>1, <1>2, <1>3
<1>7. acts'[n].pc = a.pc /\ acts'[n].open = a.open /\ acts'[n].reported = a.reported /\ acts'[n].finals = a.finals
  BY <1>1, <1>3
<1>8. GoodTree(acts')
  <2>1. \A k \in (Len(acts) + 1)..Len(acts') : FALSE
    BY <1>1, <1>2
  <2>2. acts'[n].open = acts[n].open
    BY <1>7 DEF Alike
  <2>. QED BY <1>2, <1>4, <1>5, <1>6, <1>7, <2>1, <2>2, TreeMoves DEF CallsInv
<1>9. \A k \in 1..Len(acts) : /\ acts'[k].own = IF k = n THEN acts[k].own + 0 ELSE acts[k].own
                              /\ acts'[k].reported = acts[k].reported /\ acts'[k].cloned = acts[k].cloned
                              /\ acts'[k].heard = acts[k].heard
  BY <1>1, <1>3 DEF Alike, Birth
<1>10. \A k \in (Len(acts) + 1)..Len(acts') : acts'[k].own = 0
  BY <1>1, <1>2
<1>11. AccountInv /\ llmCalls \in Nat /\ acts[1].heard \in Nat /\ rounds \in 0..MaxRounds
  BY DEF CallsInv, AccountInv
<1>12. acts'[1].heard = acts[1].heard + 0 /\ llmCalls' = llmCalls + 0 /\ rounds' \in 0..MaxRounds
  BY <1>1, <1>9, <1>11
<1>13. AccountInv'
  BY <1>1, <1>2, <1>8, <1>9, <1>10, <1>11, <1>12, AccountsKept DEF CallsInv
<1>. QED BY <1>8, <1>13 DEF CallsInv

\* An activation goes to another place.
LEMMA PlaceMoves ==
  ASSUME CallsInv, NEW n \in Ca!Made, acts[n].pc \in {"new", "tools", "stream"},
         NEW pc \in {"chain", "tools", "stream", "close"}, acts[n].pc = "stream" => pc = "close",
         acts' = [acts EXCEPT ![n].pc = pc], pc \in Waiting \/ KidsEnded(acts, n),
         UNCHANGED <<accounting, told, llmCalls, rounds>>
  PROVE  CallsInv'
<1>. DEFINE a == [acts[n] EXCEPT !.pc = pc]
<1>1. n \in 1..Len(acts) /\ GoodAct(acts[n])
  BY TreeTypes DEF CallsInv, GoodTree
<1>2. acts[n].finals = 0 /\ ~acts[n].reported
  BY <1>1 DEF GoodAct, ActRecord
<1>3. /\ a \in ActRecord /\ a.pc = pc /\ Alike(a, acts[n]) /\ a.finals = acts[n].finals
      /\ a.attempts = acts[n].attempts /\ a.failed = acts[n].failed
  BY <1>1 DEF GoodAct, ActRecord, Alike, Birth
<1>4. acts' = [acts EXCEPT ![n] = a]
  OBVIOUS
<1>. HIDE DEF a
<1>5. GoodAct(a)
  BY <1>1, <1>2, <1>3 DEF GoodAct, Alike, Birth
<1>6. a.pc \notin Ended /\ acts[n].pc \notin Ended
  BY <1>3 DEF Ended
<1>7. ~a.reported /\ a.finals # 1 /\ (a.pc \notin Waiting => KidsEnded(acts, n))
  BY <1>2, <1>3 DEF Alike
<1>. QED BY <1>3, <1>4, <1>5, <1>6, <1>7, OneMoves

\* Who has not said the last word has not reported.
LEMMA Unsaid ==
  ASSUME NEW a, GoodAct(a), a.pc \in {"new", "chain", "tools", "stream", "final", "timeout"}
  PROVE  a.finals = 0 /\ ~a.reported
<1>1. a.finals \in 0..1 /\ a.finals # 1
  BY DEF GoodAct, ActRecord
<1>2. a.finals = 0
  BY <1>1
<1>. QED BY <1>2 DEF GoodAct

LEMMA ActFacts ==
  ASSUME GoodTree(acts)
  PROVE  /\ acts \in Seq(ActRecord) /\ Len(acts) \in Nat /\ Len(acts) <= MaxActivations /\ 1 \in 1..Len(acts)
         /\ Ca!Made = 1..Len(acts)
         /\ \A k \in 1..Len(acts) : GoodAct(acts[k]) /\ acts[k].own \in Nat /\ acts[k].heard \in Nat
<1>1. MaxActivations \in Nat
  BY AgentTypes
<1>2. acts \in Seq(ActRecord) /\ Len(acts) \in 1..MaxActivations /\ \A k \in 1..Len(acts) : GoodAct(acts[k])
  BY DEF GoodTree
<1>3. \A k \in 1..Len(acts) : acts[k].own \in Nat /\ acts[k].heard \in Nat
  BY <1>2 DEF GoodAct, ActRecord
<1>. QED BY <1>1, <1>2, <1>3, TreeTypes

\* The steps of one activation that is not called and does not call.
LEMMA LonelySteps ==
  ASSUME CallsInv, NEW n \in Ca!Made,
         \/ Ca!CreateResources(n) \/ Ca!TakeOutputs(n) \/ Ca!ToolReturns(n) \/ Ca!StreamEnds(n)
         \/ Ca!LlmFails(n) \/ Ca!LlmGivesUp(n) \/ Ca!WriteAnswer(n) \/ Ca!WriteTimeout(n)
  PROVE  CallsInv'
<1>1. n \in 1..Len(acts) /\ GoodTree(acts) /\ GoodAct(acts[n])
  BY TreeTypes DEF CallsInv, GoodTree
<1>2. acts[n].pc \notin Waiting => KidsEnded(acts, n)
  BY <1>1, IdleKidsEnded
<1>3. Ca!KidsDone(n) => KidsEnded(acts, n)
  BY <1>1, KidsDoneMeans
<1>4. CASE Ca!CreateResources(n)
  <2>1. PICK pc \in {"chain", "close"} : acts' = [acts EXCEPT ![n].pc = pc]
    BY <1>4 DEF Ca!CreateResources, Ca!Acts
  <2>2. acts[n].pc = "new" /\ UNCHANGED <<accounting, told, llmCalls, rounds>>
    BY <1>4 DEF Ca!CreateResources, Ca!Acts, Ca!At
  <2>. QED BY <1>2, <2>1, <2>2, PlaceMoves DEF Waiting
<1>5. CASE Ca!TakeOutputs(n)
  <2>1. acts[n].pc = "tools" /\ acts' = [acts EXCEPT ![n].pc = "chain"] /\ Ca!KidsDone(n)
        /\ UNCHANGED <<accounting, told, llmCalls, rounds>>
    BY <1>5 DEF Ca!TakeOutputs, Ca!Acts, Ca!At
  <2>. QED BY <1>3, <2>1, PlaceMoves
<1>6. CASE Ca!ToolReturns(n)
  <2>1. acts[n].pc = "tools" /\ acts' = [acts EXCEPT ![n].pc = "close"] /\ Ca!KidsDone(n)
        /\ UNCHANGED <<accounting, told, llmCalls, rounds>>
    BY <1>6 DEF Ca!ToolReturns, Ca!Acts, Ca!At
  <2>. QED BY <1>3, <2>1, PlaceMoves
<1>7. CASE Ca!StreamEnds(n)
  <2>1. acts[n].pc = "stream" /\ acts' = [acts EXCEPT ![n].pc = "close"]
        /\ UNCHANGED <<accounting, told, llmCalls, rounds>>
    BY <1>7 DEF Ca!StreamEnds, Ca!Acts, Ca!At
  <2>. QED BY <1>2, <2>1, PlaceMoves DEF Waiting
<1>8. CASE Ca!LlmFails(n)
  <2>. DEFINE a == Ca!Retried(acts[n])
  <2>1. acts[n].pc = "chain" /\ acts' = [acts EXCEPT ![n] = a] /\ UNCHANGED <<accounting, told, llmCalls, rounds>>
    BY <1>8 DEF Ca!LlmFails, Ca!Acts, Ca!At
  <2>2. /\ acts[n].attempts > 0 /\ acts[n].failed + acts[n].attempts = AgentAttempts
        /\ acts[n].finals = 0 /\ ~acts[n].reported /\ acts[n].attempts \in Nat /\ acts[n].failed \in Nat
    <3>1. acts[n].attempts \in 0..AgentAttempts /\ acts[n].failed \in 0..AgentAttempts
      BY <1>1 DEF GoodAct, ActRecord
    <3>. QED BY <1>1, <2>1, <3>1, AgentTypes, Unsaid DEF GoodAct
  <2>. DEFINE attempts == acts[n].attempts - 1
              failed == acts[n].failed + 1
              pc == IF acts[n].attempts = 1 THEN "final" ELSE "chain"
  <2>3. a = [acts[n] EXCEPT !.attempts = attempts, !.failed = failed, !.pc = pc]
    BY DEF Ca!Retried
  <2>4. /\ attempts \in 0..AgentAttempts /\ failed \in 0..AgentAttempts /\ pc \in {"final", "chain"}
        /\ failed + attempts = AgentAttempts /\ (pc = "chain" => attempts > 0)
    BY <2>2, AgentTypes
  <2>. HIDE DEF a, attempts, failed, pc
  <2>5. /\ a \in ActRecord /\ a.pc = pc /\ Alike(a, acts[n]) /\ a.finals = acts[n].finals
        /\ a.attempts = attempts /\ a.failed = failed
    BY <1>1, <2>3, <2>4 DEF GoodAct, ActRecord, Alike, Birth
  <2>6. GoodAct(a)
    BY <1>1, <2>2, <2>4, <2>5 DEF GoodAct, Alike, Birth
  <2>7. a.pc \notin Ended /\ acts[n].pc \notin Ended /\ ~a.reported /\ a.finals # 1 /\ KidsEnded(acts, n)
    BY <1>2, <2>1, <2>2, <2>4, <2>5 DEF Ended, Waiting, Alike
  <2>. QED BY <2>1, <2>5, <2>6, <2>7, OneMoves
<1>9. CASE Ca!LlmGivesUp(n)
  <2>. DEFINE failed == acts[n].failed + 1
              a == [acts[n] EXCEPT !.pc = "final", !.failed = failed]
  <2>1. acts[n].pc = "chain" /\ UNCHANGED <<accounting, told, llmCalls, rounds>>
        /\ acts' = [acts EXCEPT ![n].pc = "final", ![n].failed = @ + 1]
    BY <1>9 DEF Ca!LlmGivesUp, Ca!Acts, Ca!At
  <2>2. acts' = [acts EXCEPT ![n] = a]
    BY <1>1, <2>1 DEF GoodTree
  <2>3. /\ acts[n].finals = 0 /\ ~acts[n].reported /\ failed \in 0..AgentAttempts
    <3>1. acts[n].attempts \in 0..AgentAttempts /\ acts[n].failed \in 0..AgentAttempts
      BY <1>1 DEF GoodAct, ActRecord
    <3>. QED BY <1>1, <2>1, <3>1, AgentTypes, Unsaid DEF GoodAct
  <2>. HIDE DEF failed
  <2>4. /\ a \in ActRecord /\ a.pc = "final" /\ Alike(a, acts[n]) /\ a.finals = acts[n].finals
    BY <1>1, <2>3 DEF GoodAct, ActRecord, Alike, Birth
  <2>. HIDE DEF a
  <2>5. GoodAct(a)
    BY <1>1, <2>3, <2>4 DEF GoodAct, Alike, Birth
  <2>6. a.pc \notin Ended /\ acts[n].pc \notin Ended /\ ~a.reported /\ a.finals # 1 /\ KidsEnded(acts, n)
    BY <1>2, <2>1, <2>3, <2>4 DEF Ended, Waiting, Alike
  <2>. QED BY <2>1, <2>2, <2>4, <2>5, <2>6, OneMoves
<1>10. CASE Ca!WriteAnswer(n) \/ Ca!WriteTimeout(n)
  <2>. DEFINE finals == acts[n].finals + 1
              a == [acts[n] EXCEPT !.pc = "report", !.finals = finals]
  <2>1. acts[n].kind = "agent" /\ acts[n].pc \in {"final", "timeout"} /\ UNCHANGED <<accounting, told, llmCalls, rounds>>
        /\ acts' = [acts EXCEPT ![n].pc = "report", ![n].finals = @ + 1]
    BY <1>10 DEF Ca!WriteAnswer, Ca!WriteTimeout, Ca!Acts, Ca!At
  <2>2. acts' = [acts EXCEPT ![n] = a]
    BY <1>1, <2>1 DEF GoodTree
  <2>3. acts[n].finals = 0 /\ ~acts[n].reported
    BY <1>1, <2>1, Unsaid
  <2>4. finals = 1 /\ finals \in 0..1
    BY <2>3
  <2>. HIDE DEF finals
  <2>5. /\ a \in ActRecord /\ a.pc = "report" /\ Alike(a, acts[n]) /\ a.finals = 1
    BY <1>1, <2>4 DEF GoodAct, ActRecord, Alike, Birth
  <2>. HIDE DEF a
  <2>6. GoodAct(a)
    BY <1>1, <2>1, <2>3, <2>5 DEF GoodAct, Alike, Birth
  <2>7. KidsEnded(acts, n)
    <3>1. CASE Ca!WriteAnswer(n)
      BY <1>2, <3>1 DEF Ca!WriteAnswer, Ca!At, Waiting
    <3>2. CASE Ca!WriteTimeout(n)
      BY <1>3, <3>2 DEF Ca!WriteTimeout
    <3>. QED BY <1>10, <3>1, <3>2
  <2>8. a.pc \notin Ended /\ acts[n].pc \notin Ended /\ ~a.reported
    BY <2>1, <2>3, <2>5 DEF Ended, Alike
  <2>. QED BY <2>1, <2>2, <2>5, <2>6, <2>7, <2>8, OneMoves
<1>. QED BY <1>4, <1>5, <1>6, <1>7, <1>8, <1>9, <1>10

\* A new activation.
LEMMA NewOnes ==
  ASSUME NEW shape \in {"agent", "tool", "external"}, NEW parent \in Nat, NEW cloned \in BOOLEAN,
         NEW a, a = Ca!Activation(shape, parent, cloned)
  PROVE  /\ a \in ActRecord /\ GoodAct(a) /\ a.kind = shape /\ a.parent = parent /\ a.cloned = cloned
         /\ a.pc = "new" /\ a.own = 0 /\ a.heard = 0 /\ ~a.reported /\ a.finals = 0
<1>1. AgentAttempts \in Nat \ {0}
  BY AgentTypes
<1>2. a \in ActRecord
  BY <1>1 DEF ActRecord, Ca!Activation
<1>3. a.attempts = AgentAttempts /\ a.failed = 0
  BY DEF Ca!Activation
<1>4. /\ a.kind = shape /\ a.parent = parent /\ a.cloned = cloned
      /\ a.pc = "new" /\ a.own = 0 /\ a.heard = 0 /\ ~a.reported /\ a.finals = 0
  BY DEF Ca!Activation
<1>. QED BY <1>1, <1>2, <1>3, <1>4 DEF GoodAct

\* A tool uses an agent, or an external agent is set going on this server.
LEMMA OneIsCalled ==
  ASSUME CallsInv, NEW n \in Ca!Made, acts[n].pc = "new", NEW pc \in {"tools", "stream"}, NEW cloned \in BOOLEAN,
         pc = "stream" => acts[n].kind = "external", cloned <=> acts[n].cloned \/ acts[n].kind = "external",
         Len(acts) < MaxActivations,
         acts' = Append([acts EXCEPT ![n].pc = pc], Ca!Activation("agent", n, cloned)),
         UNCHANGED <<accounting, told, llmCalls, rounds>>
  PROVE  CallsInv'
<1>. DEFINE m == Len(acts)
            a == [acts[n] EXCEPT !.pc = pc]
            b == Ca!Activation("agent", n, cloned)
<1>1. /\ n \in 1..m /\ acts \in Seq(ActRecord) /\ m \in Nat /\ 1 \in 1..m /\ GoodTree(acts) /\ m + 1 <= MaxActivations
      /\ \A k \in 1..m : GoodAct(acts[k]) /\ acts[k].own \in Nat
  <2>1. GoodTree(acts) /\ Len(acts) < MaxActivations /\ MaxActivations \in Nat
    BY AgentTypes DEF CallsInv
  <2>. QED BY <2>1, ActFacts
<1>2. acts[n].finals = 0 /\ ~acts[n].reported
  BY <1>1, Unsaid
<1>3. /\ a \in ActRecord /\ a.pc = pc /\ Alike(a, acts[n]) /\ a.finals = acts[n].finals
      /\ a.attempts = acts[n].attempts /\ a.failed = acts[n].failed
  BY <1>1 DEF GoodAct, ActRecord, Alike, Birth
<1>4. acts' = Append([acts EXCEPT ![n] = a], b)
  OBVIOUS
<1>5. /\ b \in ActRecord /\ GoodAct(b) /\ b.kind = "agent" /\ b.parent = n /\ b.cloned = cloned
      /\ b.pc = "new" /\ b.own = 0
  BY <1>1, NewOnes
<1>. HIDE DEF a, b
<1>6. GoodAct(a)
  BY <1>1, <1>2, <1>3 DEF GoodAct, Alike, Birth
<1>7. /\ acts' \in Seq(ActRecord) /\ Len(acts') = m + 1 /\ acts'[m + 1] = b
      /\ \A k \in 1..m : acts'[k] = IF k = n THEN a ELSE acts[k]
  BY <1>1, <1>3, <1>4, <1>5
<1>8. /\ \A k \in 1..(m + 1) : GoodAct(acts'[k])
      /\ \A k \in 1..m : Birth(acts'[k], acts[k]) /\ (k # n => Still(acts'[k], acts[k]))
  BY <1>1, <1>3, <1>5, <1>6, <1>7 DEF Alike, Birth, Still
<1>9. GoodTree(acts')
  <2>1. Len(acts') \in m..MaxActivations /\ \A k \in (m + 1)..Len(acts') : acts'[k] = b
    BY <1>1, <1>7, AgentTypes
  <2>2. acts'[n].pc = pc /\ acts'[n].open = acts[n].open /\ acts'[n].finals = 0 /\ ~acts'[n].reported
    BY <1>1, <1>2, <1>3, <1>7 DEF Alike
  <2>3. KidsEnded(acts, n) /\ acts[n].pc \notin Ended /\ acts'[n].pc \notin Ended
    BY <1>1, <2>2, IdleKidsEnded DEF Waiting, Ended
  <2>4. acts'[n].pc \in Waiting \/ acts[n].kind = "external"
    BY <2>2 DEF Waiting
  <2>5. \A k \in (Len(acts) + 1)..Len(acts') :
           /\ acts'[k].parent = n /\ acts'[k].pc = "new" /\ acts'[n].finals = 0
           /\ acts'[k].cloned <=> acts[n].cloned \/ acts[n].kind = "external"
           /\ acts'[k].kind # "agent" => acts[n].kind = "agent"
           /\ acts'[n].pc \in Waiting \/ acts[n].kind = "external"
    BY <1>5, <2>1, <2>2, <2>4
  <2>6. \A k \in 1..Len(acts') : GoodAct(acts'[k])
    BY <1>7, <1>8
  <2>7. acts' \in Seq(ActRecord) /\ Len(acts') \in Len(acts)..MaxActivations
    BY <1>7, <2>1
  <2>8. \A k \in 1..Len(acts) : Birth(acts'[k], acts[k]) /\ (k # n => Still(acts'[k], acts[k]))
    BY <1>8
  <2>9. n = 1 /\ acts'[n].reported => acts'[n].pc = "close"
    BY <2>2
  <2>10. acts'[n].finals = 1 => KidsEnded(acts, n)
    BY <2>3
  <2>11. acts'[n].open = acts[n].open
    BY <2>2
  <2>. QED BY <1>1, <2>3, <2>5, <2>6, <2>7, <2>8, <2>9, <2>10, <2>11, TreeMoves
<1>10. /\ Len(acts') >= m
       /\ \A k \in 1..m : /\ acts'[k].own = IF k = n THEN acts[k].own + 0 ELSE acts[k].own
                          /\ acts'[k].reported = acts[k].reported /\ acts'[k].cloned = acts[k].cloned
                          /\ acts'[k].heard = acts[k].heard
       /\ \A k \in (m + 1)..Len(acts') : acts'[k].own = 0
  BY <1>1, <1>3, <1>5, <1>7 DEF Alike, Birth
<1>11. AccountInv /\ llmCalls \in Nat /\ acts[1].heard \in Nat /\ rounds \in 0..MaxRounds
  BY DEF CallsInv, AccountInv
<1>12. acts'[1].heard = acts[1].heard + 0 /\ llmCalls' = llmCalls + 0 /\ rounds' \in 0..MaxRounds
  BY <1>1, <1>10, <1>11
<1>13. AccountInv'
  BY <1>1, <1>9, <1>10, <1>11, <1>12, AccountsKept
<1>. QED BY <1>9, <1>13 DEF CallsInv

LEMMA CallingSteps ==
  ASSUME CallsInv, NEW n \in Ca!Made, Ca!Invoke(n) \/ Ca!StreamingChat(n)
  PROVE  CallsInv'
<1>1. n \in 1..Len(acts) /\ GoodTree(acts) /\ acts[n].cloned \in BOOLEAN /\ acts[n].pc = "new"
  BY TreeTypes DEF CallsInv, GoodTree, GoodAct, ActRecord, Ca!Invoke, Ca!StreamingChat, Ca!At
<1>2. KidsEnded(acts, n)
  BY <1>1, IdleKidsEnded DEF Waiting
<1>3. CASE Ca!Invoke(n)
  <2>1. acts[n].kind = "tool" /\ UNCHANGED <<accounting, told, llmCalls, rounds>>
    BY <1>3 DEF Ca!Invoke, Ca!At, Ca!Acts
  <2>2. CASE acts' = [acts EXCEPT ![n].pc = "close"]
    BY <1>1, <1>2, <2>1, <2>2, PlaceMoves
  <2>3. CASE /\ Len(acts) < MaxActivations
             /\ acts' = Append([acts EXCEPT ![n].pc = "tools"], Ca!Activation("agent", n, acts[n].cloned))
    BY <1>1, <2>1, <2>3, OneIsCalled
  <2>. QED BY <1>3, <2>2, <2>3 DEF Ca!Invoke, Ca!Acts
<1>4. CASE Ca!StreamingChat(n)
  <2>1. acts[n].kind = "external" /\ UNCHANGED <<accounting, told, llmCalls, rounds>>
    BY <1>4 DEF Ca!StreamingChat, Ca!At, Ca!Acts
  <2>2. CASE acts' = [acts EXCEPT ![n].pc = "stream"]
    BY <1>1, <1>2, <2>1, <2>2, PlaceMoves
  <2>3. CASE /\ Len(acts) < MaxActivations
             /\ acts' = Append([acts EXCEPT ![n].pc = "stream"], Ca!Activation("agent", n, TRUE))
    BY <1>1, <2>1, <2>3, OneIsCalled
  <2>. QED BY <1>4, <2>2, <2>3 DEF Ca!StreamingChat, Ca!Acts
<1>. QED BY <1>3, <1>4

\* What an agent's call of its LLM makes of the activations.
Called(n, pc) == [Ca!Counted(n) EXCEPT ![n].pc = pc]

\* An LLM call is heard of along the chain, and is the agent's own.
LEMMA CallIsHeard ==
  ASSUME CallsInv, NEW n \in Ca!Made, acts[n].kind = "agent", acts[n].pc = "chain", NEW pc \in {"final", "tools"},
         NEW f, f = Called(n, pc)
  PROVE  /\ f \in Seq(ActRecord) /\ Len(f) = Len(acts)
         /\ \A k \in 1..Len(acts) :
              /\ GoodAct(f[k]) /\ Birth(f[k], acts[k]) /\ f[k].open = acts[k].open /\ (k # n => Still(f[k], acts[k]))
              /\ f[k].own = IF k = n THEN acts[k].own + 1 ELSE acts[k].own
              /\ f[k].reported = acts[k].reported
         /\ f[n].pc = pc /\ f[n].finals = 0 /\ ~f[n].reported /\ f[1].heard = acts[1].heard + 1
<1>. DEFINE m == Len(acts)
            HeardBy(k) == IF k \in Ca!Chain[n] THEN acts[k].heard + 1 ELSE acts[k].heard
            Owned(k) == IF k = n THEN acts[k].own + 1 ELSE acts[k].own
            Place(k) == IF k = n THEN pc ELSE acts[k].pc
            g == [k \in 1..m |-> [acts[k] EXCEPT !.heard = HeardBy(k), !.own = Owned(k), !.pc = Place(k)]]
<1>1. /\ acts \in Seq(ActRecord) /\ m \in Nat /\ 1 \in 1..m /\ Ca!Made = 1..m
      /\ \A k \in 1..m : GoodAct(acts[k]) /\ acts[k].own \in Nat /\ acts[k].heard \in Nat
  BY ActFacts DEF CallsInv
<1>2. n \in Ca!Chain[n] /\ 1 \in Ca!Chain[n]
  BY ChainsBegin DEF CallsInv
<1>3. acts[n].finals = 0 /\ ~acts[n].reported /\ acts[n].attempts > 0
      /\ acts[n].failed + acts[n].attempts = AgentAttempts
  BY <1>1, Unsaid DEF GoodAct
<1>4. ASSUME NEW k \in 1..m
      PROVE  /\ HeardBy(k) \in Nat /\ Owned(k) \in Nat /\ Owned(k) <= HeardBy(k)
             /\ Place(k) \in {"new", "chain", "tools", "stream", "final", "timeout", "report", "close", "cancelled",
                              "linger", "done"}
  <2>1. acts[k].own <= acts[k].heard /\ acts[k].pc \in {"new", "chain", "tools", "stream", "final", "timeout",
                                                        "report", "close", "cancelled", "linger", "done"}
    BY <1>1 DEF GoodAct, ActRecord
  <2>2. Place(k) \in {"new", "chain", "tools", "stream", "final", "timeout", "report", "close", "cancelled",
                      "linger", "done"}
    BY <2>1
  <2>3. HeardBy(k) \in Nat /\ Owned(k) \in Nat
    BY <1>1
  <2>4. CASE k = n
    BY <1>1, <1>2, <2>1, <2>4
  <2>5. CASE k # n
    BY <1>1, <2>1, <2>5
  <2>. QED BY <2>2, <2>3, <2>4, <2>5
<1>5. f = g
  <2>1. ASSUME NEW k \in 1..m, NEW c, c = Ca!Counted(n)[k]
        PROVE  c = [acts[k] EXCEPT !.heard = HeardBy(k), !.own = Owned(k)]
    <3>1. c = [acts[k] EXCEPT !.heard = IF k \in Ca!Chain[n] THEN @ + 1 ELSE @,
                              !.own = IF k \in Ca!Chain[n] /\ Ca!IsOwnCall(n, k) THEN @ + 1 ELSE @]
      BY <1>1, <2>1 DEF Ca!Counted
    <3>2. k \in Ca!Chain[n] /\ Ca!IsOwnCall(n, k) <=> k = n
      BY <1>2 DEF Ca!IsOwnCall
    <3>3. acts[k] \in ActRecord
      BY <1>1 DEF GoodAct
    <3>. QED BY <3>1, <3>2, <3>3 DEF ActRecord
  <2>2. Ca!Counted(n) = [k \in 1..m |-> Ca!Counted(n)[k]]
    BY <1>1 DEF Ca!Counted
  <2>0. f = [Ca!Counted(n) EXCEPT ![n].pc = pc]
    BY DEF Called
  <2>3. ASSUME NEW k \in 1..m PROVE f[k] = g[k]
    <3>1. acts[k] \in ActRecord
      BY <1>1 DEF GoodAct
    <3>2. Ca!Counted(n)[k] = [acts[k] EXCEPT !.heard = HeardBy(k), !.own = Owned(k)]
      BY <2>1
    <3>. HIDE DEF HeardBy, Owned
    <3>3. CASE k = n
      BY <2>0, <2>2, <3>1, <3>2, <3>3 DEF ActRecord
    <3>4. CASE k # n
      <4>1. f[k] = Ca!Counted(n)[k]
        BY <2>0, <2>2, <3>4
      <4>2. g[k] = [acts[k] EXCEPT !.heard = HeardBy(k), !.own = Owned(k), !.pc = acts[k].pc]
        BY <3>4
      <4>. QED BY <3>1, <3>2, <4>1, <4>2 DEF ActRecord
    <3>. QED BY <3>3, <3>4
  <2>4. f = [k \in 1..m |-> f[k]]
    BY <2>0, <2>2
  <2>. HIDE DEF g
  <2>5. g = [k \in 1..m |-> g[k]]
    BY DEF g
  <2>. QED BY <2>3, <2>4, <2>5
<1>6. ASSUME NEW k \in 1..m
      PROVE  /\ f[k] \in ActRecord /\ Birth(f[k], acts[k]) /\ f[k].open = acts[k].open
             /\ f[k].own = Owned(k) /\ f[k].heard = HeardBy(k) /\ f[k].pc = Place(k)
             /\ f[k].finals = acts[k].finals /\ f[k].reported = acts[k].reported
             /\ f[k].attempts = acts[k].attempts /\ f[k].failed = acts[k].failed
  <2>1. acts[k] \in ActRecord /\ f[k] = [acts[k] EXCEPT !.heard = HeardBy(k), !.own = Owned(k), !.pc = Place(k)]
    BY <1>1, <1>5 DEF GoodAct
  <2>2. HeardBy(k) \in Nat /\ Owned(k) \in Nat
        /\ Place(k) \in {"new", "chain", "tools", "stream", "final", "timeout", "report", "close", "cancelled",
                         "linger", "done"}
    BY <1>4
  <2>. HIDE DEF HeardBy, Owned, Place
  <2>. DEFINE a == acts[k]
  <2>. DEFINE b == f[k]
  <2>3. a \in ActRecord /\ b = [a EXCEPT !.heard = HeardBy(k), !.own = Owned(k), !.pc = Place(k)]
    BY <2>1
  <2>. HIDE DEF a, b
  <2>4. /\ b \in ActRecord /\ b.open = a.open /\ b.own = Owned(k) /\ b.heard = HeardBy(k) /\ b.pc = Place(k)
        /\ b.finals = a.finals /\ b.reported = a.reported /\ b.attempts = a.attempts /\ b.failed = a.failed
    BY <2>2, <2>3 DEF ActRecord
  <2>5. Birth(b, a)
    BY <2>3 DEF ActRecord, Birth
  <2>. QED BY <2>4, <2>5 DEF a, b
<1>7. f \in Seq(ActRecord) /\ Len(f) = m
  <2>1. f = [k \in 1..m |-> f[k]]
    BY <1>5
  <2>2. f \in [1..m -> ActRecord]
    BY <1>6, <2>1
  <2>. QED BY <1>1, <2>2, SeqOfAll
<1>8. ASSUME NEW k \in 1..m PROVE GoodAct(f[k])
  <2>1. Owned(k) <= HeardBy(k) /\ GoodAct(acts[k])
    BY <1>1, <1>4
  <2>2. CASE k = n
    <3>1. f[k].pc = pc
      BY <1>6, <2>2
    <3>. HIDE DEF HeardBy, Owned, Place
    <3>. QED BY <1>3, <1>6, <2>1, <2>2, <3>1 DEF GoodAct
  <2>3. CASE k # n
    <3>1. f[k].pc = acts[k].pc
      BY <1>6, <2>3
    <3>. HIDE DEF HeardBy, Owned, Place
    <3>. QED BY <1>6, <2>1, <3>1 DEF GoodAct, Birth
  <2>. QED BY <2>2, <2>3
<1>9. \A k \in 1..m : k # n => Still(f[k], acts[k])
  BY <1>6 DEF Still
<1>10. f[n].pc = pc /\ f[n].finals = 0 /\ ~f[n].reported /\ f[1].heard = acts[1].heard + 1
  <2>1. Place(n) = pc /\ HeardBy(1) = acts[1].heard + 1
    BY <1>2
  <2>. QED BY <1>1, <1>3, <1>6, <2>1
<1>. QED BY <1>6, <1>7, <1>8, <1>9, <1>10

\* An agent calls its LLM, which answers or asks for tools.
LEMMA LlmIsCalled ==
  ASSUME CallsInv, NEW n \in Ca!Made, acts[n].kind = "agent", acts[n].pc = "chain", NEW pc \in {"final", "tools"},
         NEW f, f = Called(n, pc),
         acts' \in Seq(ActRecord), Len(acts') \in Len(acts)..MaxActivations,
         \A k \in 1..Len(acts) : acts'[k] = f[k],
         \A k \in (Len(acts) + 1)..Len(acts') :
           /\ pc = "tools" /\ GoodAct(acts'[k]) /\ acts'[k].parent = n /\ acts'[k].cloned = acts[n].cloned
           /\ acts'[k].pc = "new" /\ acts'[k].own = 0,
         llmCalls' = llmCalls + 1, rounds' \in 0..MaxRounds, UNCHANGED <<accounting, told>>
  PROVE  CallsInv'
<1>. DEFINE m == Len(acts)
<1>1. /\ acts \in Seq(ActRecord) /\ m \in Nat /\ 1 \in 1..m /\ Ca!Made = 1..m /\ GoodTree(acts)
  BY ActFacts DEF CallsInv
<1>2. /\ \A k \in 1..m :
           /\ GoodAct(f[k]) /\ Birth(f[k], acts[k]) /\ f[k].open = acts[k].open /\ (k # n => Still(f[k], acts[k]))
           /\ f[k].own = IF k = n THEN acts[k].own + 1 ELSE acts[k].own
           /\ f[k].reported = acts[k].reported
      /\ f[n].pc = pc /\ f[n].finals = 0 /\ ~f[n].reported /\ f[1].heard = acts[1].heard + 1
  BY CallIsHeard
<1>3. Len(acts') \in Nat /\ m <= Len(acts')
  BY <1>1, AgentTypes
<1>4. \A k \in 1..Len(acts') : GoodAct(acts'[k])
  <2>1. ASSUME NEW k \in 1..Len(acts') PROVE k \in 1..m \/ k \in (m + 1)..Len(acts')
    BY <1>1, <1>3
  <2>. QED BY <1>2, <2>1
<1>5. /\ acts[n].pc \notin Ended /\ acts'[n].pc \notin Ended /\ acts'[n].open = acts[n].open
      /\ ~acts'[n].reported /\ acts'[n].finals = 0 /\ acts'[n].pc = pc
  BY <1>1, <1>2 DEF Ended
<1>6. KidsEnded(acts, n)
  BY <1>1, IdleKidsEnded DEF Waiting
<1>7. \A k \in 1..m : Birth(acts'[k], acts[k]) /\ (k # n => Still(acts'[k], acts[k]))
  BY <1>2
<1>8. \A k \in (m + 1)..Len(acts') :
        /\ acts'[k].parent = n /\ acts'[k].pc = "new" /\ acts'[n].finals = 0
        /\ acts'[k].cloned <=> acts[n].cloned \/ acts[n].kind = "external"
        /\ acts'[k].kind # "agent" => acts[n].kind = "agent"
        /\ acts'[n].pc \in Waiting \/ acts[n].kind = "external"
  BY <1>5 DEF Waiting
<1>9. GoodTree(acts')
  <2>1. n = 1 /\ acts'[n].reported => acts'[n].pc = "close"
    BY <1>5
  <2>2. acts'[n].finals = 1 => KidsEnded(acts, n)
    BY <1>6
  <2>. QED BY <1>1, <1>4, <1>5, <1>6, <1>7, <1>8, <2>1, <2>2, TreeMoves
<1>10. /\ \A k \in 1..m : /\ acts'[k].own = IF k = n THEN acts[k].own + 1 ELSE acts[k].own
                          /\ acts'[k].reported = acts[k].reported /\ acts'[k].cloned = acts[k].cloned
       /\ acts'[1].heard = acts[1].heard + 1 /\ ~acts[n].reported
  BY <1>1, <1>2, <1>5 DEF Birth
<1>11. AccountInv'
  <2>1. AccountInv
    BY DEF CallsInv
  <2>. QED BY <1>1, <1>3, <1>9, <1>10, <2>1, AccountsKept
<1>. QED BY <1>9, <1>11 DEF CallsInv

LEMMA LlmSteps ==
  ASSUME CallsInv, NEW n \in Ca!Made, Ca!Answer(n) \/ Ca!CallTools(n)
  PROVE  CallsInv'
<1>1. /\ acts \in Seq(ActRecord) /\ Len(acts) \in Nat /\ Len(acts) <= MaxActivations /\ Ca!Made = 1..Len(acts)
      /\ acts[n].cloned \in BOOLEAN /\ acts[n].kind = "agent" /\ acts[n].pc = "chain" /\ n \in Nat
  <2>1. GoodAct(acts[n]) /\ Ca!Made = 1..Len(acts)
    BY ActFacts DEF CallsInv
  <2>2. acts[n].cloned \in BOOLEAN
    BY <2>1 DEF GoodAct, ActRecord
  <2>3. acts[n].kind = "agent" /\ acts[n].pc = "chain"
    BY DEF Ca!Answer, Ca!CallTools, Ca!At
  <2>4. n \in Nat
    BY <2>1
  <2>. QED BY <2>1, <2>2, <2>3, <2>4, ActFacts DEF CallsInv
<1>2. rounds \in 0..MaxRounds
  BY DEF CallsInv, AccountInv
<1>3. CASE Ca!Answer(n)
  <2>1. acts' = Called(n, "final") /\ llmCalls' = llmCalls + 1
        /\ UNCHANGED <<accounting, told, rounds>>
    BY <1>3 DEF Ca!Answer, Called
  <2>2. acts' \in Seq(ActRecord) /\ Len(acts') = Len(acts)
    BY <1>1, <2>1, CallIsHeard
  <2>3. Len(acts') \in Len(acts)..MaxActivations /\ \A k \in (Len(acts) + 1)..Len(acts') : FALSE
    BY <1>1, <2>2, AgentTypes
  <2>4. "final" \in {"final", "tools"} /\ rounds' \in 0..MaxRounds
    BY <1>2, <2>1
  <2>. QED BY <1>1, <2>1, <2>2, <2>3, <2>4, LlmIsCalled
<1>4. CASE Ca!CallTools(n)
  <2>. DEFINE f == Called(n, "tools")
  <2>1. /\ rounds < MaxRounds /\ llmCalls' = llmCalls + 1 /\ rounds' = rounds + 1 /\ UNCHANGED <<accounting, told>>
        /\ \E s \in UNION {[1..j -> {"agent", "tool", "external"}] : j \in 1..2} :
             /\ Len(acts) + Len(s) <= MaxActivations
             /\ acts' = f \o [i \in 1..Len(s) |-> Ca!Activation(s[i], n, acts[n].cloned)]
    BY <1>4 DEF Ca!CallTools, Called
  <2>2. PICK j \in 1..2 : \E s \in [1..j -> {"agent", "tool", "external"}] :
             /\ Len(acts) + Len(s) <= MaxActivations
             /\ acts' = f \o [i \in 1..Len(s) |-> Ca!Activation(s[i], n, acts[n].cloned)]
    BY <2>1
  <2>3. PICK s \in [1..j -> {"agent", "tool", "external"}] :
             /\ Len(acts) + Len(s) <= MaxActivations
             /\ acts' = f \o [i \in 1..Len(s) |-> Ca!Activation(s[i], n, acts[n].cloned)]
    BY <2>2
  <2>4. j \in Nat /\ Len(s) = j
    BY SeqOfAll
  <2>. DEFINE r == [i \in 1..j |-> Ca!Activation(s[i], n, acts[n].cloned)]
  <2>5. acts' = f \o r /\ Len(acts) + j <= MaxActivations
    BY <2>3, <2>4
  <2>6. ASSUME NEW i \in 1..j
        PROVE  /\ r[i] \in ActRecord /\ GoodAct(r[i]) /\ r[i].parent = n /\ r[i].cloned = acts[n].cloned
               /\ r[i].pc = "new" /\ r[i].own = 0
    BY <1>1, NewOnes
  <2>7. r \in Seq(ActRecord) /\ Len(r) = j
    <3>1. r \in [1..j -> ActRecord]
      BY <2>6
    <3>. HIDE DEF r
    <3>. QED BY <2>4, <3>1, SeqOfAll
  <2>8. f \in Seq(ActRecord) /\ Len(f) = Len(acts)
    BY <1>1, CallIsHeard
  <2>. HIDE DEF f, r
  <2>9. /\ acts' \in Seq(ActRecord) /\ Len(acts') = Len(acts) + j
        /\ \A k \in 1..Len(acts) : acts'[k] = f[k]
        /\ \A k \in (Len(acts) + 1)..Len(acts') : k - Len(acts) \in 1..j /\ acts'[k] = r[k - Len(acts)]
    BY <1>1, <2>4, <2>5, <2>7, <2>8
  <2>10. \A k \in (Len(acts) + 1)..Len(acts') :
           /\ GoodAct(acts'[k]) /\ acts'[k].parent = n /\ acts'[k].cloned = acts[n].cloned
           /\ acts'[k].pc = "new" /\ acts'[k].own = 0
    BY <2>6, <2>9
  <2>11. Len(acts') \in Len(acts)..MaxActivations /\ rounds' \in 0..MaxRounds
    BY <1>1, <1>2, <2>1, <2>4, <2>5, <2>9, AgentTypes
  <2>12. f = Called(n, "tools") /\ "tools" \in {"final", "tools"}
    BY DEF f
  <2>13. acts' \in Seq(ActRecord) /\ \A k \in 1..Len(acts) : acts'[k] = f[k]
    BY <2>9
  <2>14. llmCalls' = llmCalls + 1 /\ UNCHANGED <<accounting, told>>
    BY <2>1
  <2>15. acts[n].kind = "agent" /\ acts[n].pc = "chain"
    BY <1>1
  <2>. QED BY <2>10, <2>11, <2>12, <2>13, <2>14, <2>15, LlmIsCalled
<1>. QED BY <1>3, <1>4

\* An agent reports: its calls go from what is not accounted for to what is.
LEMMA ReportStep == ASSUME CallsInv, NEW n \in Ca!Made, Ca!Report(n) PROVE CallsInv'
<1>. DEFINE m == Len(acts)
            a == [acts[n] EXCEPT !.pc = "close", !.reported = TRUE]
            share == Ca!MainShare(n)
            total == accounting.total + acts[n].own
            w == MainWeights(acts)
            v == MainWeights(acts')
            x == RestWeights(acts)
            y == RestWeights(acts')
<1>1. /\ acts[n].kind = "agent" /\ acts[n].pc = "report"
      /\ accounting' = [main |-> accounting.main + share, total |-> total, time |-> Ca!Stamp(n)]
      /\ told' = IF n = 1
                 THEN [main |-> accounting.main + share, total |-> total, calls |-> llmCalls,
                       unattributed |-> IF acts[n].heard > total THEN acts[n].heard - total ELSE 0]
                 ELSE told
      /\ acts' = [acts EXCEPT ![n].pc = "close", ![n].reported = TRUE]
      /\ UNCHANGED <<llmCalls, rounds>>
  BY DEF Ca!Report, Ca!At, Ca!FrontMan
<1>2. /\ acts \in Seq(ActRecord) /\ m \in Nat /\ m <= MaxActivations /\ 1 \in 1..m /\ n \in 1..m
      /\ GoodTree(acts) /\ AccountInv
      /\ \A k \in 1..m : GoodAct(acts[k]) /\ acts[k].own \in Nat /\ acts[k].heard \in Nat
  BY ActFacts DEF CallsInv
<1>3. acts[n].finals = 1 /\ ~acts[n].reported
  BY <1>1, <1>2 DEF GoodAct
<1>4. acts' = [acts EXCEPT ![n] = a]
  BY <1>1, <1>2
<1>5. /\ a \in ActRecord /\ Birth(a, acts[n]) /\ a.pc = "close" /\ a.reported /\ a.own = acts[n].own
      /\ a.heard = acts[n].heard /\ a.open = acts[n].open /\ a.finals = 1
  BY <1>2, <1>3 DEF GoodAct, ActRecord, Birth
<1>. HIDE DEF a
<1>6. GoodAct(a)
  BY <1>1, <1>2, <1>5 DEF GoodAct, Birth
<1>7. acts' \in Seq(ActRecord) /\ Len(acts') = m /\ \A k \in 1..m : acts'[k] = IF k = n THEN a ELSE acts[k]
  BY <1>2, <1>4, <1>5
<1>8. GoodTree(acts')
  <2>1. Len(acts') \in Len(acts)..MaxActivations /\ \A k \in (Len(acts) + 1)..Len(acts') : FALSE
    BY <1>2, <1>7, AgentTypes
  <2>2. \A k \in 1..Len(acts') : GoodAct(acts'[k])
    BY <1>2, <1>6, <1>7
  <2>3. \A k \in 1..Len(acts) : Birth(acts'[k], acts[k]) /\ (k # n => Still(acts'[k], acts[k]))
    BY <1>5, <1>7 DEF Birth, Still
  <2>4. acts[n].pc \notin Ended /\ acts'[n].pc \notin Ended /\ acts'[n].open = acts[n].open /\ acts'[n].pc = "close"
    BY <1>1, <1>2, <1>5, <1>7 DEF Ended
  <2>5. KidsEnded(acts, n)
    BY <1>1, <1>2, IdleKidsEnded DEF Waiting
  <2>. QED BY <1>2, <1>7, <2>1, <2>2, <2>3, <2>4, <2>5, TreeMoves
<1>9. /\ share \in Int /\ accounting \in [main : Int, total : Int, time : 0..m] /\ llmCalls \in Nat
      /\ total \in Int /\ acts[1].heard = llmCalls
      /\ HasSum(w, m, accounting.main) /\ HasSum(x, m, llmCalls - accounting.total)
  <2>1. share \in Int
    BY <1>2 DEF Ca!MainShare
  <2>. QED BY <1>2, <2>1 DEF AccountInv
<1>10. \A k \in 1..m : w[k] \in Int /\ (k # n => v[k] = w[k])
  BY <1>2, <1>7 DEF MainWeights
<1>11. v[n] = w[n] + share
  <2>1. w[n] = 0 /\ v[n] = IF acts[n].cloned THEN 0 ELSE acts[n].own
    BY <1>2, <1>3, <1>5, <1>7 DEF MainWeights, Birth
  <2>. QED BY <1>2, <2>1 DEF Ca!MainShare
<1>12. \A k \in 1..m : x[k] \in Int /\ (k # n => y[k] = x[k])
  BY <1>2, <1>7 DEF RestWeights
<1>13. y[n] = x[n] + (-acts[n].own)
  <2>1. x[n] = acts[n].own /\ y[n] = 0
    BY <1>2, <1>3, <1>5, <1>7 DEF RestWeights
  <2>. QED BY <1>2, <2>1
<1>14. \A k \in 1..m : y[k] \in Nat
  BY <1>2, <1>5, <1>7 DEF RestWeights
<1>. HIDE DEF w, v, x, y, share
<1>15. HasSum(v, m, accounting'.main)
  <2>. HIDE DEF HasSum
  <2>1. HasSum(v, m, accounting.main + share)
    BY <1>2, <1>9, <1>10, <1>11, SumOfMore
  <2>. QED BY <1>1, <2>1
<1>16. HasSum(y, m, llmCalls - total)
  <2>. HIDE DEF HasSum
  <2>. DEFINE d == -acts[n].own
  <2>1. d \in Int /\ y[n] = x[n] + d
    BY <1>2, <1>13
  <2>2. llmCalls - total = (llmCalls - accounting.total) + d
    BY <1>2, <1>9
  <2>. HIDE DEF d
  <2>3. HasSum(y, m, (llmCalls - accounting.total) + d)
    BY <1>2, <1>9, <1>12, <2>1, SumOfMore
  <2>. QED BY <2>2, <2>3
<1>17. llmCalls - total \in Nat
  BY <1>2, <1>14, <1>16, SumsAreNatural
<1>18. Ca!Stamp(n) \in 0..m
  BY <1>2, <1>9 DEF Ca!Stamp
<1>19. acts'[1].reported => Ca!Stamp(n) = 1
  <2>1. CASE n = 1
    BY <1>2, <2>1 DEF Ca!Stamp, GoodTree, Root
  <2>2. CASE n # 1
    <3>. SUFFICES ASSUME acts[1].reported PROVE Ca!Stamp(n) = 1
      BY <1>2, <1>7, <2>2
    <3>1. acts[1].pc \notin Waiting
      BY <1>2 DEF GoodTree, Root, Waiting
    <3>2. n \in 2..m
      BY <1>2, <2>2
    <3>3. acts[n].cloned
      BY <1>1, <1>2, <3>1, <3>2, Quiet DEF Ended
    <3>4. accounting.time = 1
      BY <1>2 DEF AccountInv
    <3>. QED BY <3>3, <3>4 DEF Ca!Stamp
  <2>. QED BY <2>1, <2>2
<1>20. (Ca!EveryCallCountedOnce)'
  <2>1. CASE n = 1
    <3>1. told'.total = total /\ told'.calls = llmCalls
          /\ told'.unattributed = IF llmCalls > total THEN llmCalls - total ELSE 0
      BY <1>1, <1>9, <2>1
    <3>2. told'.total + told'.unattributed = told'.calls
      <4>. HIDE DEF total
      <4>. QED BY <1>9, <1>17, <3>1
    <3>. QED BY <3>2 DEF Ca!EveryCallCountedOnce
  <2>2. CASE n # 1
    BY <1>1, <1>2, <2>2 DEF AccountInv, Ca!EveryCallCountedOnce
  <2>. QED BY <2>1, <2>2
<1>21. acts'[1].heard = acts[1].heard
  BY <1>2, <1>5, <1>7
<1>22. /\ accounting' \in [main : Int, total : Int, time : 0..m] /\ accounting'.total = total
       /\ accounting'.time = Ca!Stamp(n)
  <2>. HIDE DEF total
  <2>. QED BY <1>1, <1>9, <1>18
<1>. HIDE DEF total
<1>23. AccountInv'
  <2>1. llmCalls' \in Nat /\ rounds' \in 0..MaxRounds /\ acts'[1].heard = llmCalls'
    BY <1>1, <1>2, <1>9, <1>21 DEF AccountInv
  <2>2. accounting' \in [main : Int, total : Int, time : 0..Len(acts')]
    BY <1>7, <1>22
  <2>3. acts'[1].reported => accounting'.time = 1
    BY <1>19, <1>22
  <2>4. HasSum(MainWeights(acts'), Len(acts'), accounting'.main)
    BY <1>7, <1>15 DEF v
  <2>5. HasSum(RestWeights(acts'), Len(acts'), llmCalls' - accounting'.total)
    BY <1>1, <1>7, <1>16, <1>22 DEF y
  <2>. QED BY <1>20, <2>1, <2>2, <2>3, <2>4, <2>5 DEF AccountInv
<1>. QED BY <1>8, <1>23 DEF CallsInv

\* Where an activation goes when n is cancelled, or told that its time is over.
Fallen(n, pc, k) ==
  IF k = n THEN pc ELSE IF k \in Ca!AwaitedBy(n) /\ acts[k].pc # "done" THEN "cancelled" ELSE acts[k].pc

LEMMA OneIsCancelled ==
  ASSUME CallsInv, NEW n \in Ca!Made, acts[n].pc \notin Ended, n = 1 => ~acts[1].reported,
         NEW pc \in {"timeout", "cancelled"},
         pc = "timeout" => acts[n].pc \in {"chain", "tools", "final"},
         acts' = [k \in Ca!Made |-> [acts[k] EXCEPT !.pc = Fallen(n, pc, k)]],
         UNCHANGED <<accounting, told, llmCalls, rounds>>
  PROVE  CallsInv'
<1>. DEFINE m == Len(acts)
<1>1. /\ acts \in Seq(ActRecord) /\ m \in Nat /\ 1 \in 1..m /\ Ca!Made = 1..m /\ GoodTree(acts) /\ AccountInv
      /\ \A k \in 1..m : GoodAct(acts[k]) /\ acts[k].own \in Nat /\ acts[k].heard \in Nat
  BY ActFacts DEF CallsInv
<1>2. ASSUME NEW k \in 1..m
      PROVE  /\ acts'[k] \in ActRecord /\ Alike(acts'[k], acts[k]) /\ acts'[k].finals = acts[k].finals
             /\ acts'[k].attempts = acts[k].attempts /\ acts'[k].failed = acts[k].failed
             /\ acts'[k].pc = Fallen(n, pc, k)
  <2>1. acts[k] \in ActRecord /\ acts'[k] = [acts[k] EXCEPT !.pc = Fallen(n, pc, k)]
    BY <1>1 DEF GoodAct
  <2>2. Fallen(n, pc, k) \in {"new", "chain", "tools", "stream", "final", "timeout", "report", "close", "cancelled",
                              "linger", "done"}
    BY <2>1 DEF Fallen, ActRecord
  <2>. QED BY <2>1, <2>2 DEF ActRecord, Alike, Birth
<1>3. ASSUME NEW k \in 1..m PROVE GoodAct(acts'[k])
  <2>1. CASE acts'[k].pc = acts[k].pc
    BY <1>1, <1>2, <2>1 DEF GoodAct, Alike, Birth
  <2>2. CASE acts'[k].pc = "cancelled"
    BY <1>1, <1>2, <2>2 DEF GoodAct, Alike, Birth
  <2>3. CASE k = n /\ pc = "timeout"
    <3>1. acts[k].finals = 0 /\ ~acts[k].reported /\ acts'[k].pc = "timeout"
      BY <1>1, <1>2, <2>3, Unsaid DEF Fallen
    <3>. QED BY <1>1, <1>2, <3>1 DEF GoodAct, Alike, Birth
  <2>. QED BY <1>2, <2>1, <2>2, <2>3 DEF Fallen
<1>4. acts' \in Seq(ActRecord) /\ Len(acts') = m
  <2>1. acts' \in [1..m -> ActRecord]
    BY <1>1, <1>2
  <2>. QED BY <1>1, <2>1, SeqOfAll
<1>5. GoodTree(acts')
  <2>1. \A k \in 1..Len(acts) : GoodAct(acts'[k]) /\ Birth(acts'[k], acts[k]) /\ acts'[k].open = acts[k].open
                                /\ acts'[k].finals = acts[k].finals /\ acts'[k].reported = acts[k].reported
    BY <1>2, <1>3 DEF Alike
  <2>2. acts'[n].pc = pc
    BY <1>1, <1>2 DEF Fallen
  <2>3. \A k \in 1..Len(acts) : k # n =>
          acts'[k].pc = IF k \in Ca!AwaitedBy(n) /\ acts[k].pc # "done" THEN "cancelled" ELSE acts[k].pc
    BY <1>2 DEF Fallen
  <2>. QED BY <1>1, <1>4, <2>1, <2>2, <2>3, TreeIsCancelled
<1>6. AccountInv'
  <2>1. /\ \A k \in 1..m : /\ acts'[k].own = IF k = n THEN acts[k].own + 0 ELSE acts[k].own
                           /\ acts'[k].reported = acts[k].reported /\ acts'[k].cloned = acts[k].cloned
        /\ \A k \in (m + 1)..Len(acts') : acts'[k].own = 0
        /\ acts'[1].heard = acts[1].heard + 0
    BY <1>1, <1>2, <1>4 DEF Alike, Birth
  <2>2. llmCalls' = llmCalls + 0 /\ rounds' \in 0..MaxRounds
    BY <1>1 DEF AccountInv
  <2>3. Len(acts') >= Len(acts) /\ UNCHANGED <<accounting, told>> /\ 0 \in Nat
    BY <1>1, <1>4
  <2>. QED BY <1>1, <1>5, <2>1, <2>2, <2>3, AccountsKept
<1>. QED BY <1>5, <1>6 DEF CallsInv

LEMMA CancellingSteps ==
  ASSUME CallsInv, Ca!Abandon \/ \E n \in Ca!Made : Ca!TimedOut(n) \/ Ca!CloneStops(n)
  PROVE  CallsInv'
<1>1. /\ acts \in Seq(ActRecord) /\ Len(acts) \in Nat /\ 1 \in 1..Len(acts) /\ Ca!Made = 1..Len(acts) /\ GoodTree(acts)
      /\ \A k \in 1..Len(acts) : GoodAct(acts[k])
  BY ActFacts DEF CallsInv
<1>2. ASSUME NEW n \in Ca!Made, NEW pc \in {"timeout", "cancelled"},
             acts' = [Ca!Cancelled(n, Ca!AwaitedBy(n)) EXCEPT ![n].pc = pc]
      PROVE  acts' = [k \in Ca!Made |-> [acts[k] EXCEPT !.pc = Fallen(n, pc, k)]]
  <2>. DEFINE c == Ca!Cancelled(n, Ca!AwaitedBy(n))
  <2>1. n \notin Ca!AwaitedBy(n)
    BY <1>1, AwaitedOnes
  <2>2. ASSUME NEW k \in Ca!Made
        PROVE  c[k] = IF k \in Ca!AwaitedBy(n) /\ acts[k].pc # "done" THEN [acts[k] EXCEPT !.pc = "cancelled"]
                      ELSE acts[k]
    BY DEF Ca!Cancelled
  <2>3. c = [k \in Ca!Made |-> c[k]]
    BY DEF Ca!Cancelled
  <2>. HIDE DEF c
  <2>4. ASSUME NEW k \in Ca!Made PROVE acts'[k] = [acts[k] EXCEPT !.pc = Fallen(n, pc, k)]
    <3>1. acts[k] \in ActRecord
      BY <1>1 DEF GoodAct
    <3>2. CASE k = n
      <4>1. acts'[k] = [acts[k] EXCEPT !.pc = pc]
        BY <1>2, <2>1, <2>2, <2>3, <3>2 DEF c
      <4>. QED BY <3>2, <4>1 DEF Fallen
    <3>3. CASE k # n
      <4>1. acts'[k] = c[k]
        BY <1>2, <2>3, <3>3 DEF c
      <4>. QED BY <2>2, <3>1, <3>3, <4>1 DEF Fallen, ActRecord
    <3>. QED BY <3>2, <3>3
  <2>5. acts' = [k \in Ca!Made |-> acts'[k]]
    BY <1>2, <2>3 DEF c
  <2>. QED BY <2>4, <2>5
<1>3. ASSUME Ca!Abandon PROVE CallsInv'
  <2>1. /\ acts[1].pc \notin {"close", "cancelled", "done"} /\ UNCHANGED <<accounting, told, llmCalls, rounds>>
        /\ acts' = Ca!Cancelled(1, Ca!AwaitedBy(1) \cup {1})
    BY <1>3 DEF Ca!Abandon, Ca!Acts, Ca!FrontMan
  <2>2. acts[1].pc \notin Ended /\ ~acts[1].reported
    BY <1>1, <2>1 DEF GoodTree, Root, Ended
  <2>3. acts' = [k \in Ca!Made |-> [acts[k] EXCEPT !.pc = Fallen(1, "cancelled", k)]]
    <3>1. ASSUME NEW k \in Ca!Made PROVE acts'[k] = [acts[k] EXCEPT !.pc = Fallen(1, "cancelled", k)]
      <4>1. acts[k] \in ActRecord
        BY <1>1 DEF GoodAct
      <4>2. acts'[k] = IF k \in Ca!AwaitedBy(1) \cup {1} /\ acts[k].pc # "done"
                       THEN [acts[k] EXCEPT !.pc = "cancelled"] ELSE acts[k]
        BY <2>1 DEF Ca!Cancelled
      <4>. QED BY <2>1, <4>1, <4>2 DEF Fallen, ActRecord
    <3>2. acts' = [k \in Ca!Made |-> acts'[k]]
      BY <2>1 DEF Ca!Cancelled
    <3>. QED BY <3>1, <3>2
  <2>. QED BY <1>1, <2>1, <2>2, <2>3, OneIsCancelled
<1>4. ASSUME NEW n \in Ca!Made, Ca!TimedOut(n) PROVE CallsInv'
  <2>1. /\ acts[n].pc \in {"chain", "tools", "final"} /\ UNCHANGED <<accounting, told, llmCalls, rounds>>
        /\ acts' = [Ca!Cancelled(n, Ca!AwaitedBy(n)) EXCEPT ![n].pc = "timeout"]
    BY <1>4 DEF Ca!TimedOut, Ca!IsTimed, Ca!Acts
  <2>2. acts[n].pc \notin Ended /\ ~acts[n].reported
    BY <1>1, <2>1, Unsaid DEF Ended
  <2>3. acts' = [k \in Ca!Made |-> [acts[k] EXCEPT !.pc = Fallen(n, "timeout", k)]]
    BY <1>2, <2>1
  <2>. QED BY <2>1, <2>2, <2>3, OneIsCancelled
<1>5. ASSUME NEW n \in Ca!Made, Ca!CloneStops(n) PROVE CallsInv'
  <2>1. /\ Ca!IsClone(n) /\ acts[n].pc \notin {"done", "cancelled"} /\ UNCHANGED <<accounting, told, llmCalls, rounds>>
        /\ acts' = [Ca!Cancelled(n, Ca!AwaitedBy(n)) EXCEPT ![n].pc = "cancelled"]
    BY <1>5 DEF Ca!CloneStops, Ca!Acts
  <2>2. n \in 2..Len(acts)
    BY <1>1, <2>1 DEF Ca!IsClone, GoodTree, Root
  <2>3. acts[n].pc \notin Ended
    BY <2>1, <2>2, <1>1 DEF Ended, GoodTree, Edge, Ca!IsClone
  <2>4. n # 1
    BY <2>2
  <2>5. acts' = [k \in Ca!Made |-> [acts[k] EXCEPT !.pc = Fallen(n, "cancelled", k)]]
    BY <1>2, <2>1
  <2>. QED BY <2>1, <2>3, <2>4, <2>5, OneIsCancelled
<1>. QED BY <1>3, <1>4, <1>5

\* An activation ends: nothing is accounted for.
LEMMA CloseStep == ASSUME CallsInv, NEW n \in Ca!Made, Ca!Close(n) PROVE CallsInv'
<1>. DEFINE m == Len(acts)
            Place(k) == IF k = n THEN (IF Ca!Lingers(n) THEN "linger" ELSE "done")
                        ELSE IF acts[k].pc = "linger" /\ acts[k].parent = n THEN "done" ELSE acts[k].pc
            Open(k) == acts[k].open /\ (k \notin Ca!ClosedWith(n) \/ (k = n /\ Ca!Lingers(n)))
<1>1. /\ acts \in Seq(ActRecord) /\ m \in Nat /\ 1 \in 1..m /\ Ca!Made = 1..m /\ GoodTree(acts) /\ AccountInv
      /\ \A k \in 1..m : GoodAct(acts[k]) /\ acts[k].own \in Nat /\ acts[k].heard \in Nat
  BY ActFacts DEF CallsInv
<1>2. /\ acts[n].pc \in {"close", "cancelled"} /\ Ca!KidsDone(n) /\ UNCHANGED <<accounting, told, llmCalls, rounds>>
      /\ acts' = [k \in Ca!Made |->
                    IF k = n /\ Ca!Lingers(n) THEN [acts[k] EXCEPT !.pc = "linger"]
                    ELSE [acts[k] EXCEPT
                            !.pc = IF k = n \/ (acts[k].pc = "linger" /\ k \in Ca!Kids(n)) THEN "done" ELSE @,
                            !.open = @ /\ k \notin Ca!ClosedWith(n)]]
  BY DEF Ca!Close, Ca!Acts
<1>3. KidsEnded(acts, n)
  BY <1>1, <1>2, KidsDoneMeans
<1>4. ASSUME NEW k \in 1..m
      PROVE  /\ acts'[k] \in ActRecord /\ Birth(acts'[k], acts[k]) /\ acts'[k].own = acts[k].own
             /\ acts'[k].heard = acts[k].heard /\ acts'[k].reported = acts[k].reported
             /\ acts'[k].finals = acts[k].finals
             /\ acts'[k].attempts = acts[k].attempts /\ acts'[k].failed = acts[k].failed
             /\ acts'[k].pc = Place(k) /\ (acts'[k].open <=> Open(k))
  <2>1. acts[k] \in ActRecord
    BY <1>1 DEF GoodAct
  <2>2. CASE k = n /\ Ca!Lingers(n)
    <3>1. acts'[k] = [acts[k] EXCEPT !.pc = "linger"]
      BY <1>1, <1>2, <2>2
    <3>. QED BY <2>1, <2>2, <3>1 DEF ActRecord, Birth
  <2>3. CASE ~(k = n /\ Ca!Lingers(n))
    <3>. DEFINE pc == IF k = n \/ (acts[k].pc = "linger" /\ k \in Ca!Kids(n)) THEN "done" ELSE acts[k].pc
                open == acts[k].open /\ k \notin Ca!ClosedWith(n)
    <3>1. acts'[k] = [acts[k] EXCEPT !.pc = pc, !.open = open]
      <4>1. acts'[k] = [acts[k] EXCEPT
                          !.pc = IF k = n \/ (acts[k].pc = "linger" /\ k \in Ca!Kids(n)) THEN "done" ELSE @,
                          !.open = @ /\ k \notin Ca!ClosedWith(n)]
        BY <1>1, <1>2, <2>3
      <4>. QED BY <2>1, <4>1 DEF ActRecord
    <3>2. pc \in {"new", "chain", "tools", "stream", "final", "timeout", "report", "close", "cancelled",
                  "linger", "done"} /\ open \in BOOLEAN
      BY <2>1 DEF ActRecord
    <3>3. pc = Place(k) /\ (open <=> Open(k))
      BY <1>1, <2>3 DEF Ca!Kids
    <3>. HIDE DEF pc, open, Place, Open
    <3>. QED BY <2>1, <3>1, <3>2, <3>3 DEF ActRecord, Birth
  <2>. QED BY <2>2, <2>3
<1>5. \A k \in 1..m : Open(k) => acts[k].open
  OBVIOUS
<1>6. ASSUME NEW k \in 1..m PROVE GoodAct(acts'[k])
  <2>1. Place(k) = acts[k].pc \/ Place(k) \in {"linger", "done"}
    OBVIOUS
  <2>. HIDE DEF Place, Open
  <2>2. CASE Place(k) = acts[k].pc
    BY <1>1, <1>4, <2>2 DEF GoodAct, Birth
  <2>3. CASE Place(k) \in {"linger", "done"}
    BY <1>1, <1>4, <2>3 DEF GoodAct, Birth
  <2>. QED BY <2>1, <2>2, <2>3
<1>7. acts' \in Seq(ActRecord) /\ Len(acts') = m
  <2>1. acts' \in [1..m -> ActRecord]
    BY <1>1, <1>2, <1>4
  <2>. QED BY <1>1, <2>1, SeqOfAll
<1>8. GoodTree(acts')
  <2>1. \A k \in 1..Len(acts) : GoodAct(acts'[k]) /\ Birth(acts'[k], acts[k]) /\ (acts'[k].open => acts[k].open)
                                /\ acts'[k].finals = acts[k].finals /\ acts'[k].reported = acts[k].reported
    <3>. HIDE DEF Open, Place
    <3>. QED BY <1>4, <1>5, <1>6
  <2>2. acts'[n].pc = IF Ca!Lingers(n) THEN "linger" ELSE "done"
    BY <1>1, <1>4
  <2>3. ~Ca!Lingers(n) /\ ~Ca!IsClone(n) => ~acts'[n].open
    BY <1>1, <1>4 DEF Ca!ClosedWith
  <2>4. \A k \in 1..Len(acts) : k # n =>
          acts'[k].pc = IF acts[k].pc = "linger" /\ acts[k].parent = n THEN "done" ELSE acts[k].pc
    BY <1>4
  <2>5. \A k \in 1..Len(acts) : k # n /\ acts[k].parent = n /\ acts[n].kind # "agent" => ~acts'[k].open
    BY <1>1, <1>4 DEF Ca!ClosedWith, Ca!Kids
  <2>. QED BY <1>1, <1>2, <1>3, <1>7, <2>1, <2>2, <2>3, <2>4, <2>5, TreeCloses
<1>9. AccountInv'
  <2>. HIDE DEF Open, Place
  <2>1. /\ \A k \in 1..m : /\ acts'[k].own = IF k = n THEN acts[k].own + 0 ELSE acts[k].own
                           /\ acts'[k].reported = acts[k].reported /\ acts'[k].cloned = acts[k].cloned
        /\ \A k \in (m + 1)..Len(acts') : acts'[k].own = 0
        /\ acts'[1].heard = acts[1].heard + 0
    BY <1>1, <1>4, <1>7 DEF Birth
  <2>0. UNCHANGED <<accounting, told, llmCalls, rounds>>
    BY <1>2
  <2>2. llmCalls' = llmCalls + 0 /\ rounds' \in 0..MaxRounds
    BY <1>1, <2>0 DEF AccountInv
  <2>3. Len(acts') >= Len(acts) /\ UNCHANGED <<accounting, told>> /\ 0 \in Nat
    BY <1>1, <2>0, <1>7
  <2>. QED BY <1>1, <1>8, <2>1, <2>2, <2>3, AccountsKept
<1>. QED BY <1>8, <1>9 DEF CallsInv

LEMMA CallsStep == ASSUME CallsInv, Ca!Next PROVE CallsInv'
<1>1. CASE Ca!Abandon
  BY <1>1, CancellingSteps
<1>2. ASSUME NEW n \in Ca!Made, Ca!Outside(n) PROVE CallsInv'
  BY <1>2, LlmSteps, LonelySteps, CallingSteps, CancellingSteps DEF Ca!Outside
<1>3. ASSUME NEW n \in Ca!Made, Ca!Inside(n) PROVE CallsInv'
  BY <1>3, LonelySteps, CallingSteps, CancellingSteps, ReportStep, CloseStep DEF Ca!Inside
<1>. QED BY <1>1, <1>2, <1>3 DEF Ca!Next

LEMMA CallsBegin == Ca!Init => CallsInv
<1>. SUFFICES ASSUME Ca!Init PROVE CallsInv
  OBVIOUS
<1>. DEFINE a == Ca!Activation("agent", 0, FALSE)
<1>1. /\ acts = <<a>> /\ accounting = [main |-> 0, total |-> 0, time |-> 0]
      /\ told = Ca!NotTold /\ llmCalls = 0 /\ rounds = 0
  BY DEF Ca!Init
<1>2. /\ a \in ActRecord /\ GoodAct(a) /\ a.kind = "agent" /\ a.parent = 0 /\ ~a.cloned
      /\ a.pc = "new" /\ a.own = 0 /\ a.heard = 0 /\ ~a.reported /\ a.finals = 0
  <2>1. "agent" \in {"agent", "tool", "external"} /\ 0 \in Nat /\ FALSE \in BOOLEAN
    OBVIOUS
  <2>2. a \in ActRecord /\ GoodAct(a)
    <3>. HIDE DEF a
    <3>1. a = Ca!Activation("agent", 0, FALSE)
      BY DEF a
    <3>. QED BY <2>1, <3>1, NewOnes
  <2>3. /\ a.kind = "agent" /\ a.parent = 0 /\ ~a.cloned
        /\ a.pc = "new" /\ a.own = 0 /\ a.heard = 0 /\ ~a.reported /\ a.finals = 0
    BY DEF Ca!Activation
  <2>. QED BY <2>2, <2>3
<1>. HIDE DEF a
<1>3. acts \in Seq(ActRecord) /\ Len(acts) = 1 /\ acts[1] = a
  BY <1>1, <1>2
<1>4. GoodTree(acts)
  <2>1. \A k \in 2..Len(acts) : FALSE
    BY <1>3
  <2>2. \A k \in 1..Len(acts) : GoodAct(acts[k])
    BY <1>2, <1>3
  <2>3. Root(acts[1])
    BY <1>2, <1>3 DEF Root
  <2>. QED BY <1>3, <2>1, <2>2, <2>3, AgentTypes DEF GoodTree
<1>5. HasSum(MainWeights(acts), 1, 0) /\ HasSum(RestWeights(acts), 1, 0)
  <2>1. MainWeights(acts)[1] = 0 /\ RestWeights(acts)[1] = 0
    BY <1>2, <1>3 DEF MainWeights, RestWeights
  <2>. QED BY <2>1, SumOfNone
<1>6. AccountInv
  <2>1. llmCalls - accounting.total = 0 /\ accounting.main = 0
    BY <1>1
  <2>2. Ca!EveryCallCountedOnce
    BY <1>1 DEF Ca!EveryCallCountedOnce
  <2>3. rounds \in 0..MaxRounds /\ llmCalls \in Nat /\ acts[1].heard = llmCalls /\ ~acts[1].reported
        /\ accounting \in [main : Int, total : Int, time : 0..Len(acts)]
    BY <1>1, <1>2, <1>3, AgentTypes
  <2>. QED BY <1>3, <1>5, <2>1, <2>2, <2>3 DEF AccountInv
<1>. QED BY <1>4, <1>6 DEF CallsInv

\* What the properties of the calls say of a state.
LEMMA CallsFollow ==
  CallsInv => /\ Ca!TypeOK /\ Ca!EveryCallCountedOnce /\ Ca!MainIsOwn /\ Ca!TimeIsTheFrontMans
              /\ Ca!LastWord /\ Ca!AttemptsBounded /\ Ca!AllClosed
<1>. SUFFICES ASSUME CallsInv
              PROVE  /\ Ca!TypeOK /\ Ca!EveryCallCountedOnce /\ Ca!MainIsOwn /\ Ca!TimeIsTheFrontMans
                     /\ Ca!LastWord /\ Ca!AttemptsBounded /\ Ca!AllClosed
  OBVIOUS
<1>1. /\ Len(acts) \in Nat /\ Ca!Made = 1..Len(acts) /\ GoodTree(acts) /\ AccountInv /\ Ca!FrontMan = 1
      /\ \A k \in 1..Len(acts) : GoodAct(acts[k])
  BY ActFacts DEF CallsInv, Ca!FrontMan
<1>2. \A k \in Ca!Made : acts[k].parent < k
  BY <1>1, TreeTypes
<1>3. Ca!TypeOK
  <2>1. Len(acts) \in 1..MaxActivations /\ rounds \in 0..MaxRounds /\ accounting.time \in 0..Len(acts)
    BY <1>1 DEF GoodTree, AccountInv
  <2>2. ASSUME NEW n \in Ca!Made
        PROVE  /\ acts[n].kind \in {"agent", "tool", "external"} /\ acts[n].own <= acts[n].heard
               /\ acts[n].pc \in {"new", "chain", "tools", "stream", "final", "timeout", "report", "close",
                                  "cancelled", "linger", "done"}
               /\ acts[n].attempts \in 0..AgentAttempts
    BY <1>1 DEF GoodAct, ActRecord
  <2>. QED BY <1>2, <2>1, <2>2 DEF Ca!TypeOK
<1>4. Ca!EveryCallCountedOnce /\ Ca!TimeIsTheFrontMans
  BY <1>1 DEF AccountInv, Ca!TimeIsTheFrontMans
<1>5. Ca!MainIsOwn
  BY <1>1, MainIsSummed DEF AccountInv
<1>6. Ca!AttemptsBounded
  <2>. SUFFICES ASSUME NEW n \in Ca!Made PROVE acts[n].failed <= AgentAttempts
    BY DEF Ca!AttemptsBounded
  <2>1. acts[n].failed \in 0..AgentAttempts
    BY <1>1 DEF GoodAct, ActRecord
  <2>. QED BY <2>1, AgentTypes
<1>7. Ca!LastWord
  <2>. SUFFICES ASSUME NEW n \in Ca!Made
                PROVE  /\ acts[n].finals <= 1
                       /\ acts[n].finals = 1 => Ca!KidsDone(n)
                       /\ acts[n].kind = "agent" /\ acts[n].reported => acts[n].finals = 1
    BY DEF Ca!LastWord
  <2>1. acts[n].finals \in 0..1 /\ (acts[n].reported => acts[n].finals = 1)
    BY <1>1 DEF GoodAct, ActRecord
  <2>2. ASSUME acts[n].finals = 1 PROVE KidsEnded(acts, n)
    <3>. SUFFICES ASSUME NEW k \in 1..Len(acts), acts[k].parent = n PROVE acts[k].pc \in Ended
      BY DEF KidsEnded
    <3>1. k \in 2..Len(acts)
      BY <1>1 DEF GoodTree, Root
    <3>. QED BY <1>1, <2>2, <3>1 DEF GoodTree, Edge, Ended
  <2>. QED BY <1>1, <2>1, <2>2, KidsDoneMeans
<1>8. Ca!AllClosed
  <2>. SUFFICES ASSUME acts[1].pc = "done", NEW n \in Ca!Made, acts[n].open, ~acts[n].cloned PROVE FALSE
    BY <1>1 DEF Ca!AllClosed
  <2>. QED BY <1>1, AllAreClosed
<1>. QED BY <1>3, <1>4, <1>5, <1>6, <1>7, <1>8

\* Every LLM call is told to the client once, the main network's accounting has its own calls
\* only, a clone that ends late does not change the time, no agent tries more often than it
\* may, the last word is said once after all that was called has ended, and all is closed by
\* the end, for any number of activations, rounds and attempts (LangChainTokenCounter,
\* RunContextRunnable, CallingActivation).
THEOREM CallsAreAlwaysAccounted == Spec => []CallsAreAccounted
<1>. DEFINE Inv == part = "calls" => CallsInv
<1>1. Init => Inv
  BY CallsBegin DEF Init
<1>2. Inv /\ [Next]_ServiceVars => Inv'
  <2>. SUFFICES ASSUME Inv, [Next]_ServiceVars, part' = "calls" PROVE CallsInv'
    OBVIOUS
  <2>1. part = "calls" /\ CallsInv /\ [Ca!Next]_CaVars
    BY PartSteps
  <2>2. CASE UNCHANGED CaVars
    <3>1. UNCHANGED <<acts, accounting, told, llmCalls, rounds>>
      BY <2>2 DEF CaVars
    <3>. QED BY <2>1, <3>1 DEF CallsInv, AccountInv, Ca!EveryCallCountedOnce
  <2>. QED BY <2>1, <2>2, CallsStep
<1>3. Inv => CallsAreAccounted
  BY CallsFollow DEF CallsAreAccounted
<1>4. Spec => []Inv
  <2>. HIDE DEF Inv
  <2>. QED BY <1>1, <1>2, PTL DEF Spec
<1>. QED BY <1>3, <1>4, PTL
-----------------------------------------------------------------------------
-----------------------------------------------------------------------------
(* The messages of an agent: recursions over their sequences *)

\* k goes from b by the steps of Step.
GoesBy(k, m, b, Step) == k[0] = b /\ \A n \in 1..m : k[n] = Step[<<k[n - 1], n>>]

\* What is defined along a sequence exists, by a step that keeps the values in R.
LEMMA RecursionExists ==
  ASSUME NEW m \in Nat, NEW R, NEW b \in R, NEW Step, Step \in [R \X (1..m) -> R]
  PROVE  \E k \in [0..m -> R] : GoesBy(k, m, b, Step)
<1>. DEFINE IsPart(k, l) == k \in [0..l -> R] /\ k[0] = b /\ \A n \in 1..l : k[n] = Step[<<k[n - 1], n>>]
<1>. DEFINE Done == {l \in 0..m : \E k : IsPart(k, l)}
<1>1. 0 \in Done
  <2>. DEFINE k == [n \in 0..0 |-> b]
  <2>1. IsPart(k, 0)
    OBVIOUS
  <2>2. 0 \in 0..m
    OBVIOUS
  <2>. HIDE DEF k, IsPart
  <2>. QED BY <2>1, <2>2
<1>2. ASSUME NEW l \in 1..m, l - 1 \in Done PROVE l \in Done
  <2>1. PICK k : IsPart(k, l - 1)
    BY <1>2
  <2>2. k \in [0..(l - 1) -> R] /\ l \in Nat /\ l - 1 \in 0..(l - 1) /\ k[l - 1] \in R /\ l \in 0..m
    BY <2>1
  <2>3. Step[<<k[l - 1], l>>] \in R
    BY <2>2
  <2>. DEFINE x == Step[<<k[l - 1], l>>]
  <2>. DEFINE f == [n \in 0..l |-> IF n = l THEN x ELSE k[n]]
  <2>4. f \in [0..l -> R] /\ f[l] = x /\ \A n \in 0..(l - 1) : f[n] = k[n]
    <3>1. x \in R
      BY <2>3
    <3>. HIDE DEF x
    <3>. QED BY <2>2, <3>1
  <2>. HIDE DEF f
  <2>5. f[0] = b
    BY <2>1, <2>2, <2>4
  <2>6. ASSUME NEW n \in 1..l PROVE f[n] = Step[<<f[n - 1], n>>]
    <3>1. n - 1 \in 0..(l - 1)
      BY <2>2
    <3>2. f[n - 1] = k[n - 1]
      BY <2>4, <3>1
    <3>3. CASE n = l
      BY <2>4, <3>2, <3>3
    <3>4. CASE n # l
      <4>1. n \in 0..(l - 1) /\ n \in 1..(l - 1)
        BY <3>4, <2>2
      <4>. HIDE DEF x
      <4>. QED BY <2>1, <2>4, <3>2, <4>1
    <3>. QED BY <3>3, <3>4
  <2>7. IsPart(f, l)
    <3>. HIDE DEF x
    <3>. QED BY <2>4, <2>5, <2>6
  <2>. HIDE DEF IsPart
  <2>. QED BY <2>2, <2>7
<1>3. 0..m \subseteq Done
  <2>. HIDE DEF Done
  <2>. QED BY <1>1, <1>2, AllOfThem
<1>4. m \in 0..m
  OBVIOUS
<1>. QED BY <1>3, <1>4 DEF GoesBy

\* What is chosen of a sequence: all of it if all is, and nothing that is not.
LEMMA OnlyChooses ==
  ASSUME NEW S, NEW s \in Seq(S), NEW I
  PROVE  /\ Mf!Only(I, s) \in Seq(S)
         /\ DOMAIN s \subseteq I => Mf!Only(I, s) = s
         /\ \A j \in DOMAIN Mf!Only(I, s) : \E i \in DOMAIN s : i \in I /\ Mf!Only(I, s)[j] = s[i]
<1>. DEFINE m == Len(s)
<1>1. m \in Nat /\ DOMAIN s = 1..m /\ s \in [1..m -> S]
  OBVIOUS
<1>. DEFINE R == Seq(S)
<1>. DEFINE Step == [p \in R \X (1..m) |-> IF p[2] \in I THEN Append(p[1], s[p[2]]) ELSE p[1]]
<1>2. Step \in [R \X (1..m) -> R]
  OBVIOUS
<1>3. <<>> \in R
  OBVIOUS
<1>. DEFINE IsKept(k) == k = [n \in 0..m |-> IF n = 0 THEN <<>> ELSE IF n \in I THEN Append(k[n - 1], s[n]) ELSE k[n - 1]]
<1>4. \E k : IsKept(k)
  <2>1. PICK k \in [0..m -> R] : GoesBy(k, m, <<>>, Step)
    <3>1. m \in Nat
      BY <1>1
    <3>. HIDE DEF R, Step, m
    <3>. QED BY <1>2, <1>3, <3>1, RecursionExists
  <2>2. ASSUME NEW n \in 0..m, n # 0
        PROVE  k[n] = IF n \in I THEN Append(k[n - 1], s[n]) ELSE k[n - 1]
    <3>1. n - 1 \in 0..m /\ n \in 1..m
      BY <1>1, <2>2
    <3>2. k[n - 1] \in R
      BY <3>1
    <3>3. k[n] = Step[<<k[n - 1], n>>]
      <4>. HIDE DEF Step, R, m
      <4>. QED BY <2>1, <3>1 DEF GoesBy
    <3>. QED BY <3>1, <3>2, <3>3
  <2>3. IsKept(k)
    <3>1. k = [n \in 0..m |-> k[n]] /\ k[0] = <<>>
      BY <2>1 DEF GoesBy
    <3>. HIDE DEF Step, R
    <3>. QED BY <2>2, <3>1
  <2>. QED BY <2>3
<1>. DEFINE K == CHOOSE k : IsKept(k)
<1>5. Mf!Only(I, s) = K[m]
  BY DEF Mf!Only
<1>6. IsKept(K)
  <2>. HIDE DEF IsKept
  <2>. QED BY <1>4
<1>. DEFINE Comes(t, n) == \A j \in DOMAIN t : \E i \in 1..n : i \in I /\ t[j] = s[i]
<1>. DEFINE Good == {n \in 0..m : K[n] \in Seq(S) /\ Comes(K[n], n) /\ (1..m \subseteq I => K[n] = SubSeq(s, 1, n))}
<1>7. K[0] = <<>>
  <2>. HIDE DEF K
  <2>. QED BY <1>1, <1>6
<1>8. ASSUME NEW n \in 1..m PROVE K[n] = IF n \in I THEN Append(K[n - 1], s[n]) ELSE K[n - 1]
  <2>1. n \in 0..m /\ n # 0
    BY <1>1
  <2>. HIDE DEF K
  <2>. QED BY <1>6, <2>1
<1>. HIDE DEF K
<1>9. 0 \in Good
  <2>1. SubSeq(s, 1, 0) = <<>>
    BY <1>1
  <2>2. K[0] \in Seq(S) /\ Comes(K[0], 0)
    BY <1>7
  <2>3. 1..m \subseteq I => K[0] = SubSeq(s, 1, 0)
    BY <1>7, <2>1
  <2>4. 0 \in 0..m
    BY <1>1
  <2>. HIDE DEF Comes, m
  <2>. QED BY <2>2, <2>3, <2>4
<1>10. ASSUME NEW n \in 1..m, n - 1 \in Good PROVE n \in Good
  <2>1. n \in 0..m /\ n \in Nat /\ s[n] \in S /\ n - 1 \in Nat
    BY <1>1
  <2>2. K[n - 1] \in Seq(S) /\ Comes(K[n - 1], n - 1) /\ (1..m \subseteq I => K[n - 1] = SubSeq(s, 1, n - 1))
    BY <1>10
  <2>3. K[n] \in Seq(S)
    <3>1. CASE n \in I
      <4>1. K[n] = Append(K[n - 1], s[n])
        BY <1>8, <3>1
      <4>2. K[n - 1] \in Seq(S)
        BY <2>2
      <4>. QED BY <2>1, <4>1, <4>2
    <3>2. CASE n \notin I
      BY <1>8, <2>2, <3>2
    <3>. QED BY <3>1, <3>2
  <2>4. Comes(K[n], n)
    <3>1. ASSUME NEW j \in DOMAIN K[n] PROVE \E i \in 1..n : i \in I /\ K[n][j] = s[i]
      <4>1. CASE n \notin I
        <5>1. K[n] = K[n - 1]
          BY <1>8, <4>1
        <5>2. PICK i \in 1..(n - 1) : i \in I /\ K[n - 1][j] = s[i]
          BY <5>1, <2>2
        <5>. QED BY <5>1, <5>2, <2>1
      <4>2. CASE n \in I
        <5>1. K[n] = Append(K[n - 1], s[n])
          BY <1>8, <4>2
        <5>2. DOMAIN K[n] = 1..(Len(K[n - 1]) + 1) /\ Len(K[n - 1]) \in Nat /\ DOMAIN K[n - 1] = 1..Len(K[n - 1])
          BY <5>1, <2>1, <2>2
        <5>3. CASE j = Len(K[n - 1]) + 1
          BY <5>1, <5>2, <5>3, <4>2, <2>1, <2>2
        <5>4. CASE j # Len(K[n - 1]) + 1
          <6>1. j \in DOMAIN K[n - 1]
            BY <5>2, <5>4
          <6>2. K[n][j] = K[n - 1][j]
            BY <5>1, <6>1, <2>1, <2>2
          <6>3. PICK i \in 1..(n - 1) : i \in I /\ K[n - 1][j] = s[i]
            BY <6>1, <2>2
          <6>. QED BY <6>2, <6>3, <2>1
        <5>. QED BY <5>3, <5>4
      <4>. QED BY <4>1, <4>2
    <3>. QED BY <3>1
  <2>5. ASSUME 1..m \subseteq I PROVE K[n] = SubSeq(s, 1, n)
    <3>1. K[n] = Append(SubSeq(s, 1, n - 1), s[n])
      BY <1>8, <2>2, <2>5
    <3>2. SubSeq(s, 1, n) = Append(SubSeq(s, 1, n - 1), s[n])
      BY <1>1, <2>1
    <3>. QED BY <3>1, <3>2
  <2>. HIDE DEF Comes
  <2>. QED BY <2>1, <2>3, <2>4, <2>5
<1>11. 0..m \subseteq Good
  <2>. HIDE DEF Good
  <2>. QED BY <1>1, <1>9, <1>10, AllOfThem
<1>12. m \in Good
  <2>. HIDE DEF Good
  <2>. QED BY <1>1, <1>11
<1>13. SubSeq(s, 1, m) = s
  BY <1>1
<1>. QED BY <1>1, <1>5, <1>12, <1>13
-----------------------------------------------------------------------------
(* The messages of an agent: their types, and what is delivered of them *)

Phrases == [words : Mf!Words, block : BOOLEAN, escaped : BOOLEAN]
ShortMsg ==
  [type : Mf!MessageTypes, origin : Mf!Origins, text : Phrases, structure : Mf!Structures,
   context : {Mf!NoContext, Mf!EmptyContext}, result : Mf!Origins]
Contexts == [there : BOOLEAN, origin : Mf!Origins, messages : Seq(ShortMsg)]
AnyMsg ==
  [type : Mf!MessageTypes, origin : Mf!Origins, text : Phrases, structure : Mf!Structures,
   context : Contexts, result : Mf!Origins]

LEMMA WordsOfTheServer ==
  /\ {"null", "", "instructions", "redacted", "rest", "invoking", "received", "got", "retrying", "stopped"} \subseteq Mf!Words
  /\ FlowTools \subseteq Mf!Words
  /\ \A t \in UserTexts \cup Texts : t.words \in Mf!Words
  /\ Mf!Words \subseteq Mf!Structures
  /\ {"odd", "params", "tool_args", "tool_output", "main tokens", "all tokens"} \subseteq Mf!Structures
BY DEF Mf!Words, Mf!Structures

LEMMA PlainTypes ==
  /\ \A w \in Mf!Words : Mf!Plain(w) \in Phrases /\ Mf!Plain(w).words = w /\ ~Mf!Plain(w).block
  /\ Mf!NoText \in Phrases /\ Mf!NoText.words = "null"
  /\ \A w \in Mf!Words : w # "null" => Mf!Plain(w) # Mf!NoText
<1>1. \A w \in Mf!Words : Mf!Plain(w) \in Phrases /\ Mf!Plain(w).words = w /\ ~Mf!Plain(w).block
  BY DEF Mf!Plain, Mf!Text, Phrases
<1>2. Mf!NoText \in Phrases /\ Mf!NoText.words = "null"
  <2>1. "null" \in Mf!Words
    BY WordsOfTheServer
  <2>. QED BY <2>1 DEF Mf!NoText, Mf!Text, Phrases
<1>. QED BY <1>1, <1>2

LEMMA OriginTypes == <<>> \in Mf!Origins /\ Mf!FrontMan \in Mf!Origins /\ Len(Mf!FrontMan) = 1 /\ Mf!FrontMan # <<>>
<1>1. [tool |-> "front", index |-> 0] \in [tool : FlowTools \cup {"front"}, index : Nat]
  OBVIOUS
<1>. QED BY <1>1 DEF Mf!FrontMan, Mf!Origins

LEMMA ContextTypes ==
  /\ Mf!NoContext \in Contexts /\ ~Mf!NoContext.there
  /\ Mf!EmptyContext \in Contexts /\ Mf!EmptyContext.there
  /\ Mf!EmptyContext.origin = <<>> /\ Mf!EmptyContext.messages = <<>>
<1>1. <<>> \in Mf!Origins /\ <<>> \in Seq(ShortMsg)
  BY OriginTypes
<1>2. Mf!NoContext \in Contexts /\ ~Mf!NoContext.there /\ Mf!NoContext.origin = <<>> /\ Mf!NoContext.messages = <<>>
  BY <1>1 DEF Mf!NoContext, Contexts
<1>. DEFINE n == Mf!NoContext
<1>3. n \in Contexts /\ n.origin = <<>> /\ n.messages = <<>>
  BY <1>2
<1>. HIDE DEF n
<1>4. [n EXCEPT !.there = TRUE] \in Contexts
  BY <1>3 DEF Contexts
<1>5. [n EXCEPT !.there = TRUE].there /\ [n EXCEPT !.there = TRUE].origin = <<>>
      /\ [n EXCEPT !.there = TRUE].messages = <<>>
  BY <1>3 DEF Contexts
<1>6. Mf!EmptyContext = [n EXCEPT !.there = TRUE]
  BY DEF Mf!EmptyContext, n
<1>. QED BY <1>2, <1>4, <1>5, <1>6

LEMMA ShortIsAny == ShortMsg \subseteq AnyMsg
BY ContextTypes DEF ShortMsg, AnyMsg

LEMMA MessageIs ==
  ASSUME NEW y \in Mf!MessageTypes, NEW t \in Phrases
  PROVE  /\ Mf!Message(y, t) \in ShortMsg
         /\ Mf!Message(y, t).type = y /\ Mf!Message(y, t).text = t /\ Mf!Message(y, t).structure = "null"
         /\ Mf!Message(y, t).context = Mf!NoContext /\ Mf!Message(y, t).result = <<>>
         /\ Mf!Message(y, t).origin = <<>>
<1>1. "null" \in Mf!Structures /\ <<>> \in Mf!Origins
  BY OriginTypes, WordsOfTheServer
<1>. QED BY <1>1 DEF Mf!Message, ShortMsg

LEMMA AgentMessageIs ==
  ASSUME NEW t \in Phrases, NEW x \in Mf!Structures
  PROVE  /\ Mf!AgentMessage(t, x) \in ShortMsg
         /\ Mf!AgentMessage(t, x).type = "AGENT" /\ Mf!AgentMessage(t, x).text = t
         /\ Mf!AgentMessage(t, x) # Mf!NoMessage
<1>1. "AGENT" \in Mf!MessageTypes /\ "none" \in Mf!MessageTypes
  BY DEF Mf!MessageTypes
<1>. DEFINE m == Mf!Message("AGENT", t)
<1>2. m \in ShortMsg /\ m.type = "AGENT" /\ m.text = t
  BY <1>1, MessageIs
<1>3. Mf!NoMessage.type = "none"
  BY <1>1, MessageIs, PlainTypes DEF Mf!NoMessage
<1>. HIDE DEF m
<1>4. Mf!AgentMessage(t, x) = [m EXCEPT !.structure = x]
  BY DEF Mf!AgentMessage, m
<1>5. [m EXCEPT !.structure = x] \in ShortMsg /\ [m EXCEPT !.structure = x].type = "AGENT"
      /\ [m EXCEPT !.structure = x].text = t
  BY <1>2 DEF ShortMsg
<1>. QED BY <1>3, <1>4, <1>5

LEMMA ToolResultIs ==
  ASSUME NEW t \in Phrases, NEW o \in Mf!Origins
  PROVE  /\ Mf!ToolResult(t, o) \in ShortMsg
         /\ Mf!ToolResult(t, o).type = "AGENT_TOOL_RESULT" /\ Mf!ToolResult(t, o).text = t
         /\ Mf!ToolResult(t, o).result = o
<1>1. "AGENT_TOOL_RESULT" \in Mf!MessageTypes
  BY DEF Mf!MessageTypes
<1>. DEFINE m == Mf!Message("AGENT_TOOL_RESULT", t)
<1>2. m \in ShortMsg /\ m.type = "AGENT_TOOL_RESULT" /\ m.text = t
  BY <1>1, MessageIs
<1>. HIDE DEF m
<1>3. Mf!ToolResult(t, o) = [m EXCEPT !.result = o]
  BY DEF Mf!ToolResult, m
<1>. QED BY <1>2, <1>3 DEF ShortMsg

LEMMA FrameworkMessageIs ==
  ASSUME NEW t \in Phrases
  PROVE  /\ Mf!FrameworkMessage(t) \in ShortMsg
         /\ Mf!FrameworkMessage(t).type = "AGENT_FRAMEWORK" /\ Mf!FrameworkMessage(t).text = t
         /\ Mf!FrameworkMessage(t).context = Mf!EmptyContext /\ Mf!FrameworkMessage(t).structure = "null"
         /\ Mf!FrameworkMessage(t).origin = <<>>
<1>1. "AGENT_FRAMEWORK" \in Mf!MessageTypes
  BY DEF Mf!MessageTypes
<1>. DEFINE m == Mf!Message("AGENT_FRAMEWORK", t)
<1>2. m \in ShortMsg /\ m.type = "AGENT_FRAMEWORK" /\ m.text = t /\ m.structure = "null" /\ m.origin = <<>>
  BY <1>1, MessageIs
<1>. HIDE DEF m
<1>3. Mf!FrameworkMessage(t) = [m EXCEPT !.context = Mf!EmptyContext]
  BY DEF Mf!FrameworkMessage, m
<1>. QED BY <1>2, <1>3 DEF ShortMsg

\* What a parser finds in a text.
LEMMA ParseIs ==
  ASSUME NEW f, NEW t \in Phrases
  PROVE  /\ Mf!ParseStructure(f, t).structure \in Mf!Structures /\ Mf!ParseStructure(f, t).remainder \in Phrases
         /\ ~t.block => Mf!ParseStructure(f, t) = [structure |-> "null", remainder |-> t]
         /\ t.words # "null" /\ Mf!ParseStructure(f, t).structure = "null" => Mf!ParseStructure(f, t).remainder = t
         /\ t # Mf!NoText => Mf!ParseStructure(f, t).remainder # Mf!NoText
<1>1. {"null", "odd", t.words} \subseteq Mf!Structures /\ "rest" \in Mf!Words
  <2>1. t.words \in Mf!Words
    BY DEF Phrases
  <2>. QED BY <2>1, WordsOfTheServer
<1>2. Mf!Plain("rest") \in Phrases /\ Mf!Plain("rest") # Mf!NoText
  BY <1>1, PlainTypes
<1>3. CASE "json" \in Mf!Range(f) /\ t.block
  <2>1. Mf!ParseStructure(f, t) = [structure |-> IF t.escaped THEN "odd" ELSE t.words, remainder |-> Mf!Plain("rest")]
    BY <1>3 DEF Mf!ParseStructure, Mf!ParseJson
  <2>. QED BY <1>1, <1>2, <1>3, <2>1
<1>4. CASE ~("json" \in Mf!Range(f) /\ t.block)
  <2>1. Mf!ParseStructure(f, t) = [structure |-> "null", remainder |-> t]
    BY <1>4 DEF Mf!ParseStructure, Mf!ParseJson
  <2>. QED BY <1>1, <2>1
<1>. QED BY <1>3, <1>4

\* d is what is delivered of m under the origin o.
IsDelivered(d, o, m) ==
  /\ d \in AnyMsg /\ d.type = m.type /\ d.origin = o /\ d.context = m.context /\ d.result = m.result
  /\ m.type # "AGENT_FRAMEWORK" \/ ~m.text.block \/ m.structure # "null" => d.text = m.text /\ d.structure = m.structure

LEMMA AddStructureIs ==
  ASSUME NEW f, NEW m \in AnyMsg, NEW o \in Mf!Origins
  PROVE  /\ [m EXCEPT !.origin = o] \in AnyMsg
         /\ Mf!HasContext([m EXCEPT !.origin = o]) <=> Mf!HasContext(m)
         /\ IsDelivered(Mf!AddStructure(f, [m EXCEPT !.origin = o]), o, m)
<1>. DEFINE e == [m EXCEPT !.origin = o]
<1>1. e \in AnyMsg /\ e.type = m.type /\ e.origin = o /\ e.text = m.text /\ e.structure = m.structure
      /\ e.context = m.context /\ e.result = m.result
  BY DEF AnyMsg
<1>2. Mf!HasContext(e) <=> Mf!HasContext(m)
  BY <1>1 DEF Mf!HasContext
<1>. HIDE DEF e
<1>. DEFINE p == Mf!ParseStructure(f, e.text)
<1>3. p.structure \in Mf!Structures /\ p.remainder \in Phrases
  BY <1>1, ParseIs DEF AnyMsg
<1>4. ~m.text.block => p.structure = "null"
  <2>1. e.text \in Phrases /\ e.text = m.text
    BY <1>1 DEF AnyMsg
  <2>. QED BY <2>1, ParseIs
<1>5. Mf!AddStructure(f, e) =
        IF m.type # "AGENT_FRAMEWORK" \/ m.structure # "null" \/ p.structure = "null" THEN e
        ELSE [e EXCEPT !.text = p.remainder, !.structure = p.structure]
  BY <1>1 DEF Mf!AddStructure
<1>. HIDE DEF p
<1>. DEFINE g == [e EXCEPT !.text = p.remainder, !.structure = p.structure]
<1>6. g \in AnyMsg /\ g.type = m.type /\ g.origin = o /\ g.context = m.context /\ g.result = m.result
  BY <1>1, <1>3 DEF AnyMsg
<1>. HIDE DEF g
<1>7. IsDelivered(Mf!AddStructure(f, e), o, m)
  <2>1. CASE m.type # "AGENT_FRAMEWORK" \/ m.structure # "null" \/ p.structure = "null"
    BY <1>1, <1>5, <2>1 DEF IsDelivered
  <2>2. CASE ~(m.type # "AGENT_FRAMEWORK" \/ m.structure # "null" \/ p.structure = "null")
    <3>1. Mf!AddStructure(f, e) = g
      BY <1>5, <2>2 DEF g
    <3>. QED BY <1>4, <1>6, <2>2, <3>1 DEF IsDelivered
  <2>. QED BY <2>1, <2>2
<1>. QED BY <1>1, <1>2, <1>7 DEF e

MaxFilter == Mf!FilterFor(flowConfig.filter) = "MAXIMAL"

\* All of what is written is delivered to who wants everything, and what is
\* delivered to others has a chat context.
LEMMA DeliveredIs ==
  ASSUME NEW o \in Mf!Origins, NEW ms \in Seq(AnyMsg)
  PROVE  /\ Mf!Delivered(o, ms) \in Seq(AnyMsg)
         /\ \A j \in DOMAIN Mf!Delivered(o, ms) :
              /\ Mf!Allows(flowConfig.filter, Mf!Delivered(o, ms)[j])
              /\ \E i \in DOMAIN ms : IsDelivered(Mf!Delivered(o, ms)[j], o, ms[i])
         /\ MaxFilter => /\ Len(Mf!Delivered(o, ms)) = Len(ms)
                         /\ \A i \in DOMAIN ms : IsDelivered(Mf!Delivered(o, ms)[i], o, ms[i])
<1>. DEFINE all == [i \in DOMAIN ms |-> [ms[i] EXCEPT !.origin = o]]
<1>. DEFINE I == {i \in DOMAIN all : Mf!Allows(flowConfig.filter, all[i])}
<1>. DEFINE sent == Mf!Only(I, all)
<1>. DEFINE f == flowConfig.formats
<1>1. Mf!Delivered(o, ms) = [i \in DOMAIN sent |-> Mf!AddStructure(f, sent[i])]
  BY DEF Mf!Delivered, Mf!ToDict
<1>2. DOMAIN ms = 1..Len(ms) /\ Len(ms) \in Nat /\ \A i \in DOMAIN ms : ms[i] \in AnyMsg
  OBVIOUS
<1>3. DOMAIN all = DOMAIN ms /\ \A i \in DOMAIN ms : all[i] = [ms[i] EXCEPT !.origin = o] /\ all[i] \in AnyMsg
  <2>1. \A i \in DOMAIN ms : [ms[i] EXCEPT !.origin = o] \in AnyMsg
    BY <1>2, AddStructureIs
  <2>. QED BY <2>1
<1>. HIDE DEF all
<1>4. all \in Seq(AnyMsg) /\ Len(all) = Len(ms)
  <2>1. all = [i \in 1..Len(ms) |-> all[i]]
    BY <1>2, <1>3 DEF all
  <2>2. \A i \in 1..Len(ms) : all[i] \in AnyMsg
    BY <1>2, <1>3
  <2>. QED BY <1>2, <2>1, <2>2
<1>5. /\ sent \in Seq(AnyMsg)
      /\ DOMAIN all \subseteq I => sent = all
      /\ \A j \in DOMAIN sent : \E i \in DOMAIN all : i \in I /\ sent[j] = all[i]
  <2>. HIDE DEF I
  <2>. QED BY <1>4, OnlyChooses
<1>. HIDE DEF sent
<1>6. ASSUME NEW i \in DOMAIN ms
      PROVE  IsDelivered(Mf!AddStructure(f, all[i]), o, ms[i]) /\ (Mf!HasContext(all[i]) <=> Mf!HasContext(ms[i]))
  <2>. HIDE DEF f
  <2>. QED BY <1>2, <1>3, AddStructureIs
<1>7. DOMAIN sent = 1..Len(sent) /\ Len(sent) \in Nat
  BY <1>5
<1>. DEFINE D == [i \in DOMAIN sent |-> Mf!AddStructure(f, sent[i])]
<1>8. ASSUME NEW j \in DOMAIN sent
      PROVE  /\ D[j] \in AnyMsg /\ Mf!Allows(flowConfig.filter, D[j])
             /\ \E i \in DOMAIN ms : IsDelivered(D[j], o, ms[i])
  <2>1. PICK i \in DOMAIN all : i \in I /\ sent[j] = all[i]
    <3>. HIDE DEF I
    <3>. QED BY <1>5
  <2>2. i \in DOMAIN ms /\ D[j] = Mf!AddStructure(f, all[i]) /\ Mf!Allows(flowConfig.filter, all[i])
    BY <1>3, <2>1
  <2>. HIDE DEF D
  <2>3. IsDelivered(D[j], o, ms[i])
    <3>. HIDE DEF f
    <3>. QED BY <1>6, <2>2
  <2>4. Mf!HasContext(D[j]) <=> Mf!HasContext(all[i])
    <3>1. D[j].type = ms[i].type /\ D[j].context = ms[i].context
      BY <2>3 DEF IsDelivered
    <3>2. Mf!HasContext(D[j]) <=> Mf!HasContext(ms[i])
      BY <3>1 DEF Mf!HasContext
    <3>. QED BY <1>6, <2>2, <3>2
  <2>5. Mf!Allows(flowConfig.filter, D[j])
    BY <2>2, <2>4 DEF Mf!Allows
  <2>. QED BY <2>2, <2>3, <2>5 DEF IsDelivered
<1>9. DOMAIN D = DOMAIN sent
  OBVIOUS
<1>10. D \in Seq(AnyMsg) /\ Len(D) = Len(sent)
  <2>. HIDE DEF D
  <2>1. \A j \in 1..Len(sent) : D[j] \in AnyMsg
    BY <1>7, <1>8
  <2>2. D = [j \in 1..Len(sent) |-> D[j]]
    BY <1>7, <1>9 DEF D
  <2>. QED BY <1>7, <2>1, <2>2
<1>11. ASSUME MaxFilter PROVE Len(D) = Len(ms) /\ \A i \in DOMAIN ms : IsDelivered(D[i], o, ms[i])
  <2>1. I = DOMAIN all
    BY <1>11 DEF MaxFilter, Mf!Allows
  <2>2. sent = all
    <3>. HIDE DEF I
    <3>. QED BY <1>5, <2>1
  <2>3. \A i \in DOMAIN ms : D[i] = Mf!AddStructure(f, all[i])
    BY <1>3, <2>2
  <2>. HIDE DEF D, f
  <2>. QED BY <1>4, <1>6, <1>10, <2>2, <2>3
<1>12. Mf!Delivered(o, ms) = D
  BY <1>1
<1>. HIDE DEF D
<1>. QED BY <1>8, <1>9, <1>10, <1>11, <1>12
-----------------------------------------------------------------------------
(* The messages of an agent: the answer *)

Knowns == [answer : Phrases, structure : Mf!Structures, context : Contexts, tokens : Mf!Structures]

LEMMA NothingKnown == Mf!NoAnswer \in Knowns
BY PlainTypes, ContextTypes, WordsOfTheServer DEF Mf!NoAnswer, Knowns

LEMMA ReceiveAnswerIs ==
  ASSUME NEW f, NEW k \in Knowns, NEW m \in AnyMsg
  PROVE  /\ Mf!ReceiveAnswer(f, k, m) \in Knowns
         /\ Mf!IsAnswer(m) /\ m.structure = "null" /\ m.text # Mf!NoText =>
              /\ Mf!ReceiveAnswer(f, k, m).answer = Mf!ParseStructure(f, m.text).remainder
              /\ Mf!ReceiveAnswer(f, k, m).structure = Mf!ParseStructure(f, m.text).structure
         /\ Mf!IsAnswer(m) /\ m.structure # "null" /\ m.text # Mf!NoText =>
              Mf!ReceiveAnswer(f, k, m).answer = m.text /\ Mf!ReceiveAnswer(f, k, m).structure = m.structure
<1>. DEFINE p == Mf!ParseStructure(f, m.text)
<1>. DEFINE x == IF m.text # Mf!NoText THEN m.text ELSE k.answer
<1>. DEFINE y == IF m.structure # "null" THEN m.structure ELSE k.structure
<1>. DEFINE z == [k EXCEPT !.answer = x, !.structure = y]
<1>1. p.structure \in Mf!Structures /\ p.remainder \in Phrases
  <2>1. m.text \in Phrases
    BY DEF AnyMsg
  <2>. QED BY <2>1, ParseIs
<1>2. x \in Phrases /\ y \in Mf!Structures
  BY DEF Knowns, AnyMsg
<1>3. Mf!ReceiveAnswer(f, k, m) =
        IF ~Mf!IsAnswer(m) THEN k
        ELSE IF m.structure # "null" \/ m.text = Mf!NoText THEN z
        ELSE [z EXCEPT !.structure = p.structure, !.answer = p.remainder]
  BY DEF Mf!ReceiveAnswer
<1>. HIDE DEF p
<1>4. m.text # Mf!NoText => x = m.text
  OBVIOUS
<1>5. m.structure # "null" => y = m.structure
  OBVIOUS
<1>. HIDE DEF x, y
<1>6. z \in Knowns /\ z.answer = x /\ z.structure = y
  BY <1>2 DEF Knowns
<1>. HIDE DEF z
<1>. DEFINE w == [z EXCEPT !.structure = p.structure, !.answer = p.remainder]
<1>7. w \in Knowns /\ w.structure = p.structure /\ w.answer = p.remainder
  BY <1>1, <1>6 DEF Knowns
<1>. HIDE DEF w
<1>8. CASE ~Mf!IsAnswer(m)
  BY <1>3, <1>8
<1>9. CASE Mf!IsAnswer(m) /\ (m.structure # "null" \/ m.text = Mf!NoText)
  BY <1>3, <1>4, <1>5, <1>6, <1>9
<1>10. CASE Mf!IsAnswer(m) /\ m.structure = "null" /\ m.text # Mf!NoText
  <2>1. Mf!ReceiveAnswer(f, k, m) = w
    BY <1>3, <1>10 DEF w
  <2>. QED BY <1>7, <1>10, <2>1 DEF p
<1>. QED BY <1>8, <1>9, <1>10

LEMMA ReceiveIs ==
  ASSUME NEW k \in Knowns, NEW m \in AnyMsg
  PROVE  /\ Mf!Receive(k, m) \in Knowns
         /\ Mf!Receive(k, m).answer = Mf!ReceiveAnswer(<<>>, k, m).answer
         /\ Mf!Receive(k, m).structure = Mf!ReceiveAnswer(<<>>, k, m).structure
         /\ Mf!HasContext(m) => Mf!Receive(k, m).context = m.context
<1>. DEFINE a == Mf!ReceiveAnswer(<<>>, k, m)
<1>1. a \in Knowns
  BY ReceiveAnswerIs
<1>2. Mf!Receive(k, m) = Mf!ReceiveTokens(Mf!ReceiveContext(a, m), m)
  BY DEF Mf!Receive
<1>. HIDE DEF a
<1>. DEFINE b == Mf!ReceiveContext(a, m)
<1>3. b \in Knowns /\ b.answer = a.answer /\ b.structure = a.structure /\ (Mf!HasContext(m) => b.context = m.context)
  <2>1. m.context \in Contexts
    BY DEF AnyMsg
  <2>. QED BY <1>1, <2>1 DEF Mf!ReceiveContext, Knowns
<1>. HIDE DEF b
<1>4. Mf!ReceiveTokens(b, m) \in Knowns /\ Mf!ReceiveTokens(b, m).answer = b.answer
      /\ Mf!ReceiveTokens(b, m).structure = b.structure /\ Mf!ReceiveTokens(b, m).context = b.context
  <2>1. m.structure \in Mf!Structures
    BY DEF AnyMsg
  <2>. QED BY <1>3, <2>1 DEF Mf!ReceiveTokens, Knowns
<1>. QED BY <1>2, <1>3, <1>4 DEF a, b

KeepsGoing(k, m, b, Step, R) == k[0] = b /\ \A n \in 1..m : k[n - 1] \in R => k[n] = Step[<<k[n - 1], n>>]

\* What is defined along a sequence by a step that keeps the values in R ends in R,
\* with the last step.
LEMMA RecursionEnds ==
  ASSUME NEW m \in Nat \ {0}, NEW R, NEW b \in R, NEW Step, Step \in [R \X (1..m) -> R], NEW K,
         KeepsGoing(K, m, b, Step, R)
  PROVE  K[m - 1] \in R
<1>. DEFINE Good == {n \in 0..m : K[n] \in R}
<1>1. 0 \in Good
  BY DEF KeepsGoing
<1>2. ASSUME NEW n \in 1..m, n - 1 \in Good PROVE n \in Good
  <2>1. K[n] = Step[<<K[n - 1], n>>] /\ <<K[n - 1], n>> \in R \X (1..m)
    BY <1>2 DEF KeepsGoing
  <2>. QED BY <2>1
<1>3. 0..m \subseteq Good
  <2>. HIDE DEF Good
  <2>. QED BY <1>1, <1>2, AllOfThem
<1>. QED BY <1>3

LEMMA ConclusionIs ==
  ASSUME NEW f, NEW ms \in Seq(AnyMsg), ms # <<>>
  PROVE  \E k \in Knowns : Mf!Conclusion(f, ms) = Mf!ReceiveAnswer(f, k, ms[Len(ms)])
<1>. DEFINE m == Len(ms)
<1>. DEFINE b == Mf!NoAnswer
<1>. DEFINE Step == [p \in Knowns \X (1..m) |-> Mf!ReceiveAnswer(f, p[1], ms[p[2]])]
<1>. DEFINE IsKnown(k) == k = [n \in 0..m |-> IF n = 0 THEN b ELSE Mf!ReceiveAnswer(f, k[n - 1], ms[n])]
<1>. DEFINE K == CHOOSE k : IsKnown(k)
<1>1. m \in Nat \ {0} /\ \A i \in 1..m : ms[i] \in AnyMsg
  OBVIOUS
<1>2. b \in Knowns
  BY NothingKnown
<1>3. Mf!Conclusion(f, ms) = K[m]
  BY DEF Mf!Conclusion
<1>. HIDE DEF m, b
<1>4. Step \in [Knowns \X (1..m) -> Knowns]
  <2>1. \A p \in Knowns \X (1..m) : Mf!ReceiveAnswer(f, p[1], ms[p[2]]) \in Knowns
    <3>1. \A p \in Knowns \X (1..m) : p[1] \in Knowns /\ ms[p[2]] \in AnyMsg
      BY <1>1
    <3>. QED BY <3>1, ReceiveAnswerIs
  <2>. QED BY <2>1
<1>5. \A k, n : k \in Knowns /\ n \in 1..m => Step[<<k, n>>] = Mf!ReceiveAnswer(f, k, ms[n])
  OBVIOUS
<1>. HIDE DEF Step
<1>6. \E k : IsKnown(k)
  <2>1. PICK k \in [0..m -> Knowns] : GoesBy(k, m, b, Step)
    BY <1>1, <1>2, <1>4, RecursionExists
  <2>2. ASSUME NEW n \in 0..m, n # 0 PROVE k[n] = Mf!ReceiveAnswer(f, k[n - 1], ms[n])
    <3>1. n - 1 \in 0..m /\ n \in 1..m
      BY <1>1, <2>2
    <3>2. k[n - 1] \in Knowns /\ k[n] = Step[<<k[n - 1], n>>]
      BY <2>1, <3>1 DEF GoesBy
    <3>. QED BY <1>5, <3>1, <3>2
  <2>3. k = [n \in 0..m |-> k[n]] /\ k[0] = b
    BY <2>1 DEF GoesBy
  <2>4. IsKnown(k)
    BY <2>2, <2>3
  <2>. HIDE DEF IsKnown
  <2>. QED BY <2>4
<1>7. IsKnown(K)
  <2>. HIDE DEF IsKnown
  <2>. QED BY <1>6
<1>. HIDE DEF K
<1>8. K[0] = b
  BY <1>1, <1>7
<1>9. ASSUME NEW n \in 1..m PROVE K[n] = Mf!ReceiveAnswer(f, K[n - 1], ms[n])
  <2>1. n \in 0..m /\ n # 0
    BY <1>1
  <2>. QED BY <1>7, <2>1
<1>10. K[m - 1] \in Knowns
  <2>1. \A n \in 1..m : K[n - 1] \in Knowns => K[n] = Step[<<K[n - 1], n>>]
    BY <1>5, <1>9
  <2>2. KeepsGoing(K, m, b, Step, Knowns)
    BY <1>8, <2>1 DEF KeepsGoing
  <2>. QED BY <1>1, <1>2, <1>4, <2>2, RecursionEnds
<1>11. K[m] = Mf!ReceiveAnswer(f, K[m - 1], ms[m])
  BY <1>1, <1>9
<1>. QED BY <1>3, <1>10, <1>11 DEF m

LEMMA ClientIs ==
  ASSUME NEW ms \in Seq(AnyMsg), ms # <<>>
  PROVE  \E k \in Knowns : Mf!Client(ms) = Mf!Receive(k, ms[Len(ms)])
<1>. DEFINE m == Len(ms)
<1>. DEFINE b == Mf!NoAnswer
<1>. DEFINE Step == [p \in Knowns \X (1..m) |-> Mf!Receive(p[1], ms[p[2]])]
<1>. DEFINE IsKnown(k) == k = [n \in 0..m |-> IF n = 0 THEN b ELSE Mf!Receive(k[n - 1], ms[n])]
<1>. DEFINE K == CHOOSE k : IsKnown(k)
<1>1. m \in Nat \ {0} /\ \A i \in 1..m : ms[i] \in AnyMsg
  OBVIOUS
<1>2. b \in Knowns
  BY NothingKnown
<1>3. Mf!Client(ms) = K[m]
  BY DEF Mf!Client
<1>. HIDE DEF m, b
<1>4. Step \in [Knowns \X (1..m) -> Knowns]
  <2>1. \A p \in Knowns \X (1..m) : Mf!Receive(p[1], ms[p[2]]) \in Knowns
    <3>1. \A p \in Knowns \X (1..m) : p[1] \in Knowns /\ ms[p[2]] \in AnyMsg
      BY <1>1
    <3>. QED BY <3>1, ReceiveIs
  <2>. QED BY <2>1
<1>5. \A k, n : k \in Knowns /\ n \in 1..m => Step[<<k, n>>] = Mf!Receive(k, ms[n])
  OBVIOUS
<1>. HIDE DEF Step
<1>6. \E k : IsKnown(k)
  <2>1. PICK k \in [0..m -> Knowns] : GoesBy(k, m, b, Step)
    BY <1>1, <1>2, <1>4, RecursionExists
  <2>2. ASSUME NEW n \in 0..m, n # 0 PROVE k[n] = Mf!Receive(k[n - 1], ms[n])
    <3>1. n - 1 \in 0..m /\ n \in 1..m
      BY <1>1, <2>2
    <3>2. k[n - 1] \in Knowns /\ k[n] = Step[<<k[n - 1], n>>]
      BY <2>1, <3>1 DEF GoesBy
    <3>. QED BY <1>5, <3>1, <3>2
  <2>3. k = [n \in 0..m |-> k[n]] /\ k[0] = b
    BY <2>1 DEF GoesBy
  <2>4. IsKnown(k)
    BY <2>2, <2>3
  <2>. HIDE DEF IsKnown
  <2>. QED BY <2>4
<1>7. IsKnown(K)
  <2>. HIDE DEF IsKnown
  <2>. QED BY <1>6
<1>. HIDE DEF K
<1>8. K[0] = b
  BY <1>1, <1>7
<1>9. ASSUME NEW n \in 1..m PROVE K[n] = Mf!Receive(K[n - 1], ms[n])
  <2>1. n \in 0..m /\ n # 0
    BY <1>1
  <2>. QED BY <1>7, <2>1
<1>10. K[m - 1] \in Knowns
  <2>1. \A n \in 1..m : K[n - 1] \in Knowns => K[n] = Step[<<K[n - 1], n>>]
    BY <1>5, <1>9
  <2>2. KeepsGoing(K, m, b, Step, Knowns)
    BY <1>8, <2>1 DEF KeepsGoing
  <2>. QED BY <1>1, <1>2, <1>4, <2>2, RecursionEnds
<1>11. K[m] = Mf!Receive(K[m - 1], ms[m])
  BY <1>1, <1>9
<1>. QED BY <1>3, <1>10, <1>11 DEF m
-----------------------------------------------------------------------------
(* The messages of an agent: what comes back of a chat context *)

\* What an agent remembers, and what is the same but for the braces and the origin.
Remembered == {m \in ShortMsg : m.type \in {"HUMAN", "AI"} /\ m.structure = "null" /\ m.text # Mf!NoText}
Like(a, b) == a.type = b.type /\ a.text.words = b.text.words

\* b is all of a, or its first message and the last ones up to the limit.
KeepsLast(limit, a, b) ==
  \/ Len(b) = Len(a) /\ \A i \in 1..Len(a) : Like(b[i], a[i])
  \/ /\ limit > 1 /\ Len(a) > limit + 1 /\ Len(b) = limit + 1
     /\ \A i \in 0..(limit - 1) : Like(b[Len(b) - i], a[Len(a) - i])

LEMMA RememberedEdits ==
  ASSUME NEW m \in Remembered, NEW o \in Mf!Origins
  PROVE  /\ [m EXCEPT !.origin = o] \in Remembered /\ [m EXCEPT !.origin = o].type = m.type
         /\ [m EXCEPT !.origin = o].text = m.text /\ [m EXCEPT !.origin = o].origin = o
         /\ [m EXCEPT !.text = Mf!Escape(m.text)] \in Remembered
         /\ [m EXCEPT !.text = Mf!Escape(m.text)].type = m.type
         /\ [m EXCEPT !.text = Mf!Escape(m.text)].text.words = m.text.words
<1>1. m \in ShortMsg /\ m.text \in Phrases /\ m.type \in {"HUMAN", "AI"} /\ m.structure = "null" /\ m.text # Mf!NoText
  BY DEF Remembered, ShortMsg
<1>2. [m EXCEPT !.origin = o] \in ShortMsg /\ [m EXCEPT !.origin = o].type = m.type
      /\ [m EXCEPT !.origin = o].text = m.text /\ [m EXCEPT !.origin = o].structure = m.structure
      /\ [m EXCEPT !.origin = o].origin = o
  BY <1>1 DEF ShortMsg
<1>. DEFINE t == m.text
<1>. DEFINE e == [t EXCEPT !.escaped = @ \/ t.block]
<1>3. t.escaped \in BOOLEAN /\ t.block \in BOOLEAN /\ t \in Phrases
  BY <1>1 DEF Phrases
<1>4. e \in Phrases /\ e.words = t.words /\ e.block = t.block /\ (e.escaped <=> (t.escaped \/ t.block))
  <2>. HIDE DEF t
  <2>. QED BY <1>3 DEF Phrases
<1>5. e # Mf!NoText
  <2>. HIDE DEF e, t
  <2>1. SUFFICES ASSUME e = Mf!NoText PROVE t = Mf!NoText
    BY <1>1 DEF t
  <2>2. Mf!NoText = [words |-> "null", block |-> FALSE, escaped |-> FALSE]
    BY DEF Mf!NoText, Mf!Text
  <2>3. e.words = "null" /\ ~e.block /\ ~e.escaped
    BY <2>1, <2>2
  <2>4. t.words = "null" /\ ~t.block /\ ~t.escaped
    BY <1>4, <2>3
  <2>5. t = [words |-> t.words, block |-> t.block, escaped |-> t.escaped]
    BY <1>3 DEF Phrases
  <2>6. t.block = FALSE /\ t.escaped = FALSE
    BY <1>3, <2>4
  <2>. QED BY <2>2, <2>4, <2>5, <2>6
<1>6. Mf!Escape(m.text) = e
  BY DEF Mf!Escape
<1>. HIDE DEF e
<1>7. [m EXCEPT !.text = e] \in ShortMsg /\ [m EXCEPT !.text = e].type = m.type
      /\ [m EXCEPT !.text = e].text = e /\ [m EXCEPT !.text = e].structure = m.structure
  BY <1>1, <1>4 DEF ShortMsg
<1>. QED BY <1>1, <1>2, <1>4, <1>5, <1>6, <1>7 DEF Remembered, t

LEMMA ToDictIs ==
  ASSUME NEW h \in Seq(Remembered), NEW o \in Mf!Origins
  PROVE  /\ Mf!ToDict(o, h) \in Seq(Remembered) /\ Len(Mf!ToDict(o, h)) = Len(h)
         /\ \A i \in 1..Len(h) : /\ Mf!ToDict(o, h)[i].type = h[i].type /\ Mf!ToDict(o, h)[i].text = h[i].text
                                 /\ Mf!ToDict(o, h)[i].origin = o
<1>. DEFINE d == [i \in 1..Len(h) |-> [h[i] EXCEPT !.origin = o]]
<1>1. Len(h) \in Nat /\ DOMAIN h = 1..Len(h) /\ \A i \in 1..Len(h) : h[i] \in Remembered
  OBVIOUS
<1>2. \A i \in 1..Len(h) : d[i] \in Remembered /\ d[i].type = h[i].type /\ d[i].text = h[i].text /\ d[i].origin = o
  BY <1>1, RememberedEdits
<1>3. d = [i \in 1..Len(h) |-> d[i]]
  OBVIOUS
<1>4. Mf!ToDict(o, h) = d
  BY <1>1 DEF Mf!ToDict
<1>. HIDE DEF d
<1>5. d \in Seq(Remembered) /\ Len(d) = Len(h)
  BY <1>1, <1>2, <1>3
<1>. QED BY <1>2, <1>4, <1>5

LEMMA ToHistoryIs ==
  ASSUME NEW h \in Seq(Remembered)
  PROVE  /\ Mf!ToHistory(h) \in Seq(Remembered) /\ Len(Mf!ToHistory(h)) = Len(h)
         /\ \A i \in 1..Len(h) : Like(Mf!ToHistory(h)[i], h[i])
<1>. DEFINE I == {i \in DOMAIN h : h[i].type \in {"HUMAN", "SYSTEM", "AI"}}
<1>1. Len(h) \in Nat /\ DOMAIN h = 1..Len(h) /\ \A i \in 1..Len(h) : h[i] \in Remembered /\ h[i].type \in {"HUMAN", "AI"}
  BY DEF Remembered
<1>2. I = DOMAIN h
  BY <1>1
<1>. HIDE DEF I
<1>3. Mf!Only(I, h) = h
  BY <1>2, OnlyChooses
<1>. DEFINE r == [i \in DOMAIN h |-> [h[i] EXCEPT !.text = Mf!Escape(h[i].text)]]
<1>. DEFINE IsFirst(i) == h[i].type = "SYSTEM" /\ \A j \in 1..(i - 1) : h[j].type # "SYSTEM"
<1>. DEFINE q == [i \in DOMAIN h |-> [h[i] EXCEPT !.text = IF IsFirst(i) THEN Mf!Plain("redacted") ELSE Mf!Escape(@)]]
<1>4. \A i \in DOMAIN h : ~IsFirst(i)
  BY <1>1
<1>5. q = r
  <2>. HIDE DEF IsFirst
  <2>. QED BY <1>4
<1>6. ASSUME NEW i \in 1..Len(h) PROVE r[i] \in Remembered /\ Like(r[i], h[i])
  <2>. DEFINE m == h[i]
  <2>1. r[i] = [m EXCEPT !.text = Mf!Escape(m.text)] /\ m \in Remembered
    BY <1>1
  <2>. HIDE DEF m, r
  <2>2. [m EXCEPT !.text = Mf!Escape(m.text)] \in Remembered /\ [m EXCEPT !.text = Mf!Escape(m.text)].type = m.type
        /\ [m EXCEPT !.text = Mf!Escape(m.text)].text.words = m.text.words
    BY <2>1, OriginTypes, RememberedEdits
  <2>. QED BY <2>1, <2>2 DEF Like, m
<1>7. r = [i \in 1..Len(h) |-> r[i]] /\ DOMAIN r = 1..Len(h)
  BY <1>1
<1>. DEFINE J == {i \in DOMAIN q : q[i].text # Mf!NoText}
<1>8. Mf!ToHistory(h) = Mf!Only(J, q)
  BY <1>3 DEF Mf!ToHistory, I
<1>. HIDE DEF r, q
<1>9. r \in Seq(Remembered) /\ Len(r) = Len(h)
  BY <1>1, <1>6, <1>7
<1>10. J = DOMAIN r
  BY <1>5, <1>6, <1>7 DEF Remembered
<1>. HIDE DEF J
<1>11. Mf!Only(J, q) = r
  BY <1>5, <1>9, <1>10, OnlyChooses
<1>. QED BY <1>6, <1>8, <1>9, <1>11

LEMMA LimitIs ==
  ASSUME NEW S, NEW h \in Seq(S), h # <<>>, NEW n \in Int
  PROVE  /\ Mf!Limit(n, h) \in Seq(S)
         /\ n > 1 => Len(Mf!Limit(n, h)) <= n + 1
         /\ n <= 1 \/ Len(h) <= n + 1 => Mf!Limit(n, h) = h
         /\ n > 1 /\ Len(h) > n + 1 => /\ Len(Mf!Limit(n, h)) = n + 1
                                       /\ \A i \in 0..(n - 1) : Mf!Limit(n, h)[n + 1 - i] = h[Len(h) - i]
<1>1. CASE n <= 1
  BY <1>1 DEF Mf!Limit
<1>2. CASE n > 1
  <2>. DEFINE t == Tail(h)
  <2>. DEFINE x == Head(h)
  <2>1. /\ t \in Seq(S) /\ x \in S /\ Len(h) \in Nat \ {0} /\ Len(t) = Len(h) - 1
        /\ \A i \in 1..Len(t) : t[i] = h[i + 1]
        /\ <<x>> \o t = h
    OBVIOUS
  <2>2. Mf!Limit(n, h) = <<x>> \o IF Len(t) <= n THEN t ELSE SubSeq(t, Len(t) - n + 1, Len(t))
    BY <1>2 DEF Mf!Limit
  <2>. HIDE DEF t, x
  <2>3. CASE Len(h) <= n + 1
    <3>1. Mf!Limit(n, h) = h
      BY <2>1, <2>2, <2>3
    <3>. QED BY <1>2, <2>3, <3>1
  <2>4. CASE Len(h) > n + 1
    <3>. DEFINE u == SubSeq(t, Len(t) - n + 1, Len(t))
    <3>1. Mf!Limit(n, h) = <<x>> \o u
      BY <2>1, <2>2, <2>4
    <3>2. u \in Seq(S) /\ Len(u) = n /\ \A i \in 1..n : u[i] = t[Len(t) - n + i]
      BY <1>2, <2>1, <2>4
    <3>. HIDE DEF u
    <3>3. <<x>> \o u \in Seq(S) /\ Len(<<x>> \o u) = n + 1 /\ \A i \in 1..n : (<<x>> \o u)[i + 1] = u[i]
      BY <1>2, <2>1, <3>2
    <3>4. ASSUME NEW i \in 0..(n - 1) PROVE (<<x>> \o u)[n + 1 - i] = h[Len(h) - i]
      <4>1. n - i \in 1..n /\ n - i + 1 = n + 1 - i /\ Len(t) - n + (n - i) = Len(t) - i /\ Len(t) - i \in 1..Len(t)
            /\ Len(t) - i + 1 = Len(h) - i
        BY <1>2, <2>1, <2>4
      <4>2. (<<x>> \o u)[n - i + 1] = u[n - i] /\ u[n - i] = t[Len(t) - n + (n - i)]
        BY <3>2, <3>3, <4>1
      <4>3. t[Len(t) - i] = h[Len(t) - i + 1]
        BY <2>1, <4>1
      <4>. QED BY <4>1, <4>2, <4>3
    <3>. QED BY <1>2, <2>1, <2>4, <3>1, <3>3, <3>4
  <2>. QED BY <2>1, <2>3, <2>4
<1>. QED BY <1>1, <1>2

\* What comes back of what an agent remembers.
LEMMA RestoredIs ==
  ASSUME NEW h \in Seq(Remembered), h # <<>>, NEW n \in Int, NEW c, c = Mf!PrepareContext(n, Mf!ToDict(Mf!FrontMan, h))
  PROVE  /\ Mf!Restored(c) \in Seq(Remembered) /\ KeepsLast(n, h, Mf!Restored(c))
         /\ n > 1 => Len(c.messages) <= n + 1
         /\ c.messages \in Seq(ShortMsg) /\ c \in Contexts
<1>. DEFINE d == Mf!ToDict(Mf!FrontMan, h)
<1>. DEFINE e == Mf!ToHistory(d)
<1>. DEFINE l == Mf!Limit(n, e)
<1>1. d \in Seq(Remembered) /\ Len(d) = Len(h)
      /\ \A i \in 1..Len(h) : d[i].type = h[i].type /\ d[i].text = h[i].text
  BY OriginTypes, ToDictIs
<1>2. c = [there |-> TRUE, origin |-> Mf!FrontMan, messages |-> l]
  BY DEF Mf!PrepareContext
<1>. HIDE DEF d
<1>3. e \in Seq(Remembered) /\ Len(e) = Len(h) /\ \A i \in 1..Len(h) : Like(e[i], h[i])
  <2>1. e \in Seq(Remembered) /\ Len(e) = Len(d) /\ \A i \in 1..Len(d) : Like(e[i], d[i])
    BY <1>1, ToHistoryIs
  <2>. HIDE DEF e
  <2>. QED BY <1>1, <2>1 DEF Like
<1>. HIDE DEF e
<1>4. e # <<>> /\ Len(h) \in Nat
  BY <1>3
<1>5. /\ l \in Seq(Remembered)
      /\ n > 1 => Len(l) <= n + 1
      /\ n <= 1 \/ Len(e) <= n + 1 => l = e
      /\ n > 1 /\ Len(e) > n + 1 => Len(l) = n + 1 /\ \A i \in 0..(n - 1) : l[n + 1 - i] = e[Len(e) - i]
  BY <1>3, <1>4, LimitIs
<1>. HIDE DEF l
<1>6. KeepsLast(n, h, l)
  <2>1. CASE n <= 1 \/ Len(e) <= n + 1
    BY <1>3, <1>5, <2>1 DEF KeepsLast
  <2>2. CASE n > 1 /\ Len(e) > n + 1
    <3>1. \A i \in 0..(n - 1) : Len(h) - i \in 1..Len(h)
      BY <1>3, <1>4, <2>2
    <3>2. ASSUME NEW i \in 0..(n - 1) PROVE Like(l[Len(l) - i], h[Len(h) - i])
      <4>1. Len(l) = n + 1 /\ l[n + 1 - i] = e[Len(e) - i]
        BY <1>5, <2>2
      <4>2. Like(e[Len(h) - i], h[Len(h) - i])
        BY <1>3, <3>1
      <4>. QED BY <1>3, <4>1, <4>2
    <3>. QED BY <1>3, <1>5, <2>2, <3>2 DEF KeepsLast
  <2>. QED BY <1>4, <1>3, <2>1, <2>2
<1>7. Mf!Restored(c) = l
  <2>. DEFINE I == {i \in DOMAIN l : Mf!IsRelevant(l[i])}
  <2>1. \A i \in DOMAIN l : l[i] \in Remembered
    BY <1>5
  <2>2. I = DOMAIN l
    BY <2>1 DEF Mf!IsRelevant, Remembered
  <2>3. Mf!Restored(c) = Mf!Only(I, l)
    BY <1>2 DEF Mf!Restored, Mf!FromDict
  <2>. HIDE DEF I
  <2>. QED BY <1>5, <2>2, <2>3, OnlyChooses
<1>8. l \in Seq(ShortMsg)
  BY <1>5 DEF Remembered
<1>9. c \in Contexts
  BY <1>2, <1>8, OriginTypes DEF Contexts
<1>. QED BY <1>2, <1>5, <1>6, <1>7, <1>8, <1>9
-----------------------------------------------------------------------------
(* The messages of an agent: the invariant *)

RunRecord == [tool : FlowTools, origin : Mf!Origins, state : {"running", "ended", "lost"}]
OriginAt(t, k) == Append(Mf!FrontMan, [tool |-> t, index |-> k])
LastOf(s) == s[Len(s)]

\* What is on hold is what the LLM said last.
FlowTypes ==
  /\ flowConfig \in FlowConfigs /\ turn \in 0..MaxTurns /\ phase \in {"idle", "running", "answered"}
  /\ retries \in 0..MaxRetries /\ indices \in [FlowTools -> Nat]
  /\ history \in Seq(Remembered) /\ said \in Seq(ShortMsg) /\ thoughts \in Seq(Texts) /\ hopper \in Seq(AnyMsg)
  /\ runs \in Seq(RunRecord)
  /\ \/ pending = Mf!NoMessage
     \/ /\ thoughts # <<>> /\ phase = "running"
        /\ pending = Mf!AgentMessage(LastOf(thoughts), "null")

HopperAllowed == \A i \in DOMAIN hopper : Mf!Allows(flowConfig.filter, hopper[i])

\* A tool runs under an index that its next runs are beyond.
RunsApart ==
  /\ \A r \in DOMAIN runs : \E k \in Nat : k < indices[runs[r].tool] /\ runs[r].origin = OriginAt(runs[r].tool, k)
  /\ \A r, s \in DOMAIN runs : runs[r].origin = runs[s].origin => r = s

\* A result is of a run that ended.
IsResultOf(m, f) ==
  \E r \in DOMAIN f : f[r].origin = m.result /\ f[r].state = "ended" /\ m.text = Mf!Plain(f[r].tool)
ResultsOfRuns == \A i \in DOMAIN hopper : hopper[i].type = "AGENT_TOOL_RESULT" => IsResultOf(hopper[i], runs)

\* Every thought is told, or on hold.
IsTold(h, t) == \E j \in DOMAIN h : h[j].origin = Mf!FrontMan /\ h[j].text = t
ThoughtsHeard ==
  MaxFilter => \A i \in DOMAIN thoughts :
                 IsTold(hopper, thoughts[i]) \/ (pending # Mf!NoMessage /\ pending.text = thoughts[i])

\* When the thought told last is the last message, another one is on hold.
Twice(s, t) == \E j, k \in DOMAIN s : j # k /\ s[j] = t /\ s[k] = t
IsEcho(h, i) ==
  h[i].type = "AI" /\ h[i - 1].type = "AGENT" /\ h[i - 1].origin = Mf!FrontMan /\ h[i].text = h[i - 1].text
IsThought(m) == m.type = "AGENT" /\ m.origin = Mf!FrontMan
AnswersOnce ==
  /\ \A i \in 2..Len(hopper) : IsEcho(hopper, i) => Twice(thoughts, hopper[i].text)
  /\ MaxFilter /\ phase = "running" /\ hopper # <<>> /\ IsThought(LastOf(hopper)) =>
       pending # Mf!NoMessage /\ \E k \in 1..(Len(thoughts) - 1) : thoughts[k] = LastOf(hopper).text

\* The agent remembers the end of what was said.
Matches(n, h, s) ==
  LET l == IF n <= 1 \/ n > Len(s) THEN Len(s) ELSE n
  IN /\ n <= 1 => Len(h) = Len(s)
     /\ Len(h) >= l
     /\ \A i \in 0..(l - 1) : Like(h[Len(h) - i], s[Len(s) - i])
ContextOf == Mf!PrepareContext(flowConfig.limit, Mf!ToDict(Mf!FrontMan, history))
SaidIsRemembered ==
  /\ turn = 0 => phase = "idle" /\ history = <<>> /\ said = <<>> /\ context = Mf!EmptyContext
  /\ turn > 0 => history # <<>> /\ Matches(flowConfig.limit, history, said)
  /\ turn > 0 /\ phase = "idle" => context = ContextOf
  /\ Mf!ContextIsBounded

\* The last word is the agent's, of what an LLM said, or of the server.
LastWordIsAnswer ==
  /\ phase = "answered" =>
       /\ history # <<>> /\ said # <<>>
       /\ LastOf(history).type = "AI" /\ LastOf(history).text = LastOf(said).text
       /\ LastOf(said).text.words # "null"
  /\ Mf!AnswerIsTheAgents

FlowInv ==
  /\ FlowTypes /\ HopperAllowed /\ RunsApart /\ ResultsOfRuns /\ ThoughtsHeard /\ AnswersOnce
  /\ SaidIsRemembered /\ LastWordIsAnswer

LEMMA FlowFacts ==
  /\ MaxTurns \in Nat /\ MaxThoughts \in Nat /\ MaxRuns \in Nat /\ MaxRetries \in Nat
  /\ \A c \in FlowConfigs : c.limit \in Int
  /\ "null" \notin FlowTools
  /\ \A t \in UserTexts \cup Texts : t \in Phrases /\ t # Mf!NoText /\ t.words # "null"
<1>1. /\ MaxTurns \in Nat /\ MaxThoughts \in Nat /\ MaxRuns \in Nat /\ MaxRetries \in Nat
      /\ FlowConfigs \subseteq Mf!ConfigType /\ "null" \notin FlowTools
      /\ \A t \in UserTexts \cup Texts :
           t \in [words : {t.words}, block : BOOLEAN, escaped : {FALSE}] /\ t.words # "null"
  BY PartsAssumption DEF PartsAssumption, Mf!FlowAssumption
<1>2. \A c \in FlowConfigs : c.limit \in Int
  BY <1>1 DEF Mf!ConfigType
<1>3. ASSUME NEW t \in UserTexts \cup Texts PROVE t \in Phrases /\ t # Mf!NoText /\ t.words # "null"
  <2>1. t \in [words : {t.words}, block : BOOLEAN, escaped : {FALSE}] /\ t.words # "null" /\ t.words \in Mf!Words
    BY <1>1, WordsOfTheServer
  <2>2. t \in Phrases
    BY <2>1 DEF Phrases
  <2>. QED BY <2>1, <2>2, PlainTypes
<1>. QED BY <1>1, <1>2, <1>3

LEMMA ShortAppends ==
  ASSUME NEW x, NEW y
  PROVE  Append(<<>>, y) = <<y>> /\ Append(<<x>>, y) = <<x, y>>
<1>. DEFINE S == {x, y}
<1>1. x \in S /\ y \in S
  OBVIOUS
<1>. HIDE DEF S
<1>2. <<>> \in Seq(S) /\ <<x>> \in Seq(S) /\ <<y>> \in Seq(S) /\ <<x, y>> \in Seq(S)
  BY <1>1
<1>3. Append(<<>>, y) = <<y>>
  BY <1>1, <1>2
<1>4. Append(<<x>>, y) = <<x, y>>
  <2>. DEFINE f == Append(<<x>>, y)
  <2>1. f \in Seq(S) /\ Len(f) = 2 /\ f[1] = x /\ f[2] = y
    BY <1>1, <1>2
  <2>2. f = [i \in 1..2 |-> f[i]]
    BY <1>1, <1>2
  <2>3. <<x, y>> = [i \in 1..2 |-> <<x, y>>[i]]
    OBVIOUS
  <2>. HIDE DEF f
  <2>4. \A i \in 1..2 : f[i] = <<x, y>>[i]
    BY <2>1
  <2>5. f = <<x, y>>
    BY <2>2, <2>3, <2>4
  <2>. QED BY <2>5 DEF f
<1>. QED BY <1>3, <1>4

LEMMA OriginAtIs ==
  ASSUME NEW t \in FlowTools, NEW k \in Nat
  PROVE  /\ OriginAt(t, k) \in Mf!Origins /\ OriginAt(t, k) # Mf!FrontMan
         /\ \A u, j : OriginAt(t, k) = OriginAt(u, j) => t = u /\ k = j
<1>. DEFINE front == [tool |-> "front", index |-> 0]
<1>. DEFINE O(u, j) == <<front, [tool |-> u, index |-> j]>>
<1>1. ASSUME NEW u, NEW j PROVE OriginAt(u, j) = O(u, j)
  <2>. DEFINE x == [tool |-> u, index |-> j]
  <2>1. OriginAt(u, j) = Append(<<front>>, x) /\ O(u, j) = <<front, x>>
    BY DEF OriginAt, Mf!FrontMan
  <2>. HIDE DEF x, front, O
  <2>. QED BY <2>1, ShortAppends
<1>2. front \in [tool : FlowTools \cup {"front"}, index : Nat]
  OBVIOUS
<1>3. [tool |-> t, index |-> k] \in [tool : FlowTools \cup {"front"}, index : Nat]
  OBVIOUS
<1>4. ASSUME NEW u, NEW j, O(t, k) = O(u, j) PROVE t = u /\ k = j
  <2>1. O(t, k)[2] = O(u, j)[2]
    BY <1>4
  <2>2. [tool |-> t, index |-> k] = [tool |-> u, index |-> j]
    BY <2>1
  <2>3. [tool |-> t, index |-> k].tool = [tool |-> u, index |-> j].tool
        /\ [tool |-> t, index |-> k].index = [tool |-> u, index |-> j].index
    BY <2>2
  <2>. QED BY <2>3
<1>5. Len(O(t, k)) = 2 /\ Len(Mf!FrontMan) = 1
  BY OriginTypes
<1>6. O(t, k) \in Mf!Origins
  <2>. HIDE DEF front
  <2>. QED BY <1>2, <1>3 DEF Mf!Origins
<1>. QED BY <1>1, <1>4, <1>5, <1>6

LEMMA PendingIs ==
  ASSUME FlowTypes
  PROVE  /\ pending \in ShortMsg
         /\ pending # Mf!NoMessage => /\ pending.type = "AGENT" /\ thoughts # <<>> /\ phase = "running"
                                      /\ pending.text = LastOf(thoughts)
<1>1. Mf!NoMessage \in ShortMsg
  <2>1. "none" \in Mf!MessageTypes
    BY DEF Mf!MessageTypes
  <2>. QED BY <2>1, MessageIs, PlainTypes DEF Mf!NoMessage
<1>2. CASE pending = Mf!NoMessage
  BY <1>1, <1>2
<1>3. CASE pending # Mf!NoMessage
  <2>1. thoughts # <<>> /\ phase = "running" /\ pending = Mf!AgentMessage(LastOf(thoughts), "null")
        /\ thoughts \in Seq(Texts)
    BY <1>3 DEF FlowTypes
  <2>2. LastOf(thoughts) \in Texts
    BY <2>1 DEF LastOf
  <2>3. LastOf(thoughts) \in Phrases
    BY <2>2, FlowFacts
  <2>. QED BY <2>1, <2>3, AgentMessageIs, WordsOfTheServer
<1>. QED BY <1>2, <1>3

\* What a write of a journal writes.
LEMMA FlushedIs ==
  ASSUME FlowTypes, NEW m \in ShortMsg
  PROVE  \/ (pending = Mf!NoMessage \/ pending.text = m.text) /\ Append(Mf!Flushed(pending, m), m) = <<m>>
         \/ /\ pending # Mf!NoMessage /\ pending.text # m.text
            /\ Append(Mf!Flushed(pending, m), m) = <<pending, m>>
<1>1. CASE pending = Mf!NoMessage \/ pending.text = m.text
  <2>1. Mf!Flushed(pending, m) = <<>>
    BY <1>1 DEF Mf!Flushed
  <2>. QED BY <1>1, <2>1, ShortAppends
<1>2. CASE ~(pending = Mf!NoMessage \/ pending.text = m.text)
  <2>1. Mf!Flushed(pending, m) = <<pending>>
    BY <1>2 DEF Mf!Flushed
  <2>. QED BY <1>2, <2>1, ShortAppends
<1>. QED BY <1>1, <1>2

LEMMA FlushedTypes ==
  ASSUME FlowTypes, NEW m \in ShortMsg
  PROVE  Append(Mf!Flushed(pending, m), m) \in Seq(AnyMsg)
<1>1. m \in AnyMsg /\ pending \in AnyMsg
  BY PendingIs, ShortIsAny
<1>2. <<m>> \in Seq(AnyMsg) /\ <<pending, m>> \in Seq(AnyMsg)
  BY <1>1
<1>3. Append(Mf!Flushed(pending, m), m) \in {<<m>>, <<pending, m>>}
  BY FlushedIs
<1>. QED BY <1>2, <1>3

LEMMA RememberIs ==
  ASSUME NEW h \in Seq(Remembered), NEW m \in ShortMsg, m.text # Mf!NoText
  PROVE  /\ m.type = "AGENT_FRAMEWORK" => Mf!Remember(h, m) = h
         /\ m.type \in {"HUMAN", "AI"} /\ m.structure = "null" => Mf!Remember(h, m) = Append(h, m) /\ m \in Remembered
         /\ m.type = "AGENT_TOOL_RESULT" =>
              Mf!Remember(h, m) = Append(h, Mf!Message("AI", m.text)) /\ Mf!Message("AI", m.text) \in Remembered
<1>1. m.text \in Phrases /\ "AI" \in Mf!MessageTypes
  BY DEF ShortMsg, Mf!MessageTypes
<1>2. Mf!Message("AI", m.text) \in Remembered
  BY <1>1, MessageIs DEF Remembered
<1>3. m.type \in {"HUMAN", "AI"} /\ m.structure = "null" => m \in Remembered
  BY DEF Remembered
<1>. HIDE DEF Remembered
<1>4. m.type = "AGENT_FRAMEWORK" => Mf!Remember(h, m) = h
  BY DEF Mf!Remember, Mf!IsRelevant
<1>5. m.type \in {"HUMAN", "AI"} => Mf!Remember(h, m) = Append(h, m)
  BY DEF Mf!Remember, Mf!IsRelevant
<1>6. m.type = "AGENT_TOOL_RESULT" => Mf!Remember(h, m) = Append(h, Mf!Message("AI", m.text))
  BY DEF Mf!Remember, Mf!IsRelevant
<1>. QED BY <1>2, <1>3, <1>4, <1>5, <1>6

LEMMA LostIs ==
  ASSUME FlowTypes
  PROVE  /\ Mf!Lost \in Seq(RunRecord) /\ DOMAIN Mf!Lost = DOMAIN runs
         /\ \A r \in DOMAIN runs : /\ Mf!Lost[r].tool = runs[r].tool /\ Mf!Lost[r].origin = runs[r].origin
                                   /\ runs[r].state = "ended" => Mf!Lost[r].state = "ended"
<1>1. runs \in Seq(RunRecord) /\ DOMAIN runs = 1..Len(runs) /\ Len(runs) \in Nat
  BY DEF FlowTypes
<1>. DEFINE f == [r \in 1..Len(runs) |-> IF runs[r].state = "running" THEN [runs[r] EXCEPT !.state = "lost"] ELSE runs[r]]
<1>2. Mf!Lost = f
  BY <1>1 DEF Mf!Lost
<1>3. ASSUME NEW r \in 1..Len(runs)
      PROVE  /\ f[r] \in RunRecord /\ f[r].tool = runs[r].tool /\ f[r].origin = runs[r].origin
             /\ runs[r].state = "ended" => f[r].state = "ended"
  <2>. DEFINE a == runs[r]
  <2>1. a \in RunRecord
    BY <1>1
  <2>2. f[r] = IF a.state = "running" THEN [a EXCEPT !.state = "lost"] ELSE a
    OBVIOUS
  <2>. HIDE DEF a, f
  <2>3. f[r] \in RunRecord /\ f[r].tool = a.tool /\ f[r].origin = a.origin /\ (a.state = "ended" => f[r].state = "ended")
    BY <2>1, <2>2 DEF RunRecord
  <2>. QED BY <2>3 DEF a
<1>4. f = [r \in 1..Len(runs) |-> f[r]] /\ DOMAIN f = 1..Len(runs)
  OBVIOUS
<1>. HIDE DEF f
<1>5. f \in Seq(RunRecord)
  BY <1>1, <1>3, <1>4
<1>. QED BY <1>1, <1>2, <1>3, <1>4, <1>5
-----------------------------------------------------------------------------
(* The messages of an agent: what a write adds to the queue *)

\* g is h and what is delivered of ms under the origin o.
Sends(h, g, o, ms) ==
  /\ g \in Seq(AnyMsg) /\ Len(g) >= Len(h)
  /\ \A i \in 1..Len(h) : g[i] = h[i]
  /\ \A i \in (Len(h) + 1)..Len(g) :
       Mf!Allows(flowConfig.filter, g[i]) /\ \E j \in 1..Len(ms) : IsDelivered(g[i], o, ms[j])
  /\ MaxFilter => Len(g) = Len(h) + Len(ms) /\ \A j \in 1..Len(ms) : IsDelivered(g[Len(h) + j], o, ms[j])

LEMMA ConcatIs ==
  ASSUME NEW S, NEW h \in Seq(S), NEW d \in Seq(S)
  PROVE  /\ h \o d \in Seq(S) /\ Len(h \o d) = Len(h) + Len(d)
         /\ \A i \in 1..Len(h) : (h \o d)[i] = h[i]
         /\ \A j \in 1..Len(d) : (h \o d)[Len(h) + j] = d[j]
OBVIOUS

LEMMA SendsIs ==
  ASSUME NEW h \in Seq(AnyMsg), NEW o \in Mf!Origins, NEW ms \in Seq(AnyMsg)
  PROVE  Sends(h, h \o Mf!Delivered(o, ms), o, ms)
<1>. DEFINE D == Mf!Delivered(o, ms)
<1>1. /\ D \in Seq(AnyMsg)
      /\ \A j \in DOMAIN D : Mf!Allows(flowConfig.filter, D[j]) /\ \E i \in DOMAIN ms : IsDelivered(D[j], o, ms[i])
      /\ MaxFilter => Len(D) = Len(ms) /\ \A i \in DOMAIN ms : IsDelivered(D[i], o, ms[i])
  BY DeliveredIs
<1>. HIDE DEF D
<1>2. /\ DOMAIN D = 1..Len(D) /\ Len(D) \in Nat /\ DOMAIN ms = 1..Len(ms) /\ Len(ms) \in Nat
      /\ DOMAIN h = 1..Len(h) /\ Len(h) \in Nat
  BY <1>1
<1>. DEFINE g == h \o D
<1>3. /\ g \in Seq(AnyMsg) /\ Len(g) = Len(h) + Len(D)
      /\ \A i \in 1..Len(h) : g[i] = h[i]
      /\ \A j \in 1..Len(D) : g[Len(h) + j] = D[j]
  BY <1>1, ConcatIs
<1>. HIDE DEF g
<1>4. ASSUME NEW i \in (Len(h) + 1)..Len(g)
      PROVE  Mf!Allows(flowConfig.filter, g[i]) /\ \E j \in 1..Len(ms) : IsDelivered(g[i], o, ms[j])
  <2>1. i - Len(h) \in 1..Len(D) /\ Len(h) + (i - Len(h)) = i
    BY <1>2, <1>3
  <2>2. g[i] = D[i - Len(h)]
    BY <1>3, <2>1
  <2>. QED BY <1>1, <1>2, <2>1, <2>2
<1>5. ASSUME MaxFilter
      PROVE  Len(g) = Len(h) + Len(ms) /\ \A j \in 1..Len(ms) : IsDelivered(g[Len(h) + j], o, ms[j])
  BY <1>1, <1>2, <1>3, <1>5
<1>6. Len(g) >= Len(h)
  BY <1>2, <1>3
<1>7. Sends(h, g, o, ms)
  BY <1>3, <1>4, <1>5, <1>6 DEF Sends
<1>. QED BY <1>7 DEF g, D

AllowedIn(h) == \A i \in DOMAIN h : Mf!Allows(flowConfig.filter, h[i])

LEMMA AllowedMore ==
  ASSUME NEW h \in Seq(AnyMsg), NEW g, NEW o, NEW ms, Sends(h, g, o, ms), AllowedIn(h)
  PROVE  AllowedIn(g)
<1>1. DOMAIN g = 1..Len(g) /\ DOMAIN h = 1..Len(h) /\ Len(h) \in Nat /\ Len(g) \in Nat
  BY DEF Sends
<1>2. ASSUME NEW i \in 1..Len(g) PROVE Mf!Allows(flowConfig.filter, g[i])
  <2>1. CASE i <= Len(h)
    <3>1. i \in 1..Len(h)
      BY <1>1, <2>1
    <3>. QED BY <1>1, <3>1 DEF Sends, AllowedIn
  <2>2. CASE i > Len(h)
    <3>1. i \in (Len(h) + 1)..Len(g)
      BY <1>1, <2>2
    <3>. QED BY <3>1 DEF Sends
  <2>. QED BY <1>1, <2>1, <2>2
<1>. QED BY <1>1, <1>2 DEF AllowedIn

\* Without the filter of who wants everything, only messages with a context are delivered.
LEMMA OthersGetContexts ==
  ASSUME NEW h, AllowedIn(h), ~MaxFilter, NEW i \in DOMAIN h
  PROVE  h[i].type = "AGENT_FRAMEWORK"
BY DEF AllowedIn, Mf!Allows, MaxFilter, Mf!HasContext

ResultsIn(h, f) == \A i \in DOMAIN h : h[i].type = "AGENT_TOOL_RESULT" => IsResultOf(h[i], f)

LEMMA ResultsMore ==
  ASSUME NEW h \in Seq(AnyMsg), NEW g, NEW o, NEW ms, NEW f, Sends(h, g, o, ms), ResultsIn(h, f),
         \A j \in 1..Len(ms) : ms[j].type = "AGENT_TOOL_RESULT" => IsResultOf(ms[j], f)
  PROVE  ResultsIn(g, f)
<1>1. DOMAIN g = 1..Len(g) /\ DOMAIN h = 1..Len(h) /\ Len(h) \in Nat /\ Len(g) \in Nat
  BY DEF Sends
<1>2. ASSUME NEW i \in 1..Len(g), g[i].type = "AGENT_TOOL_RESULT" PROVE IsResultOf(g[i], f)
  <2>1. CASE i <= Len(h)
    <3>1. i \in 1..Len(h)
      BY <1>1, <2>1
    <3>2. g[i] = h[i]
      BY <3>1 DEF Sends
    <3>. QED BY <1>1, <1>2, <3>1, <3>2 DEF ResultsIn
  <2>2. CASE i > Len(h)
    <3>1. i \in (Len(h) + 1)..Len(g)
      BY <1>1, <2>2
    <3>2. PICK j \in 1..Len(ms) : IsDelivered(g[i], o, ms[j])
      BY <3>1 DEF Sends
    <3>3. ms[j].type = "AGENT_TOOL_RESULT" /\ g[i].text = ms[j].text /\ g[i].result = ms[j].result
      BY <1>2, <3>2 DEF IsDelivered
    <3>4. IsResultOf(ms[j], f)
      BY <3>3
    <3>. QED BY <3>3, <3>4 DEF IsResultOf
  <2>. QED BY <1>1, <2>1, <2>2
<1>. QED BY <1>1, <1>2 DEF ResultsIn

\* The runs f, later.
RunsLater(f, g) ==
  \A r \in DOMAIN f : /\ r \in DOMAIN g /\ g[r].tool = f[r].tool /\ g[r].origin = f[r].origin
                      /\ f[r].state = "ended" => g[r].state = "ended"

LEMMA ResultsLater ==
  ASSUME NEW h, NEW f, NEW g, ResultsIn(h, f), RunsLater(f, g)
  PROVE  ResultsIn(h, g)
<1>. SUFFICES ASSUME NEW i \in DOMAIN h, h[i].type = "AGENT_TOOL_RESULT" PROVE IsResultOf(h[i], g)
  BY DEF ResultsIn
<1>1. PICK r \in DOMAIN f : f[r].origin = h[i].result /\ f[r].state = "ended" /\ h[i].text = Mf!Plain(f[r].tool)
  BY DEF ResultsIn, IsResultOf
<1>. QED BY <1>1 DEF RunsLater, IsResultOf

LEMMA ToldMore ==
  ASSUME NEW h \in Seq(AnyMsg), NEW g, NEW o, NEW ms, Sends(h, g, o, ms), NEW t, IsTold(h, t)
  PROVE  IsTold(g, t)
<1>1. DOMAIN g = 1..Len(g) /\ DOMAIN h = 1..Len(h) /\ Len(h) \in Nat /\ Len(g) \in Nat /\ Len(g) >= Len(h)
  BY DEF Sends
<1>2. PICK j \in 1..Len(h) : h[j].origin = Mf!FrontMan /\ h[j].text = t
  BY <1>1 DEF IsTold
<1>3. j \in DOMAIN g
  BY <1>1
<1>4. g[j] = h[j]
  BY DEF Sends
<1>. QED BY <1>2, <1>3, <1>4 DEF IsTold

LEMMA ToldNow ==
  ASSUME NEW h \in Seq(AnyMsg), NEW g, NEW ms \in Seq(AnyMsg), Sends(h, g, Mf!FrontMan, ms), MaxFilter,
         NEW j \in 1..Len(ms), ms[j].type # "AGENT_FRAMEWORK" \/ ~ms[j].text.block
  PROVE  IsTold(g, ms[j].text)
<1>1. DOMAIN g = 1..Len(g) /\ Len(h) \in Nat /\ Len(g) = Len(h) + Len(ms) /\ IsDelivered(g[Len(h) + j], Mf!FrontMan, ms[j])
  BY DEF Sends
<1>2. Len(h) + j \in DOMAIN g
  BY <1>1
<1>3. g[Len(h) + j].origin = Mf!FrontMan /\ g[Len(h) + j].text = ms[j].text
  BY <1>1 DEF IsDelivered
<1>. QED BY <1>2, <1>3 DEF IsTold

\* A write that says what is on hold, or the same, tells every thought.
LEMMA WriteTells ==
  ASSUME FlowTypes, ThoughtsHeard, MaxFilter, NEW m \in ShortMsg, m.type # "AGENT_FRAMEWORK" \/ ~m.text.block,
         NEW ms \in Seq(AnyMsg), NEW g, Sends(hopper, g, Mf!FrontMan, ms),
         LET w == Append(Mf!Flushed(pending, m), m) IN Len(ms) >= Len(w) /\ \A i \in 1..Len(w) : ms[i] = w[i],
         NEW k \in DOMAIN thoughts
  PROVE  IsTold(g, thoughts[k])
<1>1. hopper \in Seq(AnyMsg)
  BY DEF FlowTypes
<1>2. CASE IsTold(hopper, thoughts[k])
  BY <1>1, <1>2, ToldMore
<1>3. CASE ~IsTold(hopper, thoughts[k])
  <2>1. pending # Mf!NoMessage /\ pending.text = thoughts[k]
    BY <1>3 DEF ThoughtsHeard
  <2>2. pending.type = "AGENT"
    BY <2>1, PendingIs
  <2>3. CASE Append(Mf!Flushed(pending, m), m) = <<m>>
    <3>1. pending.text = m.text
      BY <2>1, <2>3, FlushedIs
    <3>2. 1 \in 1..Len(ms) /\ ms[1] = m
      BY <2>3
    <3>. QED BY <1>1, <2>1, <3>1, <3>2, ToldNow
  <2>4. CASE Append(Mf!Flushed(pending, m), m) = <<pending, m>>
    <3>1. 1 \in 1..Len(ms) /\ ms[1] = pending
      BY <2>4
    <3>. QED BY <1>1, <2>1, <2>2, <3>1, ToldNow
  <2>. QED BY <2>3, <2>4, FlushedIs
<1>. QED BY <1>2, <1>3

EchoFree(h, s) == \A i \in 2..Len(h) : IsEcho(h, i) => Twice(s, h[i].text)

LEMMA EchoFreeMore ==
  ASSUME NEW h \in Seq(AnyMsg), NEW g, NEW o, NEW ms, NEW s, Sends(h, g, o, ms), EchoFree(h, s),
         \A j \in 1..Len(ms) : ms[j].type # "AI"
  PROVE  EchoFree(g, s)
<1>1. Len(h) \in Nat /\ Len(g) \in Nat
  BY DEF Sends
<1>2. ASSUME NEW i \in 2..Len(g), IsEcho(g, i) PROVE Twice(s, g[i].text)
  <2>1. CASE i <= Len(h)
    <3>1. i \in 1..Len(h) /\ i - 1 \in 1..Len(h) /\ i \in 2..Len(h)
      BY <1>1, <2>1
    <3>2. g[i] = h[i] /\ g[i - 1] = h[i - 1]
      BY <3>1 DEF Sends
    <3>. QED BY <1>2, <3>1, <3>2 DEF EchoFree, IsEcho
  <2>2. CASE i > Len(h)
    <3>1. i \in (Len(h) + 1)..Len(g)
      BY <1>1, <2>2
    <3>2. PICK j \in 1..Len(ms) : IsDelivered(g[i], o, ms[j])
      BY <3>1 DEF Sends
    <3>. QED BY <1>2, <3>2 DEF IsDelivered, IsEcho
  <2>. QED BY <1>1, <2>1, <2>2
<1>. QED BY <1>2 DEF EchoFree

\* The last message, when everything is delivered.
LEMMA LastSent ==
  ASSUME NEW h \in Seq(AnyMsg), NEW g, NEW o, NEW ms \in Seq(AnyMsg), ms # <<>>, Sends(h, g, o, ms), MaxFilter
  PROVE  g # <<>> /\ IsDelivered(LastOf(g), o, LastOf(ms))
<1>1. Len(h) \in Nat /\ Len(g) = Len(h) + Len(ms) /\ Len(ms) \in 1..Len(ms) /\ Len(g) > 0
  BY DEF Sends
<1>2. IsDelivered(g[Len(h) + Len(ms)], o, ms[Len(ms)])
  BY <1>1 DEF Sends
<1>. QED BY <1>1, <1>2 DEF LastOf

\* What is remembered when both say more, and when a chat context comes back.
LEMMA MatchesMore ==
  ASSUME NEW n \in Int, NEW h \in Seq(Remembered), NEW s \in Seq(ShortMsg), Matches(n, h, s) \/ (h = <<>> /\ s = <<>>),
         NEW x \in Remembered, NEW y \in ShortMsg, Like(x, y)
  PROVE  Matches(n, Append(h, x), Append(s, y))
<1>. DEFINE p == Append(h, x)
<1>. DEFINE q == Append(s, y)
<1>1. /\ Len(h) \in Nat /\ Len(s) \in Nat
      /\ Len(p) = Len(h) + 1 /\ Len(q) = Len(s) + 1 /\ p[Len(h) + 1] = x /\ q[Len(s) + 1] = y
      /\ \A i \in 1..Len(h) : p[i] = h[i]
      /\ \A i \in 1..Len(s) : q[i] = s[i]
  OBVIOUS
<1>2. Matches(n, h, s)
  BY DEF Matches
<1>. HIDE DEF p, q
<1>. DEFINE l == IF n <= 1 \/ n > Len(s) THEN Len(s) ELSE n
<1>. DEFINE k == IF n <= 1 \/ n > Len(q) THEN Len(q) ELSE n
<1>3. l \in Nat /\ k \in Nat /\ k <= l + 1 /\ l <= Len(s) /\ l <= Len(h)
      /\ (n <= 1 => Len(h) = Len(s)) /\ \A i \in 0..(l - 1) : Like(h[Len(h) - i], s[Len(s) - i])
  BY <1>1, <1>2 DEF Matches
<1>. HIDE DEF l
<1>4. ASSUME NEW i \in 0..(k - 1) PROVE Like(p[Len(p) - i], q[Len(q) - i])
  <2>1. CASE i = 0
    BY <1>1, <2>1
  <2>2. CASE i # 0
    <3>1. i - 1 \in 0..(l - 1) /\ Len(h) - (i - 1) \in 1..Len(h) /\ Len(s) - (i - 1) \in 1..Len(s)
          /\ Len(p) - i = Len(h) - (i - 1) /\ Len(q) - i = Len(s) - (i - 1)
      BY <1>1, <1>3, <2>2
    <3>2. Like(h[Len(h) - (i - 1)], s[Len(s) - (i - 1)])
      BY <1>3, <3>1
    <3>. QED BY <1>1, <3>1, <3>2
  <2>. QED BY <2>1, <2>2
<1>5. Len(p) >= k /\ (n <= 1 => Len(p) = Len(q))
  BY <1>1, <1>3
<1>6. Matches(n, p, q)
  BY <1>4, <1>5 DEF Matches
<1>. QED BY <1>6 DEF p, q

LEMMA MatchesKept ==
  ASSUME NEW n \in Int, NEW h \in Seq(Remembered), NEW b \in Seq(Remembered), NEW s \in Seq(ShortMsg),
         Matches(n, h, s), KeepsLast(n, h, b)
  PROVE  Matches(n, b, s)
<1>. DEFINE l == IF n <= 1 \/ n > Len(s) THEN Len(s) ELSE n
<1>1. Len(h) \in Nat /\ Len(b) \in Nat /\ Len(s) \in Nat
  OBVIOUS
<1>2. l \in Nat /\ (n > 1 => l <= n) /\ l <= Len(h) /\ (n <= 1 => Len(h) = Len(s))
      /\ \A i \in 0..(l - 1) : Like(h[Len(h) - i], s[Len(s) - i])
  BY <1>1 DEF Matches
<1>3. CASE Len(b) = Len(h) /\ \A i \in 1..Len(h) : Like(b[i], h[i])
  <2>1. ASSUME NEW i \in 0..(l - 1) PROVE Like(b[Len(b) - i], s[Len(s) - i])
    <3>1. Len(h) - i \in 1..Len(h)
      BY <1>1, <1>2
    <3>2. Like(b[Len(h) - i], h[Len(h) - i]) /\ Like(h[Len(h) - i], s[Len(s) - i])
      BY <1>2, <1>3, <3>1
    <3>. QED BY <1>3, <3>2 DEF Like
  <2>. QED BY <1>2, <1>3, <2>1 DEF Matches
<1>4. CASE n > 1 /\ Len(h) > n + 1 /\ Len(b) = n + 1 /\ \A i \in 0..(n - 1) : Like(b[Len(b) - i], h[Len(h) - i])
  <2>1. ASSUME NEW i \in 0..(l - 1) PROVE Like(b[Len(b) - i], s[Len(s) - i])
    <3>1. i \in 0..(n - 1)
      BY <1>1, <1>2, <1>4
    <3>2. Like(b[Len(b) - i], h[Len(h) - i]) /\ Like(h[Len(h) - i], s[Len(s) - i])
      BY <1>2, <1>4, <3>1
    <3>. QED BY <3>2 DEF Like
  <2>2. Len(b) >= l
    BY <1>1, <1>2, <1>4
  <2>. QED BY <1>4, <2>1, <2>2 DEF Matches
<1>. QED BY <1>3, <1>4 DEF KeepsLast
-----------------------------------------------------------------------------
(* The messages of an agent: the steps *)

LEMMA FreshSends ==
  ASSUME NEW o \in Mf!Origins, NEW ms \in Seq(AnyMsg)
  PROVE  Sends(<<>>, Mf!Delivered(o, ms), o, ms)
<1>. DEFINE D == Mf!Delivered(o, ms)
<1>1. D \in Seq(AnyMsg)
  BY DeliveredIs
<1>2. <<>> \in Seq(AnyMsg)
  OBVIOUS
<1>3. Sends(<<>>, <<>> \o D, o, ms)
  BY <1>2, SendsIs
<1>. HIDE DEF D
<1>4. <<>> \o D = D
  BY <1>1
<1>. QED BY <1>3, <1>4 DEF D

LEMMA NotYetAnswered ==
  ASSUME phase' # "idle" PROVE Mf!AnswerIsTheAgents'
BY DEF Mf!AnswerIsTheAgents, Mf!Answered

\* Nothing that is remembered changes while a request runs.
LEMMA SaidStays ==
  ASSUME SaidIsRemembered, phase # "idle", phase' # "idle", UNCHANGED <<turn, history, said, context, flowConfig>>
  PROVE  SaidIsRemembered'
BY DEF SaidIsRemembered, Mf!ContextIsBounded

\* What was said and is remembered.
LEMMA SaidMore ==
  ASSUME FlowTypes, SaidIsRemembered, phase # "idle", phase' # "idle", UNCHANGED <<turn, context, flowConfig>>,
         NEW x \in Remembered, history' = Append(history, x), said' = Append(said, x)
  PROVE  SaidIsRemembered'
<1>1. history \in Seq(Remembered) /\ said \in Seq(ShortMsg) /\ flowConfig.limit \in Int /\ turn \in Nat
  BY FlowFacts DEF FlowTypes
<1>2. turn > 0 /\ Matches(flowConfig.limit, history, said) /\ x \in ShortMsg /\ Like(x, x)
  BY <1>1 DEF SaidIsRemembered, Remembered, Like
<1>3. Matches(flowConfig.limit, history', said')
  BY <1>1, <1>2, MatchesMore
<1>4. history' # <<>>
  BY <1>1
<1>5. Mf!ContextIsBounded'
  BY DEF SaidIsRemembered, Mf!ContextIsBounded
<1>. QED BY <1>1, <1>2, <1>3, <1>4, <1>5 DEF SaidIsRemembered

LEMMA StartKeeps ==
  ASSUME FlowInv, Mf!Start PROVE FlowInv'
<1>1. PICK text \in UserTexts :
        LET human == Mf!Message("HUMAN", text)
            past == Mf!Restored(context)
            instructions == IF past = <<>> THEN <<Mf!Message("SYSTEM", Mf!Plain("instructions"))>> ELSE <<>>
        IN /\ phase = "idle" /\ turn < MaxTurns
           /\ turn' = turn + 1 /\ phase' = "running"
           /\ history' = Mf!Remember(past, human) /\ pending' = Mf!NoMessage
           /\ hopper' = Mf!Delivered(Mf!FrontMan, Append(instructions, human))
           /\ runs' = <<>> /\ indices' = [t \in FlowTools |-> 0] /\ thoughts' = <<>> /\ retries' = 0
           /\ Mf!Says(human) /\ UNCHANGED <<flowConfig, context>>
  BY DEF Mf!Start
<1>. DEFINE human == Mf!Message("HUMAN", text)
<1>. DEFINE system == Mf!Message("SYSTEM", Mf!Plain("instructions"))
<1>. DEFINE past == Mf!Restored(context)
<1>. DEFINE instructions == IF past = <<>> THEN <<system>> ELSE <<>>
<1>. DEFINE ms == Append(instructions, human)
<1>2. /\ phase = "idle" /\ turn < MaxTurns
      /\ turn' = turn + 1 /\ phase' = "running"
      /\ history' = Mf!Remember(past, human) /\ pending' = Mf!NoMessage
      /\ hopper' = Mf!Delivered(Mf!FrontMan, ms)
      /\ runs' = <<>> /\ indices' = [t \in FlowTools |-> 0] /\ thoughts' = <<>> /\ retries' = 0
      /\ Mf!Says(human) /\ flowConfig' = flowConfig /\ context' = context
  BY <1>1
<1>3. text \in Phrases /\ text # Mf!NoText /\ "HUMAN" \in Mf!MessageTypes /\ "SYSTEM" \in Mf!MessageTypes
      /\ Mf!Plain("instructions") \in Phrases
  BY FlowFacts, PlainTypes, WordsOfTheServer DEF Mf!MessageTypes
<1>4. /\ human \in ShortMsg /\ human.type = "HUMAN" /\ human.text = text /\ human.structure = "null"
      /\ system \in ShortMsg /\ system.type = "SYSTEM"
  BY <1>3, MessageIs
<1>5. Mf!Message("HUMAN", human.text) = human
  BY <1>4
<1>. HIDE DEF human, system, past
<1>6. said' = Append(said, human)
  BY <1>2, <1>4, <1>5 DEF Mf!Says
<1>7. flowConfig.limit \in Int /\ turn \in Nat /\ history \in Seq(Remembered) /\ said \in Seq(ShortMsg)
      /\ flowConfig \in FlowConfigs /\ MaxTurns \in Nat /\ MaxRetries \in Nat
  BY FlowFacts DEF FlowInv, FlowTypes
<1>8. past \in Seq(Remembered) /\ (Matches(flowConfig.limit, past, said) \/ (past = <<>> /\ said = <<>>))
  <2>1. CASE turn = 0
    <3>1. context = Mf!EmptyContext /\ said = <<>>
      BY <2>1 DEF FlowInv, SaidIsRemembered
    <3>2. context.origin # Mf!FrontMan
      BY <3>1, ContextTypes, OriginTypes
    <3>3. past = <<>>
      BY <3>2 DEF past, Mf!Restored
    <3>. QED BY <3>1, <3>3
  <2>2. CASE turn > 0
    <3>1. history # <<>> /\ Matches(flowConfig.limit, history, said) /\ context = ContextOf
      BY <1>2, <2>2 DEF FlowInv, SaidIsRemembered
    <3>2. context = Mf!PrepareContext(flowConfig.limit, Mf!ToDict(Mf!FrontMan, history))
      BY <3>1 DEF ContextOf
    <3>3. past \in Seq(Remembered) /\ KeepsLast(flowConfig.limit, history, past)
      BY <1>7, <3>1, <3>2, RestoredIs DEF past
    <3>. QED BY <1>7, <3>1, <3>3, MatchesKept
  <2>. QED BY <1>7, <2>1, <2>2
<1>9. history' = Append(past, human) /\ human \in Remembered
  BY <1>2, <1>3, <1>4, <1>8, RememberIs
<1>10. ms \in Seq(AnyMsg) /\ \A j \in 1..Len(ms) : ms[j].type \in {"SYSTEM", "HUMAN"}
  <2>1. ms \in {<<human>>, <<system, human>>}
    BY ShortAppends
  <2>2. human \in AnyMsg /\ system \in AnyMsg
    BY <1>4, ShortIsAny
  <2>. HIDE DEF ms
  <2>3. CASE ms = <<human>>
    BY <1>4, <2>2, <2>3
  <2>4. CASE ms = <<system, human>>
    BY <1>4, <2>2, <2>4
  <2>. QED BY <2>1, <2>3, <2>4
<1>. HIDE DEF ms
<1>11. Sends(<<>>, hopper', Mf!FrontMan, ms)
  BY <1>2, <1>10, FreshSends, OriginTypes
<1>12. <<>> \in Seq(AnyMsg) /\ hopper' \in Seq(AnyMsg)
  BY <1>11 DEF Sends
<1>13. ASSUME NEW i \in DOMAIN hopper' PROVE hopper'[i].type \in {"SYSTEM", "HUMAN"}
  <2>1. i \in (Len(<<>>) + 1)..Len(hopper')
    BY <1>12
  <2>2. PICK j \in 1..Len(ms) : IsDelivered(hopper'[i], Mf!FrontMan, ms[j])
    BY <1>11, <2>1 DEF Sends
  <2>. QED BY <1>10, <2>2 DEF IsDelivered
<1>14. FlowTypes'
  <2>1. history' \in Seq(Remembered) /\ said' \in Seq(ShortMsg)
    BY <1>4, <1>6, <1>7, <1>8, <1>9
  <2>2. thoughts' \in Seq(Texts) /\ runs' \in Seq(RunRecord) /\ indices' \in [FlowTools -> Nat]
    BY <1>2
  <2>3. turn' \in 0..MaxTurns /\ retries' \in 0..MaxRetries
    BY <1>2, <1>7
  <2>. QED BY <1>2, <1>7, <1>12, <2>1, <2>2, <2>3 DEF FlowTypes
<1>15. HopperAllowed'
  <2>1. AllowedIn(<<>>)
    BY DEF AllowedIn
  <2>2. AllowedIn(hopper')
    BY <1>11, <1>12, <2>1, AllowedMore
  <2>. QED BY <1>2, <2>2 DEF AllowedIn, HopperAllowed
<1>16. RunsApart'
  BY <1>2 DEF RunsApart
<1>17. ResultsOfRuns'
  BY <1>13 DEF ResultsOfRuns
<1>18. ThoughtsHeard'
  BY <1>2 DEF ThoughtsHeard
<1>19. AnswersOnce'
  <2>1. ASSUME NEW i \in 2..Len(hopper') PROVE ~IsEcho(hopper', i)
    <3>1. i \in DOMAIN hopper'
      BY <1>12
    <3>. QED BY <1>13, <3>1 DEF IsEcho
  <2>2. ASSUME hopper' # <<>> PROVE ~IsThought(LastOf(hopper'))
    <3>1. Len(hopper') \in DOMAIN hopper'
      BY <1>12, <2>2
    <3>. QED BY <1>13, <3>1 DEF IsThought, LastOf
  <2>. QED BY <2>1, <2>2 DEF AnswersOnce, IsEcho, IsThought
<1>20. SaidIsRemembered'
  <2>1. Like(human, human) /\ human \in ShortMsg
    BY <1>4 DEF Like
  <2>2. Matches(flowConfig.limit, history', said')
    BY <1>6, <1>7, <1>8, <1>9, <2>1, MatchesMore
  <2>3. history' # <<>> /\ turn' > 0
    BY <1>2, <1>7, <1>8, <1>9
  <2>4. Mf!ContextIsBounded'
    BY <1>2 DEF FlowInv, SaidIsRemembered, Mf!ContextIsBounded
  <2>. QED BY <1>2, <2>2, <2>3, <2>4 DEF SaidIsRemembered
<1>21. LastWordIsAnswer'
  BY <1>2, NotYetAnswered DEF LastWordIsAnswer
<1>. QED BY <1>14, <1>15, <1>16, <1>17, <1>18, <1>19, <1>20, <1>21 DEF FlowInv

LEMMA LlmEndKeeps ==
  ASSUME FlowInv, Mf!LlmEnd PROVE FlowInv'
<1>1. PICK text \in Texts :
        /\ phase = "running" /\ Len(thoughts) < MaxThoughts
        /\ Mf!Hold(Mf!AgentMessage(text, "null")) /\ thoughts' = Append(thoughts, text)
        /\ UNCHANGED <<flowConfig, turn, phase, context, runs, indices, said, retries>>
  BY DEF Mf!LlmEnd
<1>2. /\ flowConfig' = flowConfig /\ turn' = turn /\ phase' = phase /\ context' = context /\ runs' = runs
      /\ indices' = indices /\ said' = said /\ retries' = retries /\ history' = history
      /\ pending' = Mf!AgentMessage(text, "null")
      /\ hopper' = IF pending = Mf!NoMessage THEN hopper ELSE hopper \o Mf!Delivered(Mf!FrontMan, <<pending>>)
  BY <1>1 DEF Mf!Hold
<1>3. FlowTypes
  BY DEF FlowInv
<1>4. thoughts \in Seq(Texts) /\ hopper \in Seq(AnyMsg) /\ Len(thoughts) \in Nat /\ Len(hopper) \in Nat
      /\ DOMAIN hopper = 1..Len(hopper)
  BY <1>3 DEF FlowTypes
<1>5. /\ thoughts' \in Seq(Texts) /\ Len(thoughts') = Len(thoughts) + 1 /\ thoughts'[Len(thoughts) + 1] = text
      /\ \A k \in 1..Len(thoughts) : thoughts'[k] = thoughts[k]
      /\ DOMAIN thoughts' = 1..Len(thoughts') /\ DOMAIN thoughts = 1..Len(thoughts) /\ thoughts' # <<>>
  BY <1>1, <1>4
<1>6. text \in Phrases /\ pending'.type = "AGENT" /\ pending'.text = text /\ pending' # Mf!NoMessage
  <2>1. text \in Phrases /\ "null" \in Mf!Structures
    BY FlowFacts, WordsOfTheServer
  <2>. QED BY <1>2, <2>1, AgentMessageIs
<1>7. Sends(hopper, hopper', Mf!FrontMan, IF pending = Mf!NoMessage THEN <<>> ELSE <<pending>>)
  <2>1. CASE pending = Mf!NoMessage
    <3>1. hopper' = hopper
      BY <1>2, <2>1
    <3>. QED BY <1>4, <2>1, <3>1 DEF Sends
  <2>2. CASE pending # Mf!NoMessage
    <3>1. pending \in AnyMsg
      BY <1>3, PendingIs, ShortIsAny
    <3>2. <<pending>> \in Seq(AnyMsg)
      BY <3>1
    <3>. QED BY <1>2, <1>4, <2>2, <3>2, SendsIs, OriginTypes
  <2>. QED BY <2>1, <2>2
<1>. DEFINE ms == IF pending = Mf!NoMessage THEN <<>> ELSE <<pending>>
<1>8. ms \in Seq(AnyMsg) /\ \A j \in 1..Len(ms) : pending # Mf!NoMessage /\ ms[j] = pending /\ ms[j].type = "AGENT"
  <2>1. pending \in AnyMsg /\ (pending # Mf!NoMessage => pending.type = "AGENT")
    BY <1>3, PendingIs, ShortIsAny
  <2>2. CASE pending = Mf!NoMessage
    BY <2>2
  <2>3. CASE pending # Mf!NoMessage
    BY <2>1, <2>3
  <2>. QED BY <2>2, <2>3
<1>9. Sends(hopper, hopper', Mf!FrontMan, ms)
  BY <1>7
<1>10. pending # Mf!NoMessage => ms = <<pending>>
  OBVIOUS
<1>. HIDE DEF ms
<1>11. hopper' \in Seq(AnyMsg)
  BY <1>9 DEF Sends
<1>12. FlowTypes'
  <2>1. LastOf(thoughts') = text
    BY <1>5 DEF LastOf
  <2>2. /\ flowConfig' \in FlowConfigs /\ turn' \in 0..MaxTurns /\ phase' = "running"
        /\ retries' \in 0..MaxRetries /\ indices' \in [FlowTools -> Nat]
        /\ history' \in Seq(Remembered) /\ said' \in Seq(ShortMsg) /\ runs' \in Seq(RunRecord)
    BY <1>1, <1>2, <1>3 DEF FlowTypes
  <2>. QED BY <1>2, <1>5, <1>11, <2>1, <2>2 DEF FlowTypes
<1>13. HopperAllowed'
  <2>1. AllowedIn(hopper)
    BY DEF FlowInv, HopperAllowed, AllowedIn
  <2>2. AllowedIn(hopper')
    BY <1>4, <1>9, <2>1, AllowedMore
  <2>. QED BY <1>2, <2>2 DEF AllowedIn, HopperAllowed
<1>14. RunsApart'
  BY <1>2 DEF FlowInv, RunsApart
<1>15. ResultsOfRuns'
  <2>1. ResultsIn(hopper, runs)
    BY DEF FlowInv, ResultsOfRuns, ResultsIn
  <2>2. ResultsIn(hopper', runs)
    BY <1>4, <1>8, <1>9, <2>1, ResultsMore
  <2>. QED BY <1>2, <2>2 DEF ResultsIn, ResultsOfRuns, IsResultOf
<1>16. ThoughtsHeard'
  <2>. SUFFICES ASSUME MaxFilter, NEW i \in DOMAIN thoughts'
                PROVE  IsTold(hopper', thoughts'[i]) \/ pending'.text = thoughts'[i]
    BY <1>2, <1>6 DEF ThoughtsHeard, MaxFilter, IsTold
  <2>1. CASE i = Len(thoughts) + 1
    BY <1>5, <1>6, <2>1
  <2>2. CASE i # Len(thoughts) + 1
    <3>1. i \in DOMAIN thoughts /\ thoughts'[i] = thoughts[i]
      BY <1>4, <1>5, <2>2
    <3>2. CASE IsTold(hopper, thoughts[i])
      BY <1>4, <1>9, <3>1, <3>2, ToldMore
    <3>3. CASE pending # Mf!NoMessage /\ pending.text = thoughts[i]
      <4>1. 1 \in 1..Len(ms) /\ ms[1] = pending /\ ms[1].type = "AGENT"
        BY <1>8, <1>10, <3>3
      <4>2. IsTold(hopper', ms[1].text)
        BY <1>4, <1>8, <1>9, <4>1, ToldNow
      <4>. QED BY <3>1, <3>3, <4>1, <4>2
    <3>4. IsTold(hopper, thoughts[i]) \/ (pending # Mf!NoMessage /\ pending.text = thoughts[i])
      BY <3>1 DEF FlowInv, ThoughtsHeard
    <3>. QED BY <3>2, <3>3, <3>4
  <2>. QED BY <2>1, <2>2
<1>17. AnswersOnce'
  <2>1. ASSUME NEW t, Twice(thoughts, t) PROVE Twice(thoughts', t)
    <3>1. PICK j, k \in DOMAIN thoughts : j # k /\ thoughts[j] = t /\ thoughts[k] = t
      BY <2>1 DEF Twice
    <3>2. j \in DOMAIN thoughts' /\ k \in DOMAIN thoughts' /\ thoughts'[j] = t /\ thoughts'[k] = t
      BY <1>4, <1>5, <3>1
    <3>. QED BY <3>1, <3>2 DEF Twice
  <2>2. EchoFree(hopper, thoughts)
    BY DEF FlowInv, AnswersOnce, EchoFree
  <2>3. EchoFree(hopper', thoughts)
    BY <1>4, <1>8, <1>9, <2>2, EchoFreeMore
  <2>4. \A i \in 2..Len(hopper') : IsEcho(hopper', i) => Twice(thoughts', hopper'[i].text)
    BY <2>1, <2>3 DEF EchoFree
  <2>5. ASSUME MaxFilter, hopper' # <<>>, IsThought(LastOf(hopper'))
        PROVE  \E k \in 1..(Len(thoughts') - 1) : thoughts'[k] = LastOf(hopper').text
    <3>1. CASE pending = Mf!NoMessage
      <4>1. hopper' = hopper
        BY <1>2, <3>1
      <4>. QED BY <1>1, <2>5, <3>1, <4>1 DEF FlowInv, AnswersOnce
    <3>2. CASE pending # Mf!NoMessage
      <4>1. ms # <<>> /\ LastOf(ms) = pending
        <5>1. <<pending>> # <<>> /\ LastOf(<<pending>>) = pending
          BY DEF LastOf
        <5>. QED BY <1>10, <3>2, <5>1
      <4>2. IsDelivered(LastOf(hopper'), Mf!FrontMan, pending)
        BY <1>4, <1>8, <1>9, <2>5, <4>1, LastSent
      <4>3. pending.type = "AGENT" /\ thoughts # <<>> /\ pending.text = LastOf(thoughts)
        BY <1>3, <3>2, PendingIs
      <4>4. LastOf(hopper').text = thoughts[Len(thoughts)]
        BY <4>2, <4>3 DEF IsDelivered, LastOf
      <4>5. Len(thoughts) \in 1..(Len(thoughts') - 1) /\ thoughts'[Len(thoughts)] = thoughts[Len(thoughts)]
        BY <1>4, <1>5, <4>3
      <4>. QED BY <4>4, <4>5
    <3>. QED BY <3>1, <3>2
  <2>. QED BY <1>2, <1>6, <2>4, <2>5 DEF AnswersOnce, MaxFilter, IsEcho, IsThought, LastOf
<1>18. SaidIsRemembered'
  BY <1>1, <1>2, SaidStays DEF FlowInv
<1>19. LastWordIsAnswer'
  BY <1>1, <1>2, NotYetAnswered DEF LastWordIsAnswer
<1>. QED BY <1>12, <1>13, <1>14, <1>15, <1>16, <1>17, <1>18, <1>19 DEF FlowInv
-----------------------------------------------------------------------------
(* The messages of an agent: tools and retries *)

\* What a write writes: m last, and before it at most what was on hold.
LEMMA WriteIs ==
  ASSUME FlowTypes, NEW m \in ShortMsg, NEW w, w = Append(Mf!Flushed(pending, m), m)
  PROVE  /\ w \in Seq(AnyMsg) /\ w # <<>> /\ LastOf(w) = m
         /\ \A j \in 1..Len(w) : w[j] = m \/ w[j].type = "AGENT"
<1>1. w \in Seq(AnyMsg)
  BY FlushedTypes
<1>2. CASE w = <<m>>
  <2>1. <<m>> # <<>> /\ LastOf(<<m>>) = m /\ \A j \in 1..Len(<<m>>) : <<m>>[j] = m
    BY DEF LastOf
  <2>. QED BY <1>1, <1>2, <2>1
<1>3. CASE pending # Mf!NoMessage /\ w = <<pending, m>>
  <2>1. pending.type = "AGENT"
    BY <1>3, PendingIs
  <2>2. /\ <<pending, m>> # <<>> /\ LastOf(<<pending, m>>) = m
        /\ \A j \in 1..Len(<<pending, m>>) : <<pending, m>>[j] = m \/ <<pending, m>>[j] = pending
    BY DEF LastOf
  <2>. QED BY <1>1, <1>3, <2>1, <2>2
<1>. QED BY <1>2, <1>3, FlushedIs

\* Two journals write one after the other.
LEMMA BothSend ==
  ASSUME FlowTypes, NEW m \in ShortMsg, NEW o \in Mf!Origins, NEW z \in ShortMsg, NEW w,
         w = Append(Mf!Flushed(pending, m), m),
         hopper' = hopper \o Mf!Delivered(Mf!FrontMan, w) \o Mf!Delivered(o, <<z>>)
  PROVE  \E g \in Seq(AnyMsg) : Sends(hopper, g, Mf!FrontMan, w) /\ Sends(g, hopper', o, <<z>>)
<1>. DEFINE g == hopper \o Mf!Delivered(Mf!FrontMan, w)
<1>1. hopper \in Seq(AnyMsg) /\ w \in Seq(AnyMsg) /\ z \in AnyMsg
  BY WriteIs, ShortIsAny DEF FlowTypes
<1>2. Sends(hopper, g, Mf!FrontMan, w)
  BY <1>1, SendsIs, OriginTypes
<1>3. hopper' = g \o Mf!Delivered(o, <<z>>)
  OBVIOUS
<1>. HIDE DEF g
<1>4. g \in Seq(AnyMsg) /\ <<z>> \in Seq(AnyMsg)
  BY <1>1, <1>2 DEF Sends
<1>5. Sends(g, hopper', o, <<z>>)
  BY <1>3, <1>4, SendsIs
<1>. QED BY <1>2, <1>4, <1>5

\* What holds of the queue when a tool starts or ends.
LEMMA ToolTells ==
  ASSUME FlowInv, NEW m \in ShortMsg, m.type \in {"AGENT", "AGENT_TOOL_RESULT"}, NEW z \in ShortMsg, z.type = "AGENT",
         NEW o \in Mf!Origins, o # Mf!FrontMan, NEW w, w = Append(Mf!Flushed(pending, m), m),
         hopper' = hopper \o Mf!Delivered(Mf!FrontMan, w) \o Mf!Delivered(o, <<z>>),
         phase = "running", phase' = phase, thoughts' = thoughts, flowConfig' = flowConfig,
         RunsLater(runs, runs'), m.type = "AGENT_TOOL_RESULT" => IsResultOf(m, runs')
  PROVE  hopper' \in Seq(AnyMsg) /\ HopperAllowed' /\ ResultsOfRuns' /\ ThoughtsHeard' /\ AnswersOnce'
<1>1. FlowTypes /\ hopper \in Seq(AnyMsg) /\ thoughts \in Seq(Texts)
  BY DEF FlowInv, FlowTypes
<1>2. PICK g \in Seq(AnyMsg) : Sends(hopper, g, Mf!FrontMan, w) /\ Sends(g, hopper', o, <<z>>)
  BY <1>1, BothSend
<1>3. /\ w \in Seq(AnyMsg) /\ w # <<>> /\ LastOf(w) = m
      /\ \A j \in 1..Len(w) : w[j] = m \/ w[j].type = "AGENT"
  BY <1>1, WriteIs
<1>4. z \in AnyMsg /\ <<z>> \in Seq(AnyMsg) /\ <<z>> # <<>> /\ LastOf(<<z>>) = z /\ \A j \in 1..Len(<<z>>) : <<z>>[j] = z
  <2>1. z \in AnyMsg
    BY ShortIsAny
  <2>. QED BY <2>1 DEF LastOf
<1>5. hopper' \in Seq(AnyMsg)
  BY <1>2 DEF Sends
<1>6. HopperAllowed'
  <2>1. AllowedIn(hopper)
    BY DEF FlowInv, HopperAllowed, AllowedIn
  <2>2. AllowedIn(g)
    BY <1>1, <1>2, <2>1, AllowedMore
  <2>3. AllowedIn(hopper')
    BY <1>2, <2>2, AllowedMore
  <2>. QED BY <2>3 DEF AllowedIn, HopperAllowed
<1>7. ResultsOfRuns'
  <2>1. ResultsIn(hopper, runs)
    BY DEF FlowInv, ResultsOfRuns, ResultsIn
  <2>2. ResultsIn(hopper, runs')
    BY <2>1, ResultsLater
  <2>3. \A j \in 1..Len(w) : w[j].type = "AGENT_TOOL_RESULT" => IsResultOf(w[j], runs')
    BY <1>3
  <2>4. ResultsIn(g, runs')
    BY <1>1, <1>2, <2>2, <2>3, ResultsMore
  <2>5. \A j \in 1..Len(<<z>>) : <<z>>[j].type = "AGENT_TOOL_RESULT" => IsResultOf(<<z>>[j], runs')
    BY <1>4
  <2>6. ResultsIn(hopper', runs')
    BY <1>2, <2>4, <2>5, ResultsMore
  <2>. QED BY <2>6 DEF ResultsIn, ResultsOfRuns, IsResultOf
<1>8. ThoughtsHeard'
  <2>. SUFFICES ASSUME MaxFilter, NEW i \in DOMAIN thoughts PROVE IsTold(hopper', thoughts[i])
    BY DEF ThoughtsHeard, MaxFilter, IsTold
  <2>1. ThoughtsHeard /\ (m.type # "AGENT_FRAMEWORK" \/ ~m.text.block)
    BY DEF FlowInv
  <2>2. LET v == Append(Mf!Flushed(pending, m), m) IN Len(w) >= Len(v) /\ \A k \in 1..Len(v) : w[k] = v[k]
    BY <1>3
  <2>3. IsTold(g, thoughts[i])
    BY <1>1, <1>2, <1>3, <2>1, <2>2, WriteTells
  <2>. QED BY <1>2, <2>3, ToldMore
<1>9. AnswersOnce'
  <2>1. EchoFree(hopper, thoughts)
    BY DEF FlowInv, AnswersOnce, EchoFree
  <2>2. \A j \in 1..Len(w) : w[j].type # "AI"
    BY <1>3
  <2>3. EchoFree(g, thoughts)
    BY <1>1, <1>2, <2>1, <2>2, EchoFreeMore
  <2>4. \A j \in 1..Len(<<z>>) : <<z>>[j].type # "AI"
    BY <1>4
  <2>5. EchoFree(hopper', thoughts)
    BY <1>2, <2>3, <2>4, EchoFreeMore
  <2>6. ASSUME MaxFilter PROVE ~IsThought(LastOf(hopper'))
    <3>1. IsDelivered(LastOf(hopper'), o, z)
      BY <1>2, <1>4, <2>6, LastSent
    <3>. QED BY <3>1 DEF IsDelivered, IsThought
  <2>. QED BY <2>5, <2>6 DEF AnswersOnce, MaxFilter, EchoFree, IsEcho, IsThought, LastOf
<1>. QED BY <1>5, <1>6, <1>7, <1>8, <1>9

LEMMA ToolStartKeeps ==
  ASSUME FlowInv, Mf!ToolStart PROVE FlowInv'
<1>1. PICK t \in FlowTools :
        LET origin == Mf!NewOrigin(t)
            call == Mf!AgentMessage(Mf!Plain("invoking"), "params")
            given == Mf!AgentMessage(Mf!Plain("received"), "tool_args")
        IN /\ phase = "running" /\ thoughts # <<>> /\ Len(runs) < MaxRuns
           /\ runs' = Append(runs, [tool |-> t, origin |-> origin, state |-> "running"])
           /\ indices' = [indices EXCEPT ![t] = @ + 1]
           /\ pending' = Mf!NoMessage /\ UNCHANGED history
           /\ hopper' = hopper \o Mf!Delivered(Mf!FrontMan, Append(Mf!Flushed(pending, call), call))
                               \o Mf!Delivered(origin, <<given>>)
           /\ UNCHANGED <<flowConfig, turn, phase, context, said, thoughts, retries>>
  BY DEF Mf!ToolStart
<1>. DEFINE o == OriginAt(t, indices[t])
<1>. DEFINE call == Mf!AgentMessage(Mf!Plain("invoking"), "params")
<1>. DEFINE given == Mf!AgentMessage(Mf!Plain("received"), "tool_args")
<1>. DEFINE new == [tool |-> t, origin |-> o, state |-> "running"]
<1>2. /\ phase = "running" /\ flowConfig' = flowConfig /\ turn' = turn /\ phase' = phase /\ context' = context
      /\ said' = said /\ thoughts' = thoughts /\ retries' = retries /\ history' = history /\ pending' = Mf!NoMessage
      /\ runs' = Append(runs, new) /\ indices' = [indices EXCEPT ![t] = @ + 1]
      /\ hopper' = hopper \o Mf!Delivered(Mf!FrontMan, Append(Mf!Flushed(pending, call), call)) \o Mf!Delivered(o, <<given>>)
  BY <1>1 DEF Mf!NewOrigin, OriginAt
<1>3. FlowTypes /\ indices \in [FlowTools -> Nat] /\ runs \in Seq(RunRecord) /\ Len(runs) \in Nat
  BY DEF FlowInv, FlowTypes
<1>4. indices[t] \in Nat /\ o \in Mf!Origins /\ o # Mf!FrontMan
  BY <1>3, OriginAtIs
<1>5. call \in ShortMsg /\ call.type = "AGENT" /\ given \in ShortMsg /\ given.type = "AGENT"
  <2>1. Mf!Plain("invoking") \in Phrases /\ Mf!Plain("received") \in Phrases
        /\ "params" \in Mf!Structures /\ "tool_args" \in Mf!Structures
    BY PlainTypes, WordsOfTheServer
  <2>. QED BY <2>1, AgentMessageIs
<1>6. new \in RunRecord /\ new.tool = t /\ new.origin = o
  <2>. HIDE DEF o
  <2>. QED BY <1>4 DEF RunRecord
<1>7. \A u \in FlowTools, k \in Nat : OriginAt(u, k) = o => u = t /\ k = indices[t]
  BY <1>4, OriginAtIs
<1>. HIDE DEF o, new, call, given
<1>8. /\ runs' \in Seq(RunRecord) /\ Len(runs') = Len(runs) + 1 /\ runs'[Len(runs) + 1] = new
      /\ \A r \in 1..Len(runs) : runs'[r] = runs[r]
      /\ DOMAIN runs = 1..Len(runs) /\ DOMAIN runs' = 1..(Len(runs) + 1)
  BY <1>2, <1>3, <1>6
<1>9. /\ indices' \in [FlowTools -> Nat] /\ indices'[t] = indices[t] + 1
      /\ \A u \in FlowTools : u # t => indices'[u] = indices[u]
  BY <1>2, <1>3
<1>10. RunsLater(runs, runs')
  BY <1>3, <1>8 DEF RunsLater
<1>11. hopper' \in Seq(AnyMsg) /\ HopperAllowed' /\ ResultsOfRuns' /\ ThoughtsHeard' /\ AnswersOnce'
  BY <1>2, <1>4, <1>5, <1>10, ToolTells
<1>12. FlowTypes'
  BY <1>2, <1>3, <1>8, <1>9, <1>11 DEF FlowTypes
<1>13. RunsApart'
  <2>1. ASSUME NEW r \in 1..Len(runs)
        PROVE  \E k \in Nat : /\ k < indices[runs[r].tool] /\ k < indices'[runs[r].tool]
                              /\ runs[r].origin = OriginAt(runs[r].tool, k)
    <3>1. PICK k \in Nat : k < indices[runs[r].tool] /\ runs[r].origin = OriginAt(runs[r].tool, k)
      BY <1>8 DEF FlowInv, RunsApart
    <3>2. runs[r].tool \in FlowTools
      <4>1. runs[r] \in RunRecord
        BY <1>3, <1>8
      <4>. QED BY <4>1 DEF RunRecord
    <3>3. indices[runs[r].tool] \in Nat /\ indices'[runs[r].tool] >= indices[runs[r].tool]
      BY <1>3, <1>9, <3>2
    <3>4. indices'[runs[r].tool] \in Nat
      BY <1>9, <3>2
    <3>. QED BY <3>1, <3>3, <3>4
  <2>2. ASSUME NEW r \in 1..Len(runs) PROVE runs[r].origin # o
    <3>1. PICK k \in Nat : k < indices[runs[r].tool] /\ runs[r].origin = OriginAt(runs[r].tool, k)
      BY <2>1
    <3>2. runs[r].tool \in FlowTools
      <4>1. runs[r] \in RunRecord
        BY <1>3, <1>8
      <4>. QED BY <4>1 DEF RunRecord
    <3>. QED BY <1>4, <1>7, <3>1, <3>2
  <2>3. ASSUME NEW r \in 1..(Len(runs) + 1)
        PROVE  \E k \in Nat : k < indices'[runs'[r].tool] /\ runs'[r].origin = OriginAt(runs'[r].tool, k)
    <3>1. CASE r = Len(runs) + 1
      <4>1. runs'[r].tool = t /\ runs'[r].origin = OriginAt(t, indices[t]) /\ indices[t] < indices'[t]
        BY <1>4, <1>6, <1>8, <1>9, <3>1 DEF o
      <4>. QED BY <1>4, <4>1
    <3>2. CASE r # Len(runs) + 1
      <4>1. r \in 1..Len(runs) /\ runs'[r] = runs[r]
        BY <1>3, <1>8, <3>2
      <4>. QED BY <2>1, <4>1
    <3>. QED BY <3>1, <3>2
  <2>4. ASSUME NEW r \in 1..(Len(runs) + 1), NEW s \in 1..(Len(runs) + 1), runs'[r].origin = runs'[s].origin
        PROVE  r = s
    <3>1. r # Len(runs) + 1 => r \in 1..Len(runs) /\ runs'[r] = runs[r]
      BY <1>3, <1>8
    <3>2. s # Len(runs) + 1 => s \in 1..Len(runs) /\ runs'[s] = runs[s]
      BY <1>3, <1>8
    <3>3. runs'[Len(runs) + 1].origin = o
      BY <1>6, <1>8
    <3>4. r \in 1..Len(runs) /\ s \in 1..Len(runs) /\ runs[r].origin = runs[s].origin => r = s
      BY <1>8 DEF FlowInv, RunsApart
    <3>. QED BY <2>2, <2>4, <3>1, <3>2, <3>3, <3>4
  <2>. QED BY <1>8, <2>3, <2>4 DEF RunsApart
<1>14. SaidIsRemembered'
  BY <1>2, SaidStays DEF FlowInv
<1>15. LastWordIsAnswer'
  BY <1>2, NotYetAnswered DEF LastWordIsAnswer
<1>. QED BY <1>11, <1>12, <1>13, <1>14, <1>15 DEF FlowInv

LEMMA ToolEndKeeps ==
  ASSUME FlowInv, Mf!ToolEnd PROVE FlowInv'
<1>1. PICK r \in DOMAIN runs :
        LET result == Mf!ToolResult(Mf!Plain(runs[r].tool), Mf!OriginOf(r))
            end == Mf!AgentMessage(Mf!Plain("got"), "tool_output")
        IN /\ phase = "running" /\ runs[r].state = "running"
           /\ runs' = [runs EXCEPT ![r].state = "ended"]
           /\ history' = Mf!Remember(history, result) /\ pending' = Mf!NoMessage
           /\ hopper' = hopper \o Mf!Delivered(Mf!FrontMan, Append(Mf!Flushed(pending, result), result))
                               \o Mf!Delivered(Mf!OriginOf(r), <<end>>)
           /\ Mf!Says(result) /\ UNCHANGED <<flowConfig, turn, phase, context, indices, thoughts, retries>>
  BY DEF Mf!ToolEnd
<1>. DEFINE o == runs[r].origin
<1>. DEFINE words == Mf!Plain(runs[r].tool)
<1>. DEFINE result == Mf!ToolResult(words, o)
<1>. DEFINE end == Mf!AgentMessage(Mf!Plain("got"), "tool_output")
<1>2. /\ phase = "running" /\ flowConfig' = flowConfig /\ turn' = turn /\ phase' = phase /\ context' = context
      /\ indices' = indices /\ thoughts' = thoughts /\ retries' = retries /\ pending' = Mf!NoMessage
      /\ runs' = [runs EXCEPT ![r].state = "ended"] /\ history' = Mf!Remember(history, result) /\ Mf!Says(result)
      /\ hopper' = hopper \o Mf!Delivered(Mf!FrontMan, Append(Mf!Flushed(pending, result), result)) \o Mf!Delivered(o, <<end>>)
  BY <1>1 DEF Mf!OriginOf
<1>3. FlowTypes /\ runs \in Seq(RunRecord) /\ Len(runs) \in Nat /\ DOMAIN runs = 1..Len(runs)
      /\ history \in Seq(Remembered) /\ said \in Seq(ShortMsg)
  BY DEF FlowInv, FlowTypes
<1>4. runs[r] \in RunRecord
  BY <1>3
<1>5. runs[r].tool \in FlowTools /\ o \in Mf!Origins
  BY <1>4 DEF RunRecord
<1>6. o # Mf!FrontMan
  <2>1. PICK k \in Nat : o = OriginAt(runs[r].tool, k)
    BY DEF FlowInv, RunsApart
  <2>. QED BY <1>5, <2>1, OriginAtIs
<1>7. words \in Phrases /\ words # Mf!NoText /\ "AI" \in Mf!MessageTypes
  <2>1. runs[r].tool \in Mf!Words /\ runs[r].tool # "null"
    BY <1>5, WordsOfTheServer, FlowFacts
  <2>. QED BY <2>1, PlainTypes DEF Mf!MessageTypes
<1>. HIDE DEF words
<1>8. result \in ShortMsg /\ result.type = "AGENT_TOOL_RESULT" /\ result.text = words /\ result.result = o
  <2>. HIDE DEF o
  <2>. QED BY <1>5, <1>7, ToolResultIs
<1>9. end \in ShortMsg /\ end.type = "AGENT"
  <2>1. Mf!Plain("got") \in Phrases /\ "tool_output" \in Mf!Structures
    BY PlainTypes, WordsOfTheServer
  <2>. QED BY <2>1, AgentMessageIs
<1>. HIDE DEF result, end
<1>. DEFINE ai == Mf!Message("AI", words)
<1>10. history' = Append(history, ai) /\ ai \in Remembered
  BY <1>2, <1>3, <1>7, <1>8, RememberIs
<1>11. said' = Append(said, ai)
  BY <1>2, <1>8 DEF Mf!Says
<1>. HIDE DEF ai
<1>12. /\ runs' \in Seq(RunRecord) /\ DOMAIN runs' = DOMAIN runs /\ runs'[r].state = "ended"
       /\ \A s \in DOMAIN runs : runs'[s].tool = runs[s].tool /\ runs'[s].origin = runs[s].origin
                                 /\ (s # r => runs'[s] = runs[s])
  <2>. DEFINE e == [runs[r] EXCEPT !.state = "ended"]
  <2>1. e \in RunRecord /\ e.tool = runs[r].tool /\ e.origin = runs[r].origin /\ e.state = "ended"
    <3>. DEFINE a == runs[r]
    <3>1. a \in RunRecord
      BY <1>4
    <3>. HIDE DEF a
    <3>2. [a EXCEPT !.state = "ended"] \in RunRecord /\ [a EXCEPT !.state = "ended"].tool = a.tool
          /\ [a EXCEPT !.state = "ended"].origin = a.origin /\ [a EXCEPT !.state = "ended"].state = "ended"
      BY <3>1 DEF RunRecord
    <3>. QED BY <3>2 DEF a
  <2>2. runs' = [runs EXCEPT ![r] = e]
    BY <1>2
  <2>. HIDE DEF e
  <2>3. runs' \in Seq(RunRecord) /\ DOMAIN runs' = DOMAIN runs /\ runs'[r] = e
        /\ \A s \in DOMAIN runs : s # r => runs'[s] = runs[s]
    BY <1>3, <2>1, <2>2
  <2>4. ASSUME NEW s \in DOMAIN runs
        PROVE  runs'[s].tool = runs[s].tool /\ runs'[s].origin = runs[s].origin /\ (s # r => runs'[s] = runs[s])
    BY <2>1, <2>3
  <2>. QED BY <2>1, <2>3, <2>4
<1>13. RunsLater(runs, runs')
  BY <1>12 DEF RunsLater
<1>14. IsResultOf(result, runs')
  <2>1. runs'[r].origin = result.result /\ runs'[r].state = "ended" /\ result.text = Mf!Plain(runs'[r].tool)
        /\ r \in DOMAIN runs'
    BY <1>8, <1>12 DEF words
  <2>. QED BY <2>1 DEF IsResultOf
<1>15. hopper' \in Seq(AnyMsg) /\ HopperAllowed' /\ ResultsOfRuns' /\ ThoughtsHeard' /\ AnswersOnce'
  <2>. HIDE DEF o
  <2>. QED BY <1>2, <1>5, <1>6, <1>8, <1>9, <1>13, <1>14, ToolTells
<1>16. FlowTypes'
  <2>1. history' \in Seq(Remembered) /\ said' \in Seq(ShortMsg)
    BY <1>3, <1>10, <1>11 DEF Remembered
  <2>. QED BY <1>2, <1>3, <1>12, <1>15, <2>1 DEF FlowTypes
<1>17. RunsApart'
  <2>1. ASSUME NEW s \in DOMAIN runs
        PROVE  \E k \in Nat : k < indices'[runs'[s].tool] /\ runs'[s].origin = OriginAt(runs'[s].tool, k)
    <3>1. \E k \in Nat : k < indices[runs[s].tool] /\ runs[s].origin = OriginAt(runs[s].tool, k)
      BY DEF FlowInv, RunsApart
    <3>2. runs'[s].tool = runs[s].tool /\ runs'[s].origin = runs[s].origin
      BY <1>12
    <3>. QED BY <1>2, <3>1, <3>2
  <2>2. ASSUME NEW s \in DOMAIN runs, NEW q \in DOMAIN runs, runs'[s].origin = runs'[q].origin PROVE s = q
    <3>1. runs[s].origin = runs[q].origin
      BY <1>12, <2>2
    <3>. QED BY <3>1 DEF FlowInv, RunsApart
  <2>. QED BY <1>12, <2>1, <2>2 DEF RunsApart
<1>18. SaidIsRemembered'
  BY <1>2, <1>3, <1>10, <1>11, SaidMore DEF FlowInv
<1>19. LastWordIsAnswer'
  BY <1>2, NotYetAnswered DEF LastWordIsAnswer
<1>. QED BY <1>15, <1>16, <1>17, <1>18, <1>19 DEF FlowInv
LEMMA RetryKeeps ==
  ASSUME FlowInv, Mf!Retry PROVE FlowInv'
<1>. DEFINE m == Mf!FrameworkMessage(Mf!Plain("retrying"))
<1>. DEFINE w == Append(Mf!Flushed(pending, m), m)
<1>1. /\ phase = "running" /\ retries < MaxRetries /\ retries' = retries + 1 /\ runs' = Mf!Lost
      /\ flowConfig' = flowConfig /\ turn' = turn /\ phase' = phase /\ context' = context /\ indices' = indices
      /\ said' = said /\ thoughts' = thoughts
      /\ \/ /\ history' = Mf!Remember(history, m) /\ pending' = Mf!NoMessage
            /\ hopper' = hopper \o Mf!Delivered(Mf!FrontMan, w)
         \/ history' = history /\ pending' = pending /\ hopper' = hopper
  BY DEF Mf!Retry, Mf!Write
<1>2. FlowTypes /\ history \in Seq(Remembered) /\ hopper \in Seq(AnyMsg) /\ retries \in Nat /\ MaxRetries \in Nat
  BY FlowFacts DEF FlowInv, FlowTypes
<1>3. m \in ShortMsg /\ m.type = "AGENT_FRAMEWORK" /\ ~m.text.block /\ m.text # Mf!NoText
  <2>1. Mf!Plain("retrying") \in Phrases /\ ~Mf!Plain("retrying").block /\ Mf!Plain("retrying") # Mf!NoText
    BY PlainTypes, WordsOfTheServer
  <2>. QED BY <2>1, FrameworkMessageIs
<1>. HIDE DEF m
<1>4. history' = history
  BY <1>1, <1>2, <1>3, RememberIs
<1>5. /\ w \in Seq(AnyMsg) /\ w # <<>> /\ LastOf(w) = m
      /\ \A j \in 1..Len(w) : w[j] = m \/ w[j].type = "AGENT"
  BY <1>2, <1>3, WriteIs
<1>6. LET v == Append(Mf!Flushed(pending, m), m) IN Len(w) >= Len(v) /\ \A k \in 1..Len(v) : w[k] = v[k]
  BY <1>5
<1>. HIDE DEF w
<1>7. \/ pending' = Mf!NoMessage /\ Sends(hopper, hopper', Mf!FrontMan, w)
      \/ pending' = pending /\ hopper' = hopper
  BY <1>1, <1>2, <1>5, SendsIs, OriginTypes
<1>8. hopper' \in Seq(AnyMsg)
  BY <1>2, <1>7 DEF Sends
<1>9. /\ runs' \in Seq(RunRecord) /\ DOMAIN runs' = DOMAIN runs /\ RunsLater(runs, runs')
      /\ \A r \in DOMAIN runs : runs'[r].tool = runs[r].tool /\ runs'[r].origin = runs[r].origin
  BY <1>1, <1>2, LostIs DEF RunsLater
<1>10. FlowTypes'
  <2>1. retries' \in 0..MaxRetries
    BY <1>1, <1>2
  <2>. QED BY <1>1, <1>2, <1>4, <1>8, <1>9, <2>1 DEF FlowTypes
<1>11. HopperAllowed'
  <2>1. AllowedIn(hopper)
    BY DEF FlowInv, HopperAllowed, AllowedIn
  <2>2. AllowedIn(hopper')
    BY <1>2, <1>7, <2>1, AllowedMore
  <2>. QED BY <1>1, <2>2 DEF AllowedIn, HopperAllowed
<1>12. RunsApart'
  <2>1. ASSUME NEW s \in DOMAIN runs
        PROVE  \E k \in Nat : k < indices'[runs'[s].tool] /\ runs'[s].origin = OriginAt(runs'[s].tool, k)
    <3>1. \E k \in Nat : k < indices[runs[s].tool] /\ runs[s].origin = OriginAt(runs[s].tool, k)
      BY DEF FlowInv, RunsApart
    <3>2. runs'[s].tool = runs[s].tool /\ runs'[s].origin = runs[s].origin
      BY <1>9
    <3>. QED BY <1>1, <3>1, <3>2
  <2>2. ASSUME NEW s \in DOMAIN runs, NEW q \in DOMAIN runs, runs'[s].origin = runs'[q].origin PROVE s = q
    <3>1. runs[s].origin = runs[q].origin
      BY <1>9, <2>2
    <3>. QED BY <3>1 DEF FlowInv, RunsApart
  <2>. QED BY <1>9, <2>1, <2>2 DEF RunsApart
<1>13. ResultsOfRuns'
  <2>1. ResultsIn(hopper, runs)
    BY DEF FlowInv, ResultsOfRuns, ResultsIn
  <2>2. ResultsIn(hopper, runs')
    BY <1>9, <2>1, ResultsLater
  <2>3. \A j \in 1..Len(w) : w[j].type = "AGENT_TOOL_RESULT" => IsResultOf(w[j], runs')
    BY <1>3, <1>5
  <2>4. ResultsIn(hopper', runs')
    BY <1>2, <1>7, <2>2, <2>3, ResultsMore
  <2>. QED BY <2>4 DEF ResultsIn, ResultsOfRuns, IsResultOf
<1>14. ThoughtsHeard'
  <2>1. CASE pending' = pending /\ hopper' = hopper
    BY <1>1, <2>1 DEF FlowInv, ThoughtsHeard, MaxFilter, IsTold
  <2>2. CASE Sends(hopper, hopper', Mf!FrontMan, w)
    <3>. SUFFICES ASSUME MaxFilter, NEW i \in DOMAIN thoughts PROVE IsTold(hopper', thoughts[i])
      BY <1>1 DEF ThoughtsHeard, MaxFilter, IsTold
    <3>1. ThoughtsHeard
      BY DEF FlowInv
    <3>. QED BY <1>2, <1>3, <1>5, <1>6, <2>2, <3>1, WriteTells
  <2>. QED BY <1>7, <2>1, <2>2
<1>15. AnswersOnce'
  <2>1. CASE pending' = pending /\ hopper' = hopper
    BY <1>1, <2>1 DEF FlowInv, AnswersOnce, MaxFilter
  <2>2. CASE Sends(hopper, hopper', Mf!FrontMan, w)
    <3>1. EchoFree(hopper, thoughts)
      BY DEF FlowInv, AnswersOnce, EchoFree
    <3>2. \A j \in 1..Len(w) : w[j].type # "AI"
      BY <1>3, <1>5
    <3>3. EchoFree(hopper', thoughts)
      BY <1>2, <2>2, <3>1, <3>2, EchoFreeMore
    <3>4. ASSUME MaxFilter PROVE ~IsThought(LastOf(hopper'))
      <4>1. IsDelivered(LastOf(hopper'), Mf!FrontMan, m)
        BY <1>2, <1>5, <2>2, <3>4, LastSent
      <4>. QED BY <1>3, <4>1 DEF IsDelivered, IsThought
    <3>. QED BY <1>1, <3>3, <3>4 DEF AnswersOnce, MaxFilter, EchoFree, IsEcho, IsThought, LastOf
  <2>. QED BY <1>7, <2>1, <2>2
<1>16. SaidIsRemembered'
  BY <1>1, <1>4, SaidStays DEF FlowInv
<1>17. LastWordIsAnswer'
  BY <1>1, NotYetAnswered DEF LastWordIsAnswer
<1>. QED BY <1>10, <1>11, <1>12, <1>13, <1>14, <1>15, <1>16, <1>17 DEF FlowInv

\* The answer is an echo of the message before it only if the LLM had said it before.
LEMMA AnswerEchoes ==
  ASSUME FlowInv, phase = "running", NEW ai \in ShortMsg, ai.type = "AI", NEW tokens \in Seq(AnyMsg),
         \A j \in 1..Len(tokens) : tokens[j].type = "AGENT", NEW ms \in Seq(AnyMsg),
         ms = Append(Mf!Flushed(pending, ai), ai) \o tokens,
         NEW g, Sends(hopper, g, Mf!FrontMan, ms), AllowedIn(g)
  PROVE  EchoFree(g, thoughts)
<1>1. FlowTypes /\ hopper \in Seq(AnyMsg) /\ Len(hopper) \in Nat /\ thoughts \in Seq(Texts)
  BY DEF FlowInv, FlowTypes
<1>2. g \in Seq(AnyMsg) /\ Len(g) \in Nat /\ DOMAIN g = 1..Len(g) /\ DOMAIN hopper = 1..Len(hopper)
      /\ \A i \in 1..Len(hopper) : g[i] = hopper[i]
  BY <1>1 DEF Sends
<1>. DEFINE w == Append(Mf!Flushed(pending, ai), ai)
<1>3. w \in Seq(AnyMsg) /\ ms = w \o tokens
  BY <1>1, WriteIs
<1>4. \/ (pending = Mf!NoMessage \/ pending.text = ai.text) /\ w = <<ai>>
      \/ pending # Mf!NoMessage /\ pending.text # ai.text /\ w = <<pending, ai>>
  BY <1>1, FlushedIs
<1>. HIDE DEF w
<1>5. Len(ms) = Len(w) + Len(tokens) /\ Len(w) \in Nat /\ Len(tokens) \in Nat
      /\ (\A j \in 1..Len(w) : ms[j] = w[j]) /\ \A j \in 1..Len(tokens) : ms[Len(w) + j] = tokens[j]
  BY <1>3, ConcatIs
<1>6. pending # Mf!NoMessage => pending.type = "AGENT" /\ pending.text = LastOf(thoughts) /\ thoughts # <<>>
  BY <1>1, PendingIs
<1>. SUFFICES ASSUME NEW i \in 2..Len(g), IsEcho(g, i) PROVE Twice(thoughts, g[i].text)
  BY DEF EchoFree
<1>7. CASE i <= Len(hopper)
  <2>1. i \in 1..Len(hopper) /\ i - 1 \in 1..Len(hopper) /\ i \in 2..Len(hopper)
    BY <1>1, <1>7
  <2>2. g[i] = hopper[i] /\ g[i - 1] = hopper[i - 1]
    BY <1>2, <2>1
  <2>. QED BY <2>1, <2>2 DEF FlowInv, AnswersOnce, IsEcho
<1>8. CASE i > Len(hopper)
  <2>1. MaxFilter
    <3>1. i \in DOMAIN g /\ g[i].type = "AI"
      BY <1>2 DEF IsEcho
    <3>. QED BY <3>1, OthersGetContexts
  <2>. DEFINE j == i - Len(hopper)
  <2>2. Len(g) = Len(hopper) + Len(ms) /\ \A k \in 1..Len(ms) : IsDelivered(g[Len(hopper) + k], Mf!FrontMan, ms[k])
    BY <2>1 DEF Sends
  <2>3. j \in 1..Len(ms) /\ Len(hopper) + j = i
    BY <1>1, <1>2, <1>8, <2>2
  <2>. HIDE DEF j
  <2>4. IsDelivered(g[i], Mf!FrontMan, ms[j])
    BY <2>2, <2>3
  <2>5. ms[j].type = "AI"
    BY <2>4 DEF IsDelivered, IsEcho
  <2>6. j \in 1..Len(w) /\ ms[j] = w[j]
    <3>1. ASSUME j > Len(w) PROVE FALSE
      <4>1. j - Len(w) \in 1..Len(tokens) /\ Len(w) + (j - Len(w)) = j
        BY <1>5, <2>3, <3>1
      <4>2. ms[j] = tokens[j - Len(w)] /\ tokens[j - Len(w)].type = "AGENT"
        BY <1>5, <4>1
      <4>. QED BY <2>5, <4>2
    <3>2. j \in 1..Len(w)
      BY <1>5, <2>3, <3>1
    <3>. QED BY <1>5, <3>2
  <2>7. CASE w = <<ai>> /\ (pending = Mf!NoMessage \/ pending.text = ai.text)
    <3>1. j = 1 /\ ms[j] = ai
      BY <2>6, <2>7
    <3>2. g[i].text = ai.text
      BY <2>4, <3>1 DEF IsDelivered
    <3>3. i - 1 = Len(hopper) /\ Len(hopper) \in 1..Len(hopper) /\ hopper # <<>>
      BY <1>1, <2>3, <3>1
    <3>4. g[i - 1] = LastOf(hopper)
      BY <1>2, <3>3 DEF LastOf
    <3>5. IsThought(LastOf(hopper)) /\ LastOf(hopper).text = ai.text
      BY <3>2, <3>4 DEF IsEcho, IsThought
    <3>6. pending # Mf!NoMessage /\ \E k \in 1..(Len(thoughts) - 1) : thoughts[k] = LastOf(hopper).text
      BY <2>1, <3>3, <3>5 DEF FlowInv, AnswersOnce
    <3>7. PICK k \in 1..(Len(thoughts) - 1) : thoughts[k] = ai.text
      BY <3>5, <3>6
    <3>8. thoughts[Len(thoughts)] = ai.text
      BY <1>6, <2>7, <3>6 DEF LastOf
    <3>9. k \in DOMAIN thoughts /\ Len(thoughts) \in DOMAIN thoughts /\ k # Len(thoughts)
      BY <1>1, <3>7
    <3>. QED BY <3>2, <3>7, <3>8, <3>9 DEF Twice
  <2>8. CASE w = <<pending, ai>> /\ pending # Mf!NoMessage /\ pending.text # ai.text
    <3>1. j \in 1..2 /\ ms[1] = pending /\ ms[2] = ai /\ Len(ms) >= 2
      <4>1. Len(w) = 2 /\ w[1] = pending /\ w[2] = ai
        BY <2>8
      <4>. QED BY <1>5, <2>6, <4>1
    <3>2. j = 2
      BY <1>6, <2>5, <2>8, <3>1
    <3>3. 1 \in 1..Len(ms) /\ i - 1 = Len(hopper) + 1
      BY <1>1, <1>5, <2>3, <3>1, <3>2
    <3>4. IsDelivered(g[i - 1], Mf!FrontMan, pending)
      BY <2>2, <3>1, <3>3
    <3>5. g[i].text = ai.text /\ g[i - 1].text = pending.text
      BY <1>6, <2>4, <2>5, <2>8, <3>1, <3>2, <3>4 DEF IsDelivered
    <3>. QED BY <2>8, <3>5 DEF IsEcho
  <2>. QED BY <1>4, <2>7, <2>8
<1>. QED BY <1>1, <1>2, <1>7, <1>8

LEMMA AnswerKeeps ==
  ASSUME FlowInv, Mf!Answer PROVE FlowInv'
<1>1. PICK text \in {Mf!Plain("stopped")} \cup (IF thoughts = <<>> THEN {} ELSE {thoughts[Len(thoughts)]}) :
        LET ai == Mf!Message("AI", text)
            tokens == <<Mf!AgentMessage(Mf!Plain(""), "main tokens"), Mf!AgentMessage(Mf!Plain(""), "all tokens")>>
        IN /\ phase = "running"
           /\ text = Mf!Plain("stopped") \/ \A r \in DOMAIN runs : runs[r].state # "running"
           /\ phase' = "answered" /\ runs' = Mf!Lost
           /\ history' = Mf!Remember(history, ai) /\ pending' = Mf!NoMessage
           /\ hopper' = hopper \o Mf!Delivered(Mf!FrontMan, Append(Mf!Flushed(pending, ai), ai) \o tokens)
           /\ Mf!Says(ai) /\ UNCHANGED <<flowConfig, turn, context, indices, thoughts, retries>>
  BY DEF Mf!Answer
<1>. DEFINE ai == Mf!Message("AI", text)
<1>. DEFINE x == Mf!AgentMessage(Mf!Plain(""), "main tokens")
<1>. DEFINE y == Mf!AgentMessage(Mf!Plain(""), "all tokens")
<1>. DEFINE w == Append(Mf!Flushed(pending, ai), ai)
<1>. DEFINE ms == w \o <<x, y>>
<1>2. /\ phase = "running" /\ phase' = "answered" /\ runs' = Mf!Lost
      /\ flowConfig' = flowConfig /\ turn' = turn /\ context' = context /\ indices' = indices
      /\ thoughts' = thoughts /\ retries' = retries /\ pending' = Mf!NoMessage
      /\ history' = Mf!Remember(history, ai) /\ Mf!Says(ai)
      /\ hopper' = hopper \o Mf!Delivered(Mf!FrontMan, ms)
  BY <1>1
<1>3. FlowTypes /\ history \in Seq(Remembered) /\ hopper \in Seq(AnyMsg) /\ said \in Seq(ShortMsg)
      /\ thoughts \in Seq(Texts)
  BY DEF FlowInv, FlowTypes
<1>4. text \in Phrases /\ text # Mf!NoText /\ text.words # "null" /\ "AI" \in Mf!MessageTypes
  <2>1. CASE text = Mf!Plain("stopped")
    BY <2>1, PlainTypes, WordsOfTheServer DEF Mf!MessageTypes
  <2>2. CASE thoughts # <<>> /\ text = thoughts[Len(thoughts)]
    <3>1. text = thoughts[Len(thoughts)] /\ Len(thoughts) \in DOMAIN thoughts
      BY <1>3, <2>2
    <3>2. text \in Texts
      BY <1>3, <3>1
    <3>. QED BY <3>2, FlowFacts DEF Mf!MessageTypes
  <2>. QED BY <1>1, <2>1, <2>2
<1>5. ai \in ShortMsg /\ ai.type = "AI" /\ ai.text = text /\ ai.structure = "null"
  BY <1>4, MessageIs
<1>6. Mf!Message("AI", ai.text) = ai
  BY <1>5
<1>7. x \in AnyMsg /\ x.type = "AGENT" /\ y \in AnyMsg /\ y.type = "AGENT"
  <2>1. Mf!Plain("") \in Phrases /\ "main tokens" \in Mf!Structures /\ "all tokens" \in Mf!Structures
    BY PlainTypes, WordsOfTheServer
  <2>. QED BY <2>1, AgentMessageIs, ShortIsAny
<1>. HIDE DEF ai, x, y
<1>8. history' = Append(history, ai) /\ ai \in Remembered
  BY <1>2, <1>3, <1>4, <1>5, RememberIs
<1>9. said' = Append(said, ai)
  BY <1>2, <1>5, <1>6 DEF Mf!Says
<1>10. /\ w \in Seq(AnyMsg) /\ w # <<>> /\ LastOf(w) = ai
       /\ \A j \in 1..Len(w) : w[j] = ai \/ w[j].type = "AGENT"
  BY <1>3, <1>5, WriteIs
<1>11. <<x, y>> \in Seq(AnyMsg) /\ \A j \in 1..Len(<<x, y>>) : <<x, y>>[j].type = "AGENT"
  BY <1>7
<1>12. /\ ms \in Seq(AnyMsg) /\ Len(ms) = Len(w) + Len(<<x, y>>)
       /\ \A j \in 1..Len(w) : ms[j] = w[j]
       /\ \A j \in 1..Len(<<x, y>>) : ms[Len(w) + j] = <<x, y>>[j]
  <2>. HIDE DEF w
  <2>. QED BY <1>10, <1>11, ConcatIs
<1>13. \A j \in 1..Len(ms) : ms[j] = ai \/ ms[j].type = "AGENT"
  <2>. SUFFICES ASSUME NEW j \in 1..Len(ms) PROVE ms[j] = ai \/ ms[j].type = "AGENT"
    OBVIOUS
  <2>. HIDE DEF w, ms
  <2>1. Len(w) \in Nat /\ Len(<<x, y>>) \in Nat
    BY <1>10, <1>11
  <2>2. CASE j \in 1..Len(w)
    BY <1>10, <1>12, <2>2
  <2>3. CASE j \notin 1..Len(w)
    <3>1. j - Len(w) \in 1..Len(<<x, y>>) /\ Len(w) + (j - Len(w)) = j
      BY <1>12, <2>1, <2>3
    <3>. QED BY <1>11, <1>12, <3>1
  <2>. QED BY <2>2, <2>3
<1>14. LET v == Append(Mf!Flushed(pending, ai), ai) IN Len(ms) >= Len(v) /\ \A k \in 1..Len(v) : ms[k] = v[k]
  <2>. HIDE DEF ms
  <2>. QED BY <1>10, <1>12
<1>15. Sends(hopper, hopper', Mf!FrontMan, ms)
  <2>. HIDE DEF ms
  <2>. QED BY <1>2, <1>3, <1>12, SendsIs, OriginTypes
<1>16. ms = Append(Mf!Flushed(pending, ai), ai) \o <<x, y>>
  OBVIOUS
<1>. HIDE DEF w, ms
<1>17. hopper' \in Seq(AnyMsg)
  BY <1>15 DEF Sends
<1>18. /\ runs' \in Seq(RunRecord) /\ DOMAIN runs' = DOMAIN runs /\ RunsLater(runs, runs')
       /\ \A r \in DOMAIN runs : runs'[r].tool = runs[r].tool /\ runs'[r].origin = runs[r].origin
  BY <1>2, <1>3, LostIs DEF RunsLater
<1>19. FlowTypes'
  <2>1. history' \in Seq(Remembered) /\ said' \in Seq(ShortMsg)
    BY <1>3, <1>5, <1>8, <1>9
  <2>. QED BY <1>2, <1>3, <1>17, <1>18, <2>1 DEF FlowTypes
<1>20. AllowedIn(hopper')
  <2>1. AllowedIn(hopper)
    BY DEF FlowInv, HopperAllowed, AllowedIn
  <2>. QED BY <1>3, <1>15, <2>1, AllowedMore
<1>21. HopperAllowed'
  BY <1>2, <1>20 DEF AllowedIn, HopperAllowed
<1>22. RunsApart'
  <2>1. ASSUME NEW s \in DOMAIN runs
        PROVE  \E k \in Nat : k < indices'[runs'[s].tool] /\ runs'[s].origin = OriginAt(runs'[s].tool, k)
    <3>1. \E k \in Nat : k < indices[runs[s].tool] /\ runs[s].origin = OriginAt(runs[s].tool, k)
      BY DEF FlowInv, RunsApart
    <3>2. runs'[s].tool = runs[s].tool /\ runs'[s].origin = runs[s].origin
      BY <1>18
    <3>. QED BY <1>2, <3>1, <3>2
  <2>2. ASSUME NEW s \in DOMAIN runs, NEW q \in DOMAIN runs, runs'[s].origin = runs'[q].origin PROVE s = q
    <3>1. runs[s].origin = runs[q].origin
      BY <1>18, <2>2
    <3>. QED BY <3>1 DEF FlowInv, RunsApart
  <2>. QED BY <1>18, <2>1, <2>2 DEF RunsApart
<1>23. ResultsOfRuns'
  <2>1. ResultsIn(hopper, runs)
    BY DEF FlowInv, ResultsOfRuns, ResultsIn
  <2>2. ResultsIn(hopper, runs')
    BY <1>18, <2>1, ResultsLater
  <2>3. \A j \in 1..Len(ms) : ms[j].type = "AGENT_TOOL_RESULT" => IsResultOf(ms[j], runs')
    BY <1>5, <1>13
  <2>4. ResultsIn(hopper', runs')
    BY <1>3, <1>15, <2>2, <2>3, ResultsMore
  <2>. QED BY <2>4 DEF ResultsIn, ResultsOfRuns, IsResultOf
<1>24. ThoughtsHeard'
  <2>. SUFFICES ASSUME MaxFilter, NEW i \in DOMAIN thoughts PROVE IsTold(hopper', thoughts[i])
    BY <1>2 DEF ThoughtsHeard, MaxFilter, IsTold
  <2>1. ThoughtsHeard /\ (ai.type # "AGENT_FRAMEWORK" \/ ~ai.text.block)
    BY <1>5 DEF FlowInv
  <2>. QED BY <1>3, <1>5, <1>12, <1>14, <1>15, <2>1, WriteTells
<1>25. AnswersOnce'
  <2>1. EchoFree(hopper', thoughts)
    BY <1>2, <1>5, <1>11, <1>12, <1>15, <1>16, <1>20, AnswerEchoes
  <2>. QED BY <1>2, <2>1 DEF AnswersOnce, EchoFree, IsEcho
<1>26. SaidIsRemembered'
  BY <1>2, <1>3, <1>8, <1>9, SaidMore DEF FlowInv
<1>27. LastWordIsAnswer'
  <2>1. history' # <<>> /\ LastOf(history') = ai /\ said' # <<>> /\ LastOf(said') = ai
    <3>1. \A S : \A s \in Seq(S) : \A a \in S : Append(s, a) # <<>> /\ Append(s, a)[Len(Append(s, a))] = a
      OBVIOUS
    <3>2. Append(history, ai) # <<>> /\ LastOf(Append(history, ai)) = ai
      BY <1>3, <1>8, <3>1 DEF LastOf
    <3>3. Append(said, ai) # <<>> /\ LastOf(Append(said, ai)) = ai
      BY <1>3, <1>5, <3>1 DEF LastOf
    <3>. QED BY <1>8, <1>9, <3>2, <3>3
  <2>. QED BY <1>2, <1>4, <1>5, <2>1, NotYetAnswered DEF LastWordIsAnswer, LastOf
<1>. QED BY <1>19, <1>21, <1>22, <1>23, <1>24, <1>25, <1>26, <1>27 DEF FlowInv
-----------------------------------------------------------------------------
(* The messages of an agent: the last message of a request *)

\* A message with a context is delivered to everyone.
LEMMA FinalIs ==
  ASSUME NEW m \in AnyMsg, Mf!HasContext(m), NEW o \in Mf!Origins
  PROVE  Mf!Delivered(o, <<m>>) = <<Mf!AddStructure(flowConfig.formats, [m EXCEPT !.origin = o])>>
<1>. DEFINE e == [m EXCEPT !.origin = o]
<1>1. e \in AnyMsg /\ Mf!HasContext(e)
  BY AddStructureIs
<1>2. [i \in DOMAIN <<m>> |-> [<<m>>[i] EXCEPT !.origin = o]] = <<e>>
  OBVIOUS
<1>. HIDE DEF e
<1>. DEFINE I == {i \in DOMAIN <<e>> : Mf!Allows(flowConfig.filter, <<e>>[i])}
<1>3. DOMAIN <<e>> \subseteq I
  BY <1>1 DEF Mf!Allows
<1>4. <<e>> \in Seq(AnyMsg)
  BY <1>1
<1>5. Mf!Only(I, <<e>>) = <<e>>
  <2>. HIDE DEF I
  <2>. QED BY <1>3, <1>4, OnlyChooses
<1>. DEFINE f == flowConfig.formats
<1>6. Mf!Delivered(o, <<m>>) = [i \in DOMAIN <<e>> |-> Mf!AddStructure(f, <<e>>[i])]
  BY <1>2, <1>5 DEF Mf!Delivered, Mf!ToDict
<1>. HIDE DEF f
<1>7. [i \in DOMAIN <<e>> |-> Mf!AddStructure(f, <<e>>[i])] = <<Mf!AddStructure(f, e)>>
  OBVIOUS
<1>. QED BY <1>6, <1>7 DEF e, f

\* The structure of a message is what is parsed of its text, so that nothing more is found in it.
LEMMA FinalStays ==
  ASSUME NEW f, NEW t \in Phrases, t.words # "null", NEW m \in AnyMsg,
         m.text = Mf!ParseStructure(f, t).remainder, m.structure = Mf!ParseStructure(f, t).structure
  PROVE  Mf!AddStructure(f, [m EXCEPT !.origin = <<>>]) = [m EXCEPT !.origin = <<>>]
<1>. DEFINE e == [m EXCEPT !.origin = <<>>]
<1>1. e.text = m.text /\ e.structure = m.structure
  BY DEF AnyMsg
<1>. HIDE DEF e
<1>2. m.structure = "null" => m.text = t
  BY ParseIs
<1>3. e.structure # "null" \/ Mf!ParseStructure(f, e.text).structure = "null"
  BY <1>1, <1>2
<1>4. Mf!AddStructure(f, e) = e
  BY <1>3 DEF Mf!AddStructure
<1>. QED BY <1>4 DEF e

\* What the client knows after the last message.
LEMMA ClientKnows ==
  ASSUME NEW h \in Seq(AnyMsg), NEW d \in AnyMsg, d.type = "AGENT_FRAMEWORK", d.origin = <<>>,
         d.context.there, d.text # Mf!NoText
  PROVE  /\ Mf!Client(Append(h, d)).context = d.context
         /\ Mf!Client(Append(h, d)).answer = d.text /\ Mf!Client(Append(h, d)).structure = d.structure
<1>. DEFINE g == Append(h, d)
<1>1. g \in Seq(AnyMsg) /\ g # <<>> /\ g[Len(g)] = d
  OBVIOUS
<1>. HIDE DEF g
<1>2. PICK k \in Knowns : Mf!Client(g) = Mf!Receive(k, d)
  BY <1>1, ClientIs
<1>3. Mf!HasContext(d) /\ Mf!IsAnswer(d)
  BY DEF Mf!HasContext, Mf!IsAnswer
<1>4. Mf!Client(g).context = d.context
  BY <1>2, <1>3, ReceiveIs
<1>5. Mf!Client(g).answer = Mf!ReceiveAnswer(<<>>, k, d).answer
      /\ Mf!Client(g).structure = Mf!ReceiveAnswer(<<>>, k, d).structure
  BY <1>2, ReceiveIs
<1>6. Mf!ParseStructure(<<>>, d.text) = [structure |-> "null", remainder |-> d.text]
  <2>1. Mf!Range(<<>>) = {}
    BY DEF Mf!Range
  <2>. QED BY <2>1 DEF Mf!ParseStructure
<1>7. CASE d.structure # "null"
  BY <1>3, <1>4, <1>5, <1>7, ReceiveAnswerIs DEF g
<1>8. CASE d.structure = "null"
  <2>1. /\ Mf!ReceiveAnswer(<<>>, k, d).answer = Mf!ParseStructure(<<>>, d.text).remainder
        /\ Mf!ReceiveAnswer(<<>>, k, d).structure = Mf!ParseStructure(<<>>, d.text).structure
    BY <1>3, <1>8, ReceiveAnswerIs
  <2>. QED BY <1>4, <1>5, <1>6, <1>8, <2>1 DEF g
<1>. QED BY <1>7, <1>8

\* What the agent makes of its own messages is what is parsed of the last of them.
LEMMA AgentKnows ==
  ASSUME NEW f, NEW h \in Seq(Remembered), h # <<>>, LastOf(h).type = "AI", LastOf(h).text.words # "null"
  PROVE  /\ Mf!Conclusion(f, Mf!ToDict(Mf!FrontMan, h)).answer = Mf!ParseStructure(f, LastOf(h).text).remainder
         /\ Mf!Conclusion(f, Mf!ToDict(Mf!FrontMan, h)).structure = Mf!ParseStructure(f, LastOf(h).text).structure
         /\ Mf!ParseStructure(f, LastOf(h).text).remainder \in Phrases \ {Mf!NoText}
         /\ Mf!ParseStructure(f, LastOf(h).text).structure \in Mf!Structures
         /\ LastOf(h).text \in Phrases
<1>. DEFINE d == Mf!ToDict(Mf!FrontMan, h)
<1>1. /\ d \in Seq(Remembered) /\ Len(d) = Len(h) /\ Len(h) \in 1..Len(h)
      /\ \A i \in 1..Len(h) : d[i].type = h[i].type /\ d[i].text = h[i].text /\ d[i].origin = Mf!FrontMan
  BY ToDictIs, OriginTypes
<1>. HIDE DEF d
<1>. DEFINE last == d[Len(d)]
<1>. DEFINE t == LastOf(h).text
<1>2. last \in Remembered /\ last.type = "AI" /\ last.text = t /\ last.origin = Mf!FrontMan
  BY <1>1 DEF LastOf
<1>3. last \in AnyMsg /\ last.structure = "null" /\ t \in Phrases /\ t # Mf!NoText
  BY <1>2, ShortIsAny DEF Remembered, ShortMsg
<1>4. d \in Seq(AnyMsg) /\ d # <<>>
  <2>1. Remembered \subseteq AnyMsg
    BY ShortIsAny DEF Remembered
  <2>. QED BY <1>1, <2>1
<1>. HIDE DEF last, t
<1>5. Mf!IsAnswer(last)
  BY <1>2, <1>3, OriginTypes DEF Mf!IsAnswer
<1>6. PICK k \in Knowns : Mf!Conclusion(f, d) = Mf!ReceiveAnswer(f, k, last)
  BY <1>4, ConclusionIs DEF last
<1>7. Mf!Conclusion(f, d).answer = Mf!ParseStructure(f, t).remainder
      /\ Mf!Conclusion(f, d).structure = Mf!ParseStructure(f, t).structure
  BY <1>2, <1>3, <1>5, <1>6, ReceiveAnswerIs
<1>8. Mf!ParseStructure(f, t).remainder \in Phrases \ {Mf!NoText} /\ Mf!ParseStructure(f, t).structure \in Mf!Structures
  BY <1>3, ParseIs
<1>. QED BY <1>3, <1>7, <1>8 DEF d, t

LEMMA FinishKeeps ==
  ASSUME FlowInv, Mf!Finish PROVE FlowInv'
<1>. DEFINE f == flowConfig.formats
<1>. DEFINE messages == Mf!ToDict(Mf!FrontMan, history)
<1>. DEFINE known == Mf!Conclusion(f, messages)
<1>. DEFINE c == Mf!PrepareContext(flowConfig.limit, messages)
<1>. DEFINE a == IF known.answer = Mf!NoText THEN Mf!Plain("") ELSE known.answer
<1>. DEFINE final == [Mf!FrameworkMessage(a) EXCEPT !.structure = known.structure, !.context = c]
<1>1. /\ phase = "answered" /\ phase' = "idle"
      /\ hopper' = hopper \o Mf!Delivered(<<>>, <<final>>)
      /\ context' = Mf!Client(hopper').context
      /\ flowConfig' = flowConfig /\ turn' = turn /\ history' = history /\ pending' = pending /\ runs' = runs
      /\ indices' = indices /\ said' = said /\ thoughts' = thoughts /\ retries' = retries
  BY DEF Mf!Finish
<1>2. FlowTypes /\ history \in Seq(Remembered) /\ hopper \in Seq(AnyMsg) /\ flowConfig.limit \in Int /\ turn \in Nat
  BY FlowFacts DEF FlowInv, FlowTypes
<1>3. /\ history # <<>> /\ said # <<>> /\ LastOf(history).type = "AI" /\ LastOf(history).text = LastOf(said).text
      /\ LastOf(said).text.words # "null" /\ turn > 0
  BY <1>1, <1>2 DEF FlowInv, LastWordIsAnswer, SaidIsRemembered
<1>. DEFINE t == LastOf(history).text
<1>. DEFINE p == Mf!ParseStructure(f, t)
<1>4. known.answer = p.remainder /\ known.structure = p.structure /\ p.remainder \in Phrases \ {Mf!NoText}
      /\ p.structure \in Mf!Structures /\ t \in Phrases /\ t.words # "null"
  BY <1>2, <1>3, AgentKnows
<1>5. c \in Contexts /\ c.there /\ (flowConfig.limit > 1 => Len(c.messages) <= flowConfig.limit + 1)
  <2>1. c \in Contexts /\ (flowConfig.limit > 1 => Len(c.messages) <= flowConfig.limit + 1)
    BY <1>2, <1>3, RestoredIs
  <2>2. c.there
    BY DEF Mf!PrepareContext
  <2>. QED BY <2>1, <2>2
<1>6. c = ContextOf
  BY DEF ContextOf
<1>7. a = p.remainder
  BY <1>4, Zenon
<1>. HIDE DEF c, known, messages, p, t, a
<1>8. final \in AnyMsg /\ final.type = "AGENT_FRAMEWORK" /\ final.text = a /\ final.structure = p.structure /\ final.context = c
  <2>. DEFINE b == Mf!FrameworkMessage(a)
  <2>1. b \in AnyMsg /\ b.type = "AGENT_FRAMEWORK" /\ b.text = a
    BY <1>4, <1>7, FrameworkMessageIs, ShortIsAny
  <2>. HIDE DEF b
  <2>. DEFINE e == [b EXCEPT !.structure = p.structure, !.context = c]
  <2>2. e \in AnyMsg /\ e.type = "AGENT_FRAMEWORK" /\ e.text = a /\ e.structure = p.structure /\ e.context = c
    BY <1>4, <1>5, <2>1 DEF AnyMsg
  <2>3. final = e
    BY <1>4 DEF b
  <2>. QED BY <2>2, <2>3
<1>. HIDE DEF final
<1>. DEFINE d == [final EXCEPT !.origin = <<>>]
<1>9. d \in AnyMsg /\ d.type = "AGENT_FRAMEWORK" /\ d.origin = <<>> /\ d.text = a /\ d.structure = p.structure /\ d.context = c
  BY <1>8, OriginTypes DEF AnyMsg
<1>10. Mf!Delivered(<<>>, <<final>>) = <<d>>
  <2>1. Mf!HasContext(final)
    BY <1>5, <1>8 DEF Mf!HasContext
  <2>2. Mf!Delivered(<<>>, <<final>>) = <<Mf!AddStructure(f, d)>>
    BY <1>8, <2>1, FinalIs, OriginTypes
  <2>3. Mf!AddStructure(f, d) = d
    <3>. HIDE DEF f
    <3>. QED BY <1>4, <1>7, <1>8, FinalStays DEF p
  <2>. QED BY <2>2, <2>3
<1>. HIDE DEF d
<1>11. hopper' = Append(hopper, d)
  <2>1. hopper \o <<d>> = Append(hopper, d)
    BY <1>2, <1>9
  <2>. QED BY <1>1, <1>10, <2>1
<1>12. context' = c /\ Mf!Client(hopper').answer = p.remainder /\ Mf!Client(hopper').structure = p.structure
  <2>1. d.context.there /\ d.text # Mf!NoText
    BY <1>4, <1>5, <1>7, <1>9, Zenon
  <2>2. /\ Mf!Client(hopper').context = d.context
        /\ Mf!Client(hopper').answer = d.text /\ Mf!Client(hopper').structure = d.structure
    BY <1>2, <1>9, <1>11, <2>1, ClientKnows
  <2>. QED BY <1>1, <1>7, <1>9, <2>2, Zenon
<1>13. /\ hopper' \in Seq(AnyMsg) /\ Len(hopper') = Len(hopper) + 1 /\ Len(hopper) \in Nat /\ hopper'[Len(hopper) + 1] = d
       /\ DOMAIN hopper' = 1..(Len(hopper) + 1) /\ DOMAIN hopper = 1..Len(hopper)
       /\ \A i \in 1..Len(hopper) : hopper'[i] = hopper[i]
  BY <1>2, <1>9, <1>11
<1>14. ASSUME NEW i \in DOMAIN hopper' PROVE (i \in DOMAIN hopper /\ hopper'[i] = hopper[i]) \/ hopper'[i] = d
  BY <1>13
<1>15. pending = Mf!NoMessage
  BY <1>1, <1>2 DEF FlowTypes
<1>16. FlowTypes'
  BY <1>1, <1>2, <1>13, <1>15 DEF FlowTypes
<1>17. HopperAllowed'
  <2>1. Mf!Allows(flowConfig.filter, d)
    BY <1>5, <1>9 DEF Mf!Allows, Mf!HasContext
  <2>. QED BY <1>1, <1>14, <2>1 DEF FlowInv, HopperAllowed
<1>18. RunsApart'
  BY <1>1 DEF FlowInv, RunsApart
<1>19. ResultsOfRuns'
  BY <1>1, <1>9, <1>14 DEF FlowInv, ResultsOfRuns, IsResultOf
<1>20. ThoughtsHeard'
  <2>. SUFFICES ASSUME MaxFilter, NEW i \in DOMAIN thoughts PROVE IsTold(hopper', thoughts[i])
    BY <1>1 DEF ThoughtsHeard, MaxFilter, IsTold
  <2>1. IsTold(hopper, thoughts[i])
    BY <1>15 DEF FlowInv, ThoughtsHeard
  <2>2. PICK j \in DOMAIN hopper : hopper[j].origin = Mf!FrontMan /\ hopper[j].text = thoughts[i]
    BY <2>1 DEF IsTold
  <2>3. j \in DOMAIN hopper' /\ hopper'[j] = hopper[j]
    BY <1>13
  <2>. QED BY <2>2, <2>3 DEF IsTold
<1>21. AnswersOnce'
  <2>1. ASSUME NEW i \in 2..Len(hopper'), IsEcho(hopper', i) PROVE Twice(thoughts, hopper'[i].text)
    <3>1. hopper'[i].type = "AI" /\ i \in DOMAIN hopper'
      BY <1>13, <2>1 DEF IsEcho
    <3>2. i # Len(hopper) + 1
      BY <1>9, <1>13, <3>1
    <3>3. i \in 1..Len(hopper) /\ i - 1 \in 1..Len(hopper) /\ i \in 2..Len(hopper)
      BY <1>13, <3>2
    <3>4. hopper'[i] = hopper[i] /\ hopper'[i - 1] = hopper[i - 1]
      BY <1>13, <3>3
    <3>. QED BY <2>1, <3>3, <3>4 DEF FlowInv, AnswersOnce, IsEcho
  <2>. QED BY <1>1, <2>1 DEF AnswersOnce, IsEcho
<1>22. SaidIsRemembered'
  <2>1. ContextOf' = ContextOf
    BY <1>1 DEF ContextOf
  <2>2. Mf!ContextIsBounded'
    <3>1. context' = c /\ (flowConfig.limit > 1 => Len(c.messages) <= flowConfig.limit + 1)
      BY <1>5, <1>12
    <3>. HIDE DEF c
    <3>. QED BY <1>1, <1>2, <3>1 DEF Mf!ContextIsBounded
  <2>. QED BY <1>1, <1>2, <1>3, <1>6, <1>12, <2>1, <2>2 DEF FlowInv, SaidIsRemembered
<1>23. LastWordIsAnswer'
  <2>1. said[Len(said)].text = t
    BY <1>3 DEF LastOf, t
  <2>2. Mf!ParseStructure(flowConfig'.formats, said'[Len(said')].text) = p
    BY <1>1, <2>1 DEF p
  <2>3. Mf!AnswerIsTheAgents'
    BY <1>12, <2>2 DEF Mf!AnswerIsTheAgents
  <2>. QED BY <1>1, <2>3 DEF LastWordIsAnswer
<1>. QED BY <1>16, <1>17, <1>18, <1>19, <1>20, <1>21, <1>22, <1>23 DEF FlowInv

LEMMA FlowBegins ==
  ASSUME Mf!Init PROVE FlowInv
<1>1. /\ flowConfig \in FlowConfigs /\ turn = 0 /\ phase = "idle" /\ context = Mf!EmptyContext
      /\ history = <<>> /\ pending = Mf!NoMessage /\ runs = <<>> /\ indices = [t \in FlowTools |-> 0]
      /\ hopper = <<>> /\ said = <<>> /\ thoughts = <<>> /\ retries = 0
  BY DEF Mf!Init
<1>2. FlowTypes
  BY <1>1, FlowFacts DEF FlowTypes
<1>3. HopperAllowed /\ RunsApart /\ ResultsOfRuns /\ ThoughtsHeard /\ AnswersOnce
  BY <1>1 DEF HopperAllowed, RunsApart, ResultsOfRuns, ThoughtsHeard, AnswersOnce
<1>4. SaidIsRemembered
  <2>1. Len(context.messages) = 0 /\ flowConfig.limit \in Int
    BY <1>1, ContextTypes, FlowFacts
  <2>. QED BY <1>1, <2>1 DEF SaidIsRemembered, Mf!ContextIsBounded
<1>5. LastWordIsAnswer
  BY <1>1 DEF LastWordIsAnswer, Mf!AnswerIsTheAgents, Mf!Answered
<1>. QED BY <1>2, <1>3, <1>4, <1>5 DEF FlowInv

LEMMA FlowStep ==
  ASSUME FlowInv, [Mf!Next]_MfVars PROVE FlowInv'
<1>1. CASE UNCHANGED MfVars
  BY <1>1 DEF FlowInv, FlowTypes, HopperAllowed, RunsApart, ResultsOfRuns, IsResultOf, ThoughtsHeard, MaxFilter,
              IsTold, AnswersOnce, SaidIsRemembered, ContextOf, LastWordIsAnswer, Mf!ContextIsBounded,
              Mf!AnswerIsTheAgents, Mf!Answered, MfVars
<1>2. CASE Mf!Next
  BY <1>2, StartKeeps, LlmEndKeeps, ToolStartKeeps, ToolEndKeeps, RetryKeeps, AnswerKeeps, FinishKeeps DEF Mf!Next
<1>. QED BY <1>1, <1>2

LEMMA CardinalityOfFlow == ASSUME NEW S PROVE Mf!Cardinality(S) = Cardinality(S)
BY DEF Mf!Cardinality, Cardinality

LEMMA FlowFollows ==
  ASSUME FlowInv
  PROVE  /\ Mf!TypeOK /\ Mf!AnswerIsTheAgents /\ Mf!ThoughtsAreTold /\ Mf!AnswerIsToldOnce /\ Mf!ToolResultsMatch
         /\ Mf!ConversationContinues /\ Mf!ContextIsBounded
<1>1. FlowTypes /\ hopper \in Seq(AnyMsg) /\ history \in Seq(Remembered) /\ thoughts \in Seq(Texts) /\ turn \in Nat
  BY FlowFacts DEF FlowInv, FlowTypes
<1>2. ASSUME NEW m \in AnyMsg PROVE Mf!IsMessage(m)
  BY DEF Mf!IsMessage, AnyMsg, Phrases
<1>3. Mf!TypeOK
  <2>1. Mf!IsMessage(pending)
    BY <1>1, <1>2, PendingIs, ShortIsAny
  <2>2. \A i \in DOMAIN history : Mf!IsMessage(history[i])
    <3>1. \A i \in DOMAIN history : history[i] \in AnyMsg
      BY <1>1, ShortIsAny DEF Remembered
    <3>. QED BY <1>2, <3>1
  <2>3. \A i \in DOMAIN hopper : Mf!IsMessage(hopper[i]) /\ Mf!Allows(flowConfig.filter, hopper[i])
    <3>1. \A i \in DOMAIN hopper : hopper[i] \in AnyMsg
      BY <1>1
    <3>. QED BY <1>2, <3>1 DEF FlowInv, HopperAllowed
  <2>. QED BY <1>1, <2>1, <2>2, <2>3 DEF Mf!TypeOK, FlowTypes
<1>4. Mf!AnswerIsTheAgents
  BY DEF FlowInv, LastWordIsAnswer
<1>5. Mf!ThoughtsAreTold
  <2>. SUFFICES ASSUME phase \in {"idle", "answered"}, flowConfig.filter = "MAXIMAL", NEW i \in DOMAIN thoughts
                PROVE  \E j \in DOMAIN hopper : hopper[j].origin = Mf!FrontMan /\ hopper[j].text = thoughts[i]
    BY DEF Mf!ThoughtsAreTold
  <2>1. pending = Mf!NoMessage
    BY <1>1 DEF FlowTypes
  <2>2. MaxFilter
    BY DEF MaxFilter, Mf!FilterFor
  <2>. QED BY <2>1, <2>2 DEF FlowInv, ThoughtsHeard, IsTold
<1>6. Mf!AnswerIsToldOnce
  <2>. SUFFICES ASSUME NEW i \in 2..Len(hopper), IsEcho(hopper, i)
                PROVE  Cardinality({j \in DOMAIN thoughts : thoughts[j] = hopper[i].text}) > 1
    BY CardinalityOfFlow DEF Mf!AnswerIsToldOnce, IsEcho
  <2>1. Twice(thoughts, hopper[i].text)
    BY DEF FlowInv, AnswersOnce
  <2>. DEFINE S == {j \in DOMAIN thoughts : thoughts[j] = hopper[i].text}
  <2>2. PICK j, k \in S : j # k
    BY <2>1 DEF Twice
  <2>3. IsFiniteSet(S)
    <3>1. S \subseteq 1..Len(thoughts) /\ Len(thoughts) \in Nat
      BY <1>1
    <3>2. IsFiniteSet(1..Len(thoughts))
      BY <3>1, FS_Interval
    <3>. QED BY <3>1, <3>2, FS_Subset
  <2>. HIDE DEF S
  <2>4. IsFiniteSet(S \ {j}) /\ Cardinality(S \ {j}) = Cardinality(S) - 1 /\ Cardinality(S) \in Nat
    BY <2>2, <2>3, FS_RemoveElement, FS_CardinalityType
  <2>5. Cardinality(S \ {j}) \in Nat /\ Cardinality(S \ {j}) # 0
    <3>1. k \in S \ {j}
      BY <2>2
    <3>. QED BY <2>4, <3>1, FS_CardinalityType, FS_EmptySet
  <2>6. Cardinality(S) > 1
    BY <2>4, <2>5
  <2>. QED BY <2>6 DEF S
<1>7. Mf!ToolResultsMatch
  BY DEF FlowInv, RunsApart, ResultsOfRuns, IsResultOf, Mf!ToolResultsMatch
<1>8. Mf!ConversationContinues
  <2>. SUFFICES ASSUME turn > 0
                PROVE  LET n == IF flowConfig.limit <= 0 \/ flowConfig.limit > Len(said) THEN Len(said) ELSE flowConfig.limit
                           m == Len(history)
                       IN /\ flowConfig.limit <= 0 => m = Len(said)
                          /\ m >= n
                          /\ \A i \in 0..(n - 1) : /\ history[m - i].type = said[Len(said) - i].type
                                                   /\ history[m - i].text.words = said[Len(said) - i].text.words
    BY DEF Mf!ConversationContinues
  <2>1. /\ history # <<>> /\ Matches(flowConfig.limit, history, said)
        /\ Len(history) \in Nat /\ Len(said) \in Nat /\ flowConfig.limit \in Int /\ Len(history) > 0
    BY <1>1, FlowFacts DEF FlowInv, SaidIsRemembered, FlowTypes
  <2>. DEFINE l == IF flowConfig.limit <= 1 \/ flowConfig.limit > Len(said) THEN Len(said) ELSE flowConfig.limit
              n == IF flowConfig.limit <= 0 \/ flowConfig.limit > Len(said) THEN Len(said) ELSE flowConfig.limit
  <2>2. /\ flowConfig.limit <= 1 => Len(history) = Len(said)
        /\ Len(history) >= l
        /\ \A i \in 0..(l - 1) : /\ history[Len(history) - i].type = said[Len(said) - i].type
                                 /\ history[Len(history) - i].text.words = said[Len(said) - i].text.words
    BY <2>1 DEF Matches, Like
  <2>3. n <= l /\ n \in Int /\ l \in Int
    BY <2>1, <2>2
  <2>. HIDE DEF n, l
  <2>4. Len(history) >= n /\ \A i \in 0..(n - 1) : i \in 0..(l - 1)
    BY <2>1, <2>2, <2>3
  <2>. QED BY <2>1, <2>2, <2>4 DEF n
<1>9. Mf!ContextIsBounded
  BY DEF FlowInv, SaidIsRemembered
<1>. QED BY <1>3, <1>4, <1>5, <1>6, <1>7, <1>8, <1>9

\* A client ends with the answer and the structure of the agent's own last words; who wants
\* everything hears every thought, and the answer is not told as a thought right before;
\* a tool's result is told under the origin of its own run; and the agent goes into a
\* request with the end of what was said, or all of it where there is no limit, in a context
\* that keeps to the limit unless that is 1, for any texts, tools, limits and number of requests
\* (journals, AnswerMessageProcessor, ChatHistoryMessageProcessor).
THEOREM ConversationsAreAlwaysKept == Spec => []ConversationIsKept
<1>. DEFINE Inv == part = "messages" => FlowInv
<1>1. Init => Inv
  BY FlowBegins DEF Init
<1>2. Inv /\ [Next]_ServiceVars => Inv'
  <2>. SUFFICES ASSUME Inv, [Next]_ServiceVars, part' = "messages" PROVE FlowInv'
    OBVIOUS
  <2>1. part = "messages" /\ FlowInv /\ [Mf!Next]_MfVars
    BY PartSteps
  <2>. QED BY <2>1, FlowStep
<1>3. Inv => ConversationIsKept
  BY FlowFollows DEF ConversationIsKept
<1>4. Spec => []Inv
  <2>. HIDE DEF Inv
  <2>. QED BY <1>1, <1>2, PTL DEF Spec
<1>. QED BY <1>3, <1>4, PTL
=============================================================================

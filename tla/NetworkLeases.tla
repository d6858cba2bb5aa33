--------------------------- MODULE NetworkLeases ---------------------------
(***************************************************************************)
(* What the storage of temporary networks promises, without threads, locks *)
(* or call stacks: an atomic table that maps a name to one of the networks *)
(* deployed under it, and clients that look names up.                      *)
(*   - a deployment enters the table whole;                                *)
(*   - names leave the table at any time (expiration, eviction);           *)
(*   - a lookup takes what the table holds under its name at one moment    *)
(*     between question and answer, and answers with just that; two things *)
(*     it may do besides: take the name out, and answer with nothing, or,  *)
(*     where it found nothing, bring back a network (of that name alone)   *)
(*     and answer with what it put there;                                  *)
(*   - what a lookup answers with was deployed under the name, under a     *)
(*     lease that lasted to the moment the client insists on.              *)
(***************************************************************************)
EXTENDS Integers, Sequences

CONSTANTS Names, Clients,
          Lifetimes   \* the lifetimes a deployment may be given

VARIABLES now, deployments, table, clients

vars == <<now, deployments, table, clients>>

NoNetwork == 0

\* Network v was deployed under n, and some lease of n, from that deployment or a
\* later one, lasts at least to e.
Leased(n, v, e) ==
  /\ v \in 1 .. Len(deployments) /\ n \in deployments[v].names
  /\ \E k \in v .. Len(deployments) :
       n \in deployments[k].names /\ deployments[k].expiration >= e

Entry(status, n, s, v) == [status |-> status, name |-> n, since |-> s, net |-> v]

Rest == Entry("idle", "none", 0, NoNetwork)

Tick == now' > now /\ UNCHANGED <<deployments, table, clients>>

\* A deployment is promised.
Promise ==
  /\ \E B \in (SUBSET Names) \ {{}}, l \in Lifetimes :
       deployments' = Append(deployments, [names |-> B, expiration |-> now + l])
  /\ UNCHANGED <<now, table, clients>>

\* All names of a deployment get its network at once, and no others.
Publish(v) ==
  /\ v \in 1 .. Len(deployments)
  /\ table' = [n \in Names |-> IF n \in deployments[v].names THEN v ELSE table[n]]
  /\ UNCHANGED <<now, deployments, clients>>

Withdraw(S) ==
  /\ table' = [n \in Names |-> IF n \in S THEN NoNetwork ELSE table[n]]
  /\ UNCHANGED <<now, deployments, clients>>

\* A client insists on a lease that lasts to now, or on any lease there was.
Ask(c, n) ==
  /\ clients[c].status = "idle"
  /\ \E s \in {0, now} :
       clients' = [clients EXCEPT ![c] = Entry("asking", n, s, NoNetwork)]
  /\ UNCHANGED <<now, deployments, table>>

\* The lookup of c has found v.
Finds(c, v, status) ==
  clients' = [clients EXCEPT ![c] = Entry(status, @.name, @.since, v)]

\* The moment of the lookup: it finds what the table holds, and may answer at once.
Look(c) ==
  LET v == table[clients[c].name]
  IN  /\ clients[c].status = "asking"
      /\ v # NoNetwork => Leased(clients[c].name, v, clients[c].since)
      /\ Finds(c, v, "seen") \/ Finds(c, v, "answered")
      /\ UNCHANGED <<now, deployments, table>>

\* The lookup finds that its name has expired.
Drop(c) ==
  /\ clients[c].status = "asking"
  /\ table' = [table EXCEPT ![clients[c].name] = NoNetwork]
  /\ Finds(c, NoNetwork, "seen")
  /\ UNCHANGED <<now, deployments>>

\* It found nothing, and brings back a network from where deployments are kept.
BringBack(c, v) ==
  /\ clients[c].status = "seen" /\ clients[c].net = NoNetwork
  /\ Leased(clients[c].name, v, clients[c].since)
  /\ table' = [table EXCEPT ![clients[c].name] = v]
  /\ Finds(c, v, "seen")
  /\ UNCHANGED <<now, deployments>>

\* The answer is what was found, whatever the table holds by now.
Reply(c) ==
  /\ clients[c].status = "seen"
  /\ Finds(c, clients[c].net, "answered")
  /\ UNCHANGED <<now, deployments, table>>

Leave(c) ==
  /\ clients[c].status = "answered"
  /\ clients' = [clients EXCEPT ![c] = Rest]
  /\ UNCHANGED <<now, deployments, table>>

Init ==
  /\ now = 0
  /\ deployments = <<>>
  /\ table = [n \in Names |-> NoNetwork]
  /\ clients = [c \in Clients |-> Rest]

Next ==
  \/ Tick
  \/ Promise
  \/ \E v \in 1 .. Len(deployments) : Publish(v)
  \/ \E S \in SUBSET Names : Withdraw(S)
  \/ \E c \in Clients :
       \/ \E n \in Names : Ask(c, n)
       \/ Look(c) \/ Drop(c) \/ Reply(c) \/ Leave(c)
       \/ \E v \in 1 .. Len(deployments) : BringBack(c, v)

Spec == Init /\ [][Next]_vars
=============================================================================

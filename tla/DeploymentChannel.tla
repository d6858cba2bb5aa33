------------------------- MODULE DeploymentChannel -------------------------
(***************************************************************************)
(* What the reservation pipeline promises to those who deploy: what a      *)
(* request sends is deployed once each, in the order it was sent, and a    *)
(* confirmation comes only for what was tried.                             *)
(***************************************************************************)
EXTENDS Naturals, Sequences

CONSTANTS Requests, Batches

VARIABLES
  sent,       \* of each request, the batches it sent
  attempted,  \* of each request, the batches that were tried
  confirmed   \* the batches whose event is set

vars == <<sent, attempted, confirmed>>

Init ==
  /\ sent = [r \in Requests |-> <<>>]
  /\ attempted = [r \in Requests |-> <<>>]
  /\ confirmed = {}

Extends(long, short) ==
  /\ Len(short) <= Len(long)
  /\ SubSeq(long, 1, Len(short)) = short

Send(r) ==
  /\ Extends(sent'[r], sent[r])
  /\ \A q \in Requests \ {r} : sent'[q] = sent[q]
  /\ UNCHANGED <<attempted, confirmed>>

Attempt(r) ==
  /\ Len(attempted[r]) < Len(sent[r])
  /\ attempted' = [attempted EXCEPT ![r] = Append(@, sent[r][Len(@) + 1])]
  /\ UNCHANGED <<sent, confirmed>>

Confirm(b) ==
  /\ \E r \in Requests : \E i \in 1..Len(attempted[r]) : attempted[r][i] = b
  /\ confirmed' = confirmed \cup {b}
  /\ UNCHANGED <<sent, attempted>>

Next ==
  \/ \E r \in Requests : Send(r) \/ Attempt(r)
  \/ \E b \in Batches : Confirm(b)

Spec == Init /\ [][Next]_vars
=============================================================================

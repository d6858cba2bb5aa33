--------------------- MODULE ReservationPipelineProofs ---------------------
(***************************************************************************)
(* Safety of ReservationPipeline for any requests, tools and batches: what *)
(* a request's queue still holds is exactly what was sent and not yet      *)
(* tried, in order, with the final item behind it.  From that, no batch is *)
(* lost, and the pipeline implements DeploymentChannel.                    *)
(***************************************************************************)
EXTENDS ReservationPipeline, SequenceTheorems, TLAPS

-----------------------------------------------------------------------------
(* What the methods of AsyncCollatingQueue keep and give, for any items *)

\* A new queue is one, and has nothing to give.
LEMMA EmptyQueueIsQueue ==
  ASSUME NEW S
  PROVE  EmptyQueue \in QueuesOf(S) /\ ~HasItem(EmptyQueue) /\ ~EmptyQueue.lastItemSent
         /\ ~EmptyQueue.closed
BY DEF EmptyQueue, QueuesOf, HasItem

\* put() appends what it accepts, in order, and changes nothing else.
LEMMA PutAllAppends ==
  ASSUME NEW S, NEW q \in QueuesOf(S), NEW items \in Seq(S)
  PROVE  /\ PutAll(q, items) \in QueuesOf(S)
         /\ PutAll(q, items).lastItemSent = q.lastItemSent
         /\ PutAll(q, items).closed = q.closed
         /\ ~Accepts(q) => PutAll(q, items) = q
         /\ Accepts(q) => PutAll(q, items).items = q.items \o items
<1>1. q.items \in Seq(S \cup {END_MESSAGE}) /\ items \in Seq(S \cup {END_MESSAGE})
  BY SeqMonotonic DEF QueuesOf
<1>2. q.items \o items \in Seq(S \cup {END_MESSAGE})
  BY <1>1, ConcatProperties
<1>. QED BY <1>2 DEF PutAll, Accepts, QueuesOf

\* put_final_item() sets the flag and puts one marker, once.
LEMMA PutFinalItemAppends ==
  ASSUME NEW S, NEW q \in QueuesOf(S)
  PROVE  /\ PutFinalItem(q) \in QueuesOf(S)
         /\ PutFinalItem(q).lastItemSent
         /\ PutFinalItem(q).closed = q.closed
         /\ q.lastItemSent => PutFinalItem(q) = q
         /\ q.closed => PutFinalItem(q).items = q.items
         /\ ~q.lastItemSent /\ ~q.closed =>
              PutFinalItem(q).items = Append(q.items, END_MESSAGE)
<1>1. Append(q.items, END_MESSAGE) \in Seq(S \cup {END_MESSAGE})
  BY DEF QueuesOf
<1>2. CASE q.lastItemSent
  BY <1>2 DEF PutFinalItem, QueuesOf
<1>3. CASE ~q.lastItemSent
  BY <1>1, <1>3 DEF PutFinalItem, QueuesOf
<1>. QED BY <1>2, <1>3

\* A get() gives the first item and leaves the others in their order.
LEMMA GetTakesFirst ==
  ASSUME NEW S, NEW q \in QueuesOf(S), HasItem(q)
  PROVE  /\ WithoutNext(q) \in QueuesOf(S)
         /\ WithoutNext(q).lastItemSent = q.lastItemSent
         /\ WithoutNext(q).closed = q.closed
         /\ NextItem(q) = q.items[1] /\ NextItem(q) \in S \cup {END_MESSAGE}
         /\ ~IsFinalItem(NextItem(q)) => NextItem(q) \in S
         /\ Len(q.items) >= 1 /\ Len(WithoutNext(q).items) = Len(q.items) - 1
         /\ \A i \in 1..Len(WithoutNext(q).items) :
              WithoutNext(q).items[i] = q.items[i + 1]
<1>1. q.items \in Seq(S \cup {END_MESSAGE}) /\ q.items # <<>>
  BY DEF QueuesOf, HasItem
<1>2. /\ Head(q.items) \in S \cup {END_MESSAGE} /\ Head(q.items) = q.items[1]
      /\ Tail(q.items) \in Seq(S \cup {END_MESSAGE}) /\ Len(q.items) >= 1
      /\ Len(Tail(q.items)) = Len(q.items) - 1
      /\ \A i \in 1..Len(Tail(q.items)) : Tail(q.items)[i] = q.items[i + 1]
  BY <1>1, HeadTailProperties
<1>. QED BY <1>2 DEF WithoutNext, NextItem, IsFinalItem, QueuesOf

\* close() leaves nothing to get.
LEMMA CloseDrains ==
  ASSUME NEW S, NEW q \in QueuesOf(S)
  PROVE  /\ CloseQueue(q) \in QueuesOf(S)
         /\ CloseQueue(q).lastItemSent = q.lastItemSent
         /\ CloseQueue(q).closed /\ CloseQueue(q).items = <<>>
<1>1. <<>> \in Seq(S \cup {END_MESSAGE})
  OBVIOUS
<1>. DEFINE p == [q EXCEPT !.closed = TRUE]
<1>2. p \in QueuesOf(S) /\ p.lastItemSent = q.lastItemSent /\ p.closed
  BY DEF QueuesOf
<1>. HIDE DEF p
<1>3. [p EXCEPT !.items = <<>>] \in QueuesOf(S)
  BY <1>1, <1>2 DEF QueuesOf
<1>4. CloseQueue(q) = [p EXCEPT !.items = <<>>]
  BY DEF CloseQueue, p
<1>. QED BY <1>2, <1>3, <1>4 DEF QueuesOf
-----------------------------------------------------------------------------
\* How many of the batches that a request sent have left its queue.
InHand(r) == IF deploying[r] = NoBatch THEN 0 ELSE 1
Taken(r) == Len(attempted[r]) + InHand(r)

\* What is tried, and what is in the task's hands, is what was sent, in order.
InOrder(r) ==
  /\ Taken(r) <= Len(sent[r])
  /\ \A i \in 1..Len(attempted[r]) : attempted[r][i] = sent[r][i]
  /\ deploying[r] # NoBatch => deploying[r] = sent[r][Taken(r)]

\* items is what is left of s when k of it were taken, and behind it the final
\* item if that was put.
IsRest(items, s, k, final) ==
  /\ k <= Len(s)
  /\ Len(items) = IF final THEN Len(s) - k + 1 ELSE Len(s) - k
  /\ \A i \in 1..Len(items) :
       items[i] = IF i <= Len(s) - k THEN s[k + i] ELSE END_MESSAGE

\* A queue that is read holds the rest of what was sent.
HoldsTheRest(r) ==
  ~queue[r].closed /\ IsRest(queue[r].items, sent[r], Taken(r), queue[r].lastItemSent)

\* A task ends when everything was tried and nothing more can be sent.
NothingLeft(r) == queue[r].lastItemSent /\ Len(attempted[r]) = Len(sent[r])

RequestInv(r) ==
  /\ queue[r].lastItemSent <=> request[r] = "closed"
  /\ InOrder(r)
  /\ processor[r] # "finished" => HoldsTheRest(r)
  /\ processor[r] = "finished" => NothingLeft(r)

QueueInv == \A r \in Requests : RequestInv(r)

\* The queues nobody reads yet are those of requests that began, once each.
IncomingInv ==
  /\ \A r \in Requests : request[r] = "new" => processor[r] = "none"
  /\ \A i \in 1..Len(incoming) : request[incoming[i]] # "new" /\ processor[incoming[i]] = "none"
  /\ \A i, j \in 1..Len(incoming) : incoming[i] = incoming[j] => i = j

\* Where the batch of the event a tool holds may be.
Kept(t) ==
  \/ \E i \in 1..Len(deployments[t]) : deployments[t][i] = awaiting[t]
  \/ \E i \in 1..Len(sent[RequestOf[t]]) : sent[RequestOf[t]][i] = awaiting[t]
  \/ request[RequestOf[t]] = "closed"

\* A tool that did not enter its with-statement holds no event: entering clears
\* what was collected, and would lose its batch.
ToolInv ==
  \A t \in Tools : /\ tool[t] = "idle" => awaiting[t] = NoBatch
                   /\ awaiting[t] # NoBatch => Kept(t)

\* A batch that was or is about to be confirmed was tried.
Tried(b) == \E r \in Requests : \E i \in 1..Len(attempted[r]) : attempted[r][i] = b
ConfirmInv == \A b \in posted \cup events : Tried(b)

IInv == TypeOK /\ QueueInv /\ IncomingInv /\ ToolInv /\ ConfirmInv
-----------------------------------------------------------------------------
\* What is appended to a sequence is found behind it.
LEMMA ConcatHoldsSecond ==
  ASSUME NEW S, NEW s \in Seq(S), NEW new \in Seq(S), NEW i \in 1..Len(new)
  PROVE  Len(s) + i \in 1..Len(s \o new) /\ (s \o new)[Len(s) + i] = new[i]
<1>1. /\ Len(s \o new) = Len(s) + Len(new)
      /\ \A j \in 1..Len(s) + Len(new) :
           (s \o new)[j] = IF j <= Len(s) THEN s[j] ELSE new[j - Len(s)]
  BY ConcatProperties
<1>2. Len(s) \in Nat /\ Len(new) \in Nat
  OBVIOUS
<1>3. /\ Len(s) + i \in 1..Len(s) + Len(new) /\ ~(Len(s) + i <= Len(s))
      /\ Len(s) + i - Len(s) = i
  BY <1>2
<1>. QED BY <1>1, <1>3

\* A batch is none of the two markers.
LEMMA BatchIsNoMarker == NoBatch \notin Batches /\ END_MESSAGE \notin Batches
<1>1. ASSUME NEW b \in Batches PROVE b # NoBatch
  <2>1. PICK t \in Tools : b \in {t} \X (1..MaxBatches[t])
    BY DEF Batches
  <2>. QED BY <2>1 DEF NoBatch
<1>. QED BY <1>1, PipelineAssumption DEF PipelineAssumption

\* The next batch of a tool below its bound.
LEMMA NextBatchIsBatch ==
  ASSUME TypeOK, NEW t \in Tools, Len(deployments[t]) < MaxBatches[t]
  PROVE  NextBatch(t) \in Batches
<1>1. Len(deployments[t]) + 1 \in 1..MaxBatches[t]
  BY PipelineAssumption DEF TypeOK, PipelineAssumption
<1>2. NextBatch(t) \in {t} \X (1..MaxBatches[t])
  BY <1>1 DEF NextBatch
<1>. QED BY <1>2 DEF Batches

\* The types are kept by every step.
LEMMA TypeStep == TypeOK /\ [Next]_vars => TypeOK'
<1>. SUFFICES ASSUME TypeOK, [Next]_vars PROVE TypeOK'
  OBVIOUS
<1>. USE PipelineAssumption DEF TypeOK, PipelineAssumption, pipe, tools
<1>1. ASSUME NEW r \in Requests, Begin(r) PROVE TypeOK'
  BY <1>1 DEF Begin
<1>2. ASSUME NEW r \in Requests, CloseOfWork(r) PROVE TypeOK'
  <2>1. FinalItemOf(queue[r]) \in QueuesOf(Batches)
    BY PutFinalItemAppends DEF FinalItemOf
  <2>. QED BY <1>2, <2>1 DEF CloseOfWork
<1>3. ASSUME NEW r \in Requests, TakeItem(r) PROVE TypeOK'
  <2>1. /\ WithoutNext(queue[r]) \in QueuesOf(Batches)
        /\ ~IsFinalItem(NextItem(queue[r])) => NextItem(queue[r]) \in Batches
        /\ CloseQueue(WithoutNext(queue[r])) \in QueuesOf(Batches)
    BY <1>3, GetTakesFirst, CloseDrains DEF TakeItem
  <2>2. CASE IsFinalItem(NextItem(queue[r]))
    BY <1>3, <2>1, <2>2 DEF TakeItem
  <2>3. CASE ~IsFinalItem(NextItem(queue[r]))
    BY <1>3, <2>1, <2>3 DEF TakeItem
  <2>. QED BY <2>2, <2>3
<1>4. ASSUME NEW r \in Requests, DeployTogether(r) PROVE TypeOK'
  BY <1>4 DEF DeployTogether, Notified
<1>5. ASSUME NEW t \in Tools, Enter(t) PROVE TypeOK'
  BY <1>5 DEF Enter
<1>6. ASSUME NEW t \in Tools, Deploy(t) PROVE TypeOK'
  BY <1>6, NextBatchIsBatch DEF Deploy
<1>7. ASSUME NEW t \in Tools, DeployRaises(t) PROVE TypeOK'
  BY <1>7 DEF DeployRaises
<1>8. ASSUME NEW t \in Tools, Exit(t) PROVE TypeOK'
  <2>. DEFINE r == RequestOf[t]
  <2>1. r \in Requests /\ Collected(t) \in Seq(Batches)
    BY DEF Collected
  <2>2. PutAll(queue[r], Collected(t)) \in QueuesOf(Batches)
    BY <2>1, PutAllAppends
  <2>3. sent[r] \o Collected(t) \in Seq(Batches)
    BY <2>1, ConcatProperties
  <2>4. AfterExit(t) \in {"failed", "waiting", "done"}
    BY DEF AfterExit
  <2>5. queue' \in [Requests -> QueuesOf(Batches)]
    BY <1>8, <2>1, <2>2 DEF Exit
  <2>6. sent' \in [Requests -> Seq(Batches)]
    BY <1>8, <2>1, <2>3 DEF Exit
  <2>7. deployments' \in [Tools -> Seq(Batches)]
    BY <1>8 DEF Exit
  <2>8. tool' \in [Tools -> {"idle", "inside", "leaving", "deploying", "waiting",
                             "done", "failed"}]
    BY <1>8, <2>4 DEF Exit
  <2>. QED BY <1>8, <2>5, <2>6, <2>7, <2>8 DEF Exit
<1>9. ASSUME NEW t \in Tools, Wake(t) PROVE TypeOK'
  BY <1>9 DEF Wake
<1>10. ASSUME NEW b \in Batches, SetEvent(b) PROVE TypeOK'
  BY <1>10 DEF SetEvent
<1>11. CASE TakeQueue
  <2>1. Head(incoming) \in Requests /\ Tail(incoming) \in Seq(Requests)
    BY <1>11, HeadTailProperties DEF TakeQueue
  <2>. QED BY <1>11, <2>1 DEF TakeQueue
<1>12. CASE UNCHANGED vars
  BY <1>12 DEF vars
<1>. QED BY <1>1, <1>2, <1>3, <1>4, <1>5, <1>6, <1>7, <1>8, <1>9, <1>10, <1>11, <1>12 DEF Next

\* TypeOK is an invariant.
THEOREM TypeCorrect == Spec => []TypeOK
<1>1. Init => TypeOK
  BY EmptyQueueIsQueue DEF Init, TypeOK
<1>. QED BY <1>1, TypeStep, PTL DEF Spec
-----------------------------------------------------------------------------
\* What a step has to leave alone for a request's queue to be as it was.
Untouched(r) ==
  /\ request'[r] = request[r] /\ queue'[r] = queue[r] /\ processor'[r] = processor[r]
  /\ deploying'[r] = deploying[r] /\ sent'[r] = sent[r] /\ attempted'[r] = attempted[r]

\* ... keeps what is said of it.
LEMMA UntouchedKeepsInv ==
  ASSUME NEW r \in Requests, RequestInv(r), Untouched(r)
  PROVE  RequestInv(r)'
BY DEF RequestInv, Untouched, InOrder, HoldsTheRest, NothingLeft, Taken, InHand

\* What the task has taken of a queue is counted by what it tried and holds.
LEMMA TakenIsNat ==
  ASSUME TypeOK, NEW r \in Requests
  PROVE  Taken(r) \in Nat
BY DEF TypeOK, Taken, InHand

\* What put_final_item(), put() and get() do to the rest.
LEMMA RestGetsFinal ==
  ASSUME NEW items \in Seq(Batches \cup {END_MESSAGE}), NEW s \in Seq(Batches), NEW k \in Nat,
         IsRest(items, s, k, FALSE)
  PROVE  IsRest(Append(items, END_MESSAGE), s, k, TRUE)
<1>1. /\ Len(Append(items, END_MESSAGE)) = Len(items) + 1
      /\ \A i \in 1..Len(items) : Append(items, END_MESSAGE)[i] = items[i]
      /\ Append(items, END_MESSAGE)[Len(items) + 1] = END_MESSAGE
  BY AppendProperties
<1>2. Len(items) \in Nat /\ Len(s) \in Nat /\ Len(items) = Len(s) - k
  BY DEF IsRest
<1>3. ASSUME NEW i \in 1..Len(Append(items, END_MESSAGE))
      PROVE  Append(items, END_MESSAGE)[i] = IF i <= Len(s) - k THEN s[k + i] ELSE END_MESSAGE
  <2>1. CASE i <= Len(items)
    BY <1>1, <1>2, <2>1 DEF IsRest
  <2>2. CASE i = Len(items) + 1
    BY <1>1, <1>2, <2>2
  <2>. QED BY <1>1, <1>2, <2>1, <2>2
<1>. QED BY <1>1, <1>2, <1>3 DEF IsRest

\* ... put() appends to it while the queue accepts, ...
LEMMA RestGrows ==
  ASSUME NEW items \in Seq(Batches \cup {END_MESSAGE}), NEW s \in Seq(Batches), NEW k \in Nat,
         NEW new \in Seq(Batches), IsRest(items, s, k, FALSE)
  PROVE  IsRest(items \o new, s \o new, k, FALSE)
<1>. DEFINE n == Len(s) - k
<1>1. Len(items) \in Nat /\ Len(new) \in Nat /\ Len(s) \in Nat /\ n \in Nat /\ Len(items) = n
  BY DEF IsRest
<1>2. /\ Len(items \o new) = n + Len(new)
      /\ \A i \in 1..n + Len(new) :
           (items \o new)[i] = IF i <= n THEN items[i] ELSE new[i - n]
  <2>1. new \in Seq(Batches \cup {END_MESSAGE})
    BY SeqMonotonic
  <2>2. /\ Len(items \o new) = Len(items) + Len(new)
        /\ \A i \in 1..Len(items) + Len(new) :
             (items \o new)[i] = IF i <= Len(items) THEN items[i] ELSE new[i - Len(items)]
    BY <2>1, ConcatProperties
  <2>. HIDE DEF n
  <2>. QED BY <1>1, <2>2
<1>3. /\ Len(s \o new) = Len(s) + Len(new)
      /\ \A i \in 1..Len(s) + Len(new) :
           (s \o new)[i] = IF i <= Len(s) THEN s[i] ELSE new[i - Len(s)]
  BY ConcatProperties
<1>4. ASSUME NEW i \in 1..n + Len(new) PROVE (items \o new)[i] = (s \o new)[k + i]
  <2>1. k + i \in 1..Len(s) + Len(new) /\ (i <= n <=> k + i <= Len(s)) /\ i - n = k + i - Len(s)
    BY <1>1
  <2>2. CASE i <= n
    BY <1>1, <1>2, <1>3, <2>1, <2>2 DEF IsRest
  <2>3. CASE ~(i <= n)
    BY <1>2, <1>3, <2>1, <2>3
  <2>. QED BY <2>2, <2>3
<1>. HIDE DEF n
<1>5. k <= Len(s \o new) /\ Len(s \o new) - k = n + Len(new)
  BY <1>1, <1>3 DEF n
<1>. QED BY <1>1, <1>2, <1>4, <1>5 DEF IsRest

\* ... and get() gives the first of it.
LEMMA RestIsTaken ==
  ASSUME NEW items \in Seq(Batches \cup {END_MESSAGE}), NEW s \in Seq(Batches), NEW k \in Nat,
         NEW final \in BOOLEAN, items # <<>>, IsRest(items, s, k, final)
  PROVE  /\ items[1] = END_MESSAGE => final /\ k = Len(s)
         /\ items[1] # END_MESSAGE =>
              k < Len(s) /\ items[1] = s[k + 1] /\ IsRest(Tail(items), s, k + 1, final)
<1>1. Len(items) \in Nat /\ Len(items) >= 1 /\ Len(s) \in Nat
  OBVIOUS
<1>2. items[1] = IF 1 <= Len(s) - k THEN s[k + 1] ELSE END_MESSAGE
  BY <1>1 DEF IsRest
<1>3. k < Len(s) => s[k + 1] \in Batches
  BY ElementOfSeq
<1>4. k < Len(s) <=> items[1] # END_MESSAGE
  BY <1>1, <1>2, <1>3, BatchIsNoMarker
<1>5. ~(k < Len(s)) => final /\ k = Len(s)
  BY <1>1 DEF IsRest
<1>6. /\ Len(Tail(items)) = Len(items) - 1
      /\ \A i \in 1..Len(Tail(items)) : Tail(items)[i] = items[i + 1]
  BY HeadTailProperties
<1>7. k < Len(s) => IsRest(Tail(items), s, k + 1, final)
  BY <1>1, <1>6 DEF IsRest
<1>. QED BY <1>1, <1>2, <1>4, <1>5, <1>7

\* close_of_work() puts the final item behind the rest: the flag was not set
\* before, so the task has not ended.
LEMMA CloseOfWorkKeepsInv ==
  ASSUME TypeOK, NEW r \in Requests, RequestInv(r), CloseOfWork(r)
  PROVE  RequestInv(r)'
<1>1. ~queue[r].lastItemSent /\ processor[r] # "finished" /\ HoldsTheRest(r)
  BY DEF RequestInv, CloseOfWork, NothingLeft
<1>2. queue[r] \in QueuesOf(Batches) /\ ~queue[r].closed
  BY <1>1 DEF TypeOK, HoldsTheRest
<1>3. /\ queue'[r] = PutFinalItem(queue[r])
      /\ request'[r] = "closed" /\ processor'[r] = processor[r]
      /\ deploying'[r] = deploying[r] /\ sent'[r] = sent[r] /\ attempted'[r] = attempted[r]
  BY DEF CloseOfWork, FinalItemOf, TypeOK, pipe
<1>4. /\ PutFinalItem(queue[r]).lastItemSent = TRUE /\ ~PutFinalItem(queue[r]).closed
      /\ PutFinalItem(queue[r]).items = Append(queue[r].items, END_MESSAGE)
  BY <1>1, <1>2, PutFinalItemAppends
<1>5. InOrder(r)' /\ Taken(r)' = Taken(r)
  BY <1>3 DEF RequestInv, InOrder, Taken, InHand
<1>6. IsRest(Append(queue[r].items, END_MESSAGE), sent[r], Taken(r), TRUE)
  <2>1. queue[r].items \in Seq(Batches \cup {END_MESSAGE}) /\ sent[r] \in Seq(Batches)
    BY <1>2 DEF QueuesOf, TypeOK
  <2>2. Taken(r) \in Nat
    BY TakenIsNat
  <2>3. IsRest(queue[r].items, sent[r], Taken(r), FALSE)
    BY <1>1, <1>2 DEF HoldsTheRest, QueuesOf
  <2>. QED BY <2>1, <2>2, <2>3, RestGetsFinal
<1>7. HoldsTheRest(r)'
  BY <1>3, <1>4, <1>5, <1>6 DEF HoldsTheRest
<1>. QED BY <1>1, <1>3, <1>4, <1>5, <1>7 DEF RequestInv

\* The task takes the next batch in its hands, or finds the final item: then
\* there is nothing behind it and everything was tried.
LEMMA TakeItemKeepsInv ==
  ASSUME TypeOK, NEW r \in Requests, RequestInv(r), TakeItem(r)
  PROVE  RequestInv(r)'
<1>. DEFINE items == queue[r].items
<1>1. /\ queue[r] \in QueuesOf(Batches) /\ items \in Seq(Batches \cup {END_MESSAGE})
      /\ items # <<>> /\ queue[r].lastItemSent \in BOOLEAN /\ HasItem(queue[r])
  BY DEF TypeOK, TakeItem, HasItem, QueuesOf
<1>2. /\ processor[r] = "running" /\ deploying[r] = NoBatch
      /\ InOrder(r) /\ ~queue[r].closed
      /\ IsRest(items, sent[r], Taken(r), queue[r].lastItemSent)
  BY DEF RequestInv, TakeItem, HoldsTheRest
<1>3. request'[r] = request[r] /\ sent'[r] = sent[r] /\ attempted'[r] = attempted[r]
  BY DEF TakeItem, tools
<1>4. /\ sent[r] \in Seq(Batches) /\ Len(sent[r]) \in Nat /\ Len(attempted[r]) \in Nat
      /\ Taken(r) = Len(attempted[r])
  BY <1>2 DEF TypeOK, Taken, InHand
<1>5. /\ items[1] = END_MESSAGE => queue[r].lastItemSent /\ Taken(r) = Len(sent[r])
      /\ items[1] # END_MESSAGE =>
           /\ Taken(r) < Len(sent[r]) /\ items[1] = sent[r][Taken(r) + 1]
           /\ IsRest(Tail(items), sent[r], Taken(r) + 1, queue[r].lastItemSent)
  BY <1>1, <1>2, <1>4, RestIsTaken
<1>6. NextItem(queue[r]) = items[1]
  BY <1>1, GetTakesFirst
<1>7. CASE items[1] = END_MESSAGE
  <2>1. /\ queue'[r] = CloseQueue(WithoutNext(queue[r]))
        /\ processor'[r] = "finished" /\ deploying'[r] = NoBatch
    BY <1>2, <1>6, <1>7 DEF TakeItem, TypeOK, IsFinalItem
  <2>2. CloseQueue(WithoutNext(queue[r])).lastItemSent = queue[r].lastItemSent
    BY <1>1, GetTakesFirst, CloseDrains
  <2>3. InOrder(r)'
    BY <1>2, <1>3, <2>1 DEF InOrder, Taken, InHand
  <2>. QED BY <1>3, <1>4, <1>5, <1>7, <2>1, <2>2, <2>3 DEF RequestInv, NothingLeft
<1>8. CASE items[1] # END_MESSAGE
  <2>1. /\ queue'[r] = WithoutNext(queue[r])
        /\ processor'[r] = "running" /\ deploying'[r] = items[1]
    BY <1>2, <1>6, <1>8 DEF TakeItem, TypeOK, IsFinalItem
  <2>2. /\ WithoutNext(queue[r]).lastItemSent = queue[r].lastItemSent
        /\ WithoutNext(queue[r]).closed = queue[r].closed
    BY <1>1, GetTakesFirst
  <2>3. WithoutNext(queue[r]).items = Tail(items)
    BY <1>1 DEF WithoutNext, QueuesOf
  <2>4. items[1] \in Batches /\ items[1] # NoBatch
    BY <1>1, <1>6, <1>8, GetTakesFirst, BatchIsNoMarker DEF IsFinalItem
  <2>5. Taken(r)' = Taken(r) + 1
    BY <1>3, <1>4, <2>1, <2>4 DEF Taken, InHand
  <2>6. InOrder(r)'
    BY <1>2, <1>3, <1>4, <1>5, <1>8, <2>1, <2>5 DEF InOrder
  <2>7. HoldsTheRest(r)'
    BY <1>2, <1>3, <1>5, <1>8, <2>1, <2>2, <2>3, <2>5 DEF HoldsTheRest
  <2>. QED BY <1>3, <2>1, <2>2, <2>6, <2>7 DEF RequestInv
<1>. QED BY <1>7, <1>8

\* The batch in the task's hands is the next that was sent: it joins what was
\* tried.
LEMMA DeployTogetherKeepsInv ==
  ASSUME TypeOK, NEW r \in Requests, RequestInv(r), DeployTogether(r)
  PROVE  /\ RequestInv(r)'
         /\ Len(attempted[r]) < Len(sent[r])
         /\ deploying[r] = sent[r][Len(attempted[r]) + 1]
<1>1. /\ attempted[r] \in Seq(Batches) /\ deploying[r] # NoBatch /\ deploying[r] \in Batches
      /\ Len(sent[r]) \in Nat /\ Len(attempted[r]) \in Nat
  BY DEF TypeOK, DeployTogether
<1>2. Taken(r) = Len(attempted[r]) + 1
  BY <1>1 DEF Taken, InHand
<1>3. /\ request'[r] = request[r] /\ queue'[r] = queue[r] /\ processor'[r] = processor[r]
      /\ sent'[r] = sent[r] /\ deploying'[r] = NoBatch
      /\ attempted'[r] = Append(attempted[r], deploying[r])
  BY DEF TypeOK, DeployTogether, pipe
<1>4. /\ Len(attempted'[r]) = Len(attempted[r]) + 1
      /\ \A i \in 1..Len(attempted[r]) : attempted'[r][i] = attempted[r][i]
      /\ attempted'[r][Len(attempted[r]) + 1] = deploying[r]
  BY <1>1, <1>3, AppendProperties
<1>5. Taken(r)' = Taken(r)
  BY <1>1, <1>2, <1>3, <1>4 DEF Taken, InHand
<1>6. InOrder(r)
  BY DEF RequestInv
<1>7. InOrder(r)'
  BY <1>1, <1>2, <1>3, <1>4, <1>5, <1>6 DEF InOrder
<1>8. processor[r] # "finished"
  BY <1>1, <1>2, <1>6 DEF RequestInv, NothingLeft, InOrder
<1>9. HoldsTheRest(r)'
  BY <1>3, <1>5, <1>8 DEF HoldsTheRest, RequestInv
<1>. QED BY <1>1, <1>2, <1>3, <1>6, <1>7, <1>8, <1>9 DEF RequestInv, InOrder

\* Leaving the with-statement puts the batches behind the rest, or drops them all.
LEMMA ExitKeepsInv ==
  ASSUME TypeOK, NEW t \in Tools, RequestInv(RequestOf[t]), Exit(t)
  PROVE  RequestInv(RequestOf[t])'
<1>. DEFINE r == RequestOf[t]
            new == Collected(t)
<1>1. /\ r \in Requests /\ queue[r] \in QueuesOf(Batches) /\ new \in Seq(Batches)
      /\ sent[r] \in Seq(Batches)
  BY PipelineAssumption DEF PipelineAssumption, TypeOK, Collected
<1>2. /\ request'[r] = request[r] /\ processor'[r] = processor[r]
      /\ deploying'[r] = deploying[r] /\ attempted'[r] = attempted[r]
      /\ queue'[r] = PutAll(queue[r], new)
      /\ sent'[r] = IF Accepts(queue[r]) THEN sent[r] \o new ELSE sent[r]
  BY <1>1 DEF TypeOK, Exit
<1>. HIDE DEF r, new
<1>3. RequestInv(r)
  BY DEF r
<1>4. CASE ~Accepts(queue[r])
  <2>1. PutAll(queue[r], new) = queue[r]
    BY <1>1, <1>4, PutAllAppends
  <2>2. Untouched(r)
    BY <1>2, <1>4, <2>1 DEF Untouched
  <2>. QED BY <1>1, <1>3, <2>2, UntouchedKeepsInv DEF r
<1>5. CASE Accepts(queue[r])
  <2>1. queue[r].lastItemSent = FALSE /\ processor[r] # "finished" /\ HoldsTheRest(r)
    BY <1>1, <1>3, <1>5 DEF Accepts, RequestInv, NothingLeft, QueuesOf
  <2>2. /\ PutAll(queue[r], new).items = queue[r].items \o new
        /\ PutAll(queue[r], new).lastItemSent = queue[r].lastItemSent
        /\ PutAll(queue[r], new).closed = queue[r].closed
    BY <1>1, <1>5, PutAllAppends
  <2>3. Taken(r)' = Taken(r) /\ Taken(r) \in Nat
    BY <1>1, <1>2, TakenIsNat DEF Taken, InHand
  <2>4. IsRest(queue[r].items \o new, sent[r] \o new, Taken(r), FALSE)
    <3>1. queue[r].items \in Seq(Batches \cup {END_MESSAGE})
      BY <1>1 DEF QueuesOf
    <3>2. IsRest(queue[r].items, sent[r], Taken(r), FALSE)
      BY <2>1 DEF HoldsTheRest
    <3>. QED BY <1>1, <2>3, <3>1, <3>2, RestGrows
  <2>5. HoldsTheRest(r)'
    BY <1>2, <1>5, <2>1, <2>2, <2>3, <2>4 DEF HoldsTheRest
  <2>6. InOrder(r)'
    <3>1. /\ Len(sent[r] \o new) = Len(sent[r]) + Len(new)
          /\ Len(sent[r]) \in Nat /\ Len(new) \in Nat
          /\ \A i \in 1..Len(sent[r]) : (sent[r] \o new)[i] = sent[r][i]
      BY <1>1, ConcatProperties
    <3>2. Len(attempted[r]) \in Nat /\ Taken(r) >= Len(attempted[r])
          /\ (deploying[r] # NoBatch => Taken(r) >= 1)
      BY <1>1 DEF TypeOK, Taken, InHand
    <3>3. sent'[r] = sent[r] \o new /\ InOrder(r)
      BY <1>2, <1>3, <1>5 DEF RequestInv
    <3>. QED BY <1>2, <2>3, <3>1, <3>2, <3>3 DEF InOrder
  <2>. QED BY <1>2, <1>3, <2>1, <2>2, <2>5, <2>6 DEF RequestInv, r
<1>. QED BY <1>4, <1>5

\* Every step keeps what the queues hold.
LEMMA QueueStep == TypeOK /\ QueueInv /\ IncomingInv /\ [Next]_vars => QueueInv'
<1>. SUFFICES ASSUME TypeOK, QueueInv, IncomingInv, [Next]_vars, NEW q \in Requests
              PROVE  RequestInv(q)'
  BY DEF QueueInv
<1>. RequestInv(q)
  BY DEF QueueInv
<1>1. ASSUME NEW r \in Requests, Begin(r) PROVE RequestInv(q)'
  <2>1. CASE q = r
    BY <1>1, <2>1 DEF Begin, tools, TypeOK, RequestInv, InOrder, HoldsTheRest, NothingLeft,
                      Taken, InHand
  <2>2. CASE q # r
    BY <1>1, <2>2, UntouchedKeepsInv DEF Begin, Untouched, TypeOK
  <2>. QED BY <2>1, <2>2
<1>2. ASSUME NEW r \in Requests, CloseOfWork(r) \/ TakeItem(r) \/ DeployTogether(r)
      PROVE  RequestInv(q)'
  <2>1. CASE q = r
    BY <1>2, <2>1, CloseOfWorkKeepsInv, TakeItemKeepsInv, DeployTogetherKeepsInv
  <2>2. CASE q # r
    <3>1. CASE CloseOfWork(r)
      BY <2>2, <3>1, UntouchedKeepsInv DEF CloseOfWork, Untouched, TypeOK
    <3>2. CASE TakeItem(r)
      BY <2>2, <3>2, UntouchedKeepsInv DEF TakeItem, Untouched, TypeOK
    <3>3. CASE DeployTogether(r)
      BY <2>2, <3>3, UntouchedKeepsInv DEF DeployTogether, Untouched, TypeOK, pipe
    <3>. QED BY <1>2, <3>1, <3>2, <3>3
  <2>. QED BY <2>1, <2>2
<1>3. ASSUME NEW t \in Tools, Exit(t) PROVE RequestInv(q)'
  <2>1. CASE q = RequestOf[t]
    BY <1>3, <2>1, ExitKeepsInv
  <2>2. CASE q # RequestOf[t]
    BY <1>3, <2>2, UntouchedKeepsInv DEF Exit, Untouched, TypeOK
  <2>. QED BY <2>1, <2>2
<1>4. ASSUME NEW t \in Tools, Enter(t) \/ Deploy(t) \/ DeployRaises(t) \/ Wake(t)
      PROVE  RequestInv(q)'
  BY <1>4, UntouchedKeepsInv DEF Enter, Deploy, DeployRaises, Wake, Untouched, pipe
<1>5. ASSUME NEW b \in Batches, SetEvent(b) PROVE RequestInv(q)'
  BY <1>5, UntouchedKeepsInv DEF SetEvent, Untouched, pipe
<1>6. CASE TakeQueue
  <2>1. 1 \in 1..Len(incoming) /\ Head(incoming) = incoming[1]
    BY <1>6 DEF TakeQueue, TypeOK
  <2>2. processor[Head(incoming)] = "none"
    BY <2>1 DEF IncomingInv
  <2>3. (processor[q] = "finished") <=> (processor'[q] = "finished")
    BY <1>6, <2>2 DEF TakeQueue, TypeOK
  <2>4. UNCHANGED <<request, queue, deploying, sent, attempted>>
    BY <1>6 DEF TakeQueue
  <2>. QED BY <2>3, <2>4 DEF RequestInv, InOrder, HoldsTheRest, NothingLeft, Taken, InHand
<1>7. CASE UNCHANGED vars
  BY <1>7, UntouchedKeepsInv DEF vars, pipe, Untouched
<1>. QED BY <1>1, <1>2, <1>3, <1>4, <1>5, <1>6, <1>7 DEF Next

\* A queue is handed to the updater once, by the request's begin.
LEMMA IncomingStep == TypeOK /\ IncomingInv /\ [Next]_vars => IncomingInv'
<1>. SUFFICES ASSUME TypeOK, IncomingInv, [Next]_vars PROVE IncomingInv'
  OBVIOUS
<1>. incoming \in Seq(Requests) /\ Len(incoming) \in Nat
  BY DEF TypeOK
<1>1. ASSUME NEW r \in Requests, Begin(r) PROVE IncomingInv'
  <2>1. /\ Len(incoming') = Len(incoming) + 1
        /\ \A i \in 1..Len(incoming) : incoming'[i] = incoming[i] /\ incoming[i] \in Requests
        /\ incoming'[Len(incoming) + 1] = r
    BY <1>1, AppendProperties, ElementOfSeq DEF Begin
  <2>2. /\ request[r] = "new" /\ request'[r] = "open" /\ processor' = processor
        /\ \A q \in Requests : q # r => request'[q] = request[q]
    BY <1>1 DEF Begin, TypeOK
  <2>3. \A i \in 1..Len(incoming) : incoming[i] # r
    BY <2>2 DEF IncomingInv
  <2>4. \A q \in Requests : request'[q] = "new" => processor'[q] = "none"
    BY <2>2 DEF IncomingInv
  <2>5. ASSUME NEW i \in 1..Len(incoming')
        PROVE  request'[incoming'[i]] # "new" /\ processor'[incoming'[i]] = "none"
    BY <2>1, <2>2, <2>3 DEF IncomingInv
  <2>6. ASSUME NEW i \in 1..Len(incoming'), NEW j \in 1..Len(incoming'),
               incoming'[i] = incoming'[j]
        PROVE  i = j
    BY <2>1, <2>3, <2>6 DEF IncomingInv
  <2>. QED BY <2>4, <2>5, <2>6 DEF IncomingInv
<1>2. ASSUME NEW r \in Requests, CloseOfWork(r) PROVE IncomingInv'
  <2>1. incoming' = incoming /\ processor' = processor
    BY <1>2 DEF CloseOfWork
  <2>2. \A q \in Requests : request'[q] = "new" <=> request[q] = "new"
    BY <1>2 DEF CloseOfWork, TypeOK
  <2>3. \A i \in 1..Len(incoming) : incoming[i] \in Requests
    BY ElementOfSeq
  <2>. QED BY <2>1, <2>2, <2>3 DEF IncomingInv
<1>3. ASSUME NEW r \in Requests, TakeItem(r) PROVE IncomingInv'
  <2>1. processor[r] = "running" /\ incoming' = incoming /\ request' = request
    BY <1>3 DEF TakeItem
  <2>2. \A q \in Requests : q # r => processor'[q] = processor[q]
    BY <1>3 DEF TakeItem, TypeOK
  <2>3. \A i \in 1..Len(incoming) : incoming[i] \in Requests /\ incoming[i] # r
    BY <2>1, ElementOfSeq DEF IncomingInv
  <2>4. request[r] # "new"
    BY <2>1 DEF IncomingInv
  <2>. QED BY <2>1, <2>2, <2>3, <2>4 DEF IncomingInv
<1>4. CASE TakeQueue
  <2>1. /\ incoming # <<>> /\ incoming' = Tail(incoming) /\ request' = request
        /\ processor' = [processor EXCEPT ![Head(incoming)] = "running"]
    BY <1>4 DEF TakeQueue
  <2>2. /\ Len(incoming) >= 1 /\ Head(incoming) = incoming[1]
        /\ Len(incoming') = Len(incoming) - 1
        /\ \A i \in 1..Len(incoming') : incoming'[i] = incoming[i + 1]
    BY <2>1, HeadTailProperties
  <2>3. \A i \in 1..Len(incoming) : incoming[i] \in Requests
    BY ElementOfSeq
  <2>4. \A i \in 1..Len(incoming') : incoming'[i] \in Requests /\ incoming'[i] # incoming[1]
    BY <2>2, <2>3 DEF IncomingInv
  <2>5. \A q \in Requests : q # incoming[1] => processor'[q] = processor[q]
    BY <2>1, <2>2 DEF TypeOK
  <2>6. request[incoming[1]] # "new"
    BY <2>2 DEF IncomingInv
  <2>7. \A q \in Requests : request'[q] = "new" => processor'[q] = "none"
    BY <2>1, <2>5, <2>6 DEF IncomingInv
  <2>8. ASSUME NEW i \in 1..Len(incoming')
        PROVE  request'[incoming'[i]] # "new" /\ processor'[incoming'[i]] = "none"
    BY <2>1, <2>2, <2>4, <2>5 DEF IncomingInv
  <2>9. ASSUME NEW i \in 1..Len(incoming'), NEW j \in 1..Len(incoming'),
               incoming'[i] = incoming'[j]
        PROVE  i = j
    BY <2>2, <2>9 DEF IncomingInv
  <2>. QED BY <2>7, <2>8, <2>9 DEF IncomingInv
<1>5. CASE UNCHANGED <<request, incoming, processor>>
  BY <1>5 DEF IncomingInv
<1>6. ASSUME NEW r \in Requests, DeployTogether(r) PROVE IncomingInv'
  BY <1>5, <1>6 DEF DeployTogether, pipe
<1>7. ASSUME NEW t \in Tools, Enter(t) \/ Deploy(t) \/ DeployRaises(t) \/ Exit(t) \/ Wake(t)
      PROVE  IncomingInv'
  BY <1>5, <1>7 DEF Enter, Deploy, DeployRaises, Exit, Wake, pipe
<1>8. ASSUME NEW b \in Batches, SetEvent(b) PROVE IncomingInv'
  BY <1>5, <1>8 DEF SetEvent, pipe
<1>9. CASE UNCHANGED vars
  BY <1>5, <1>9 DEF vars, pipe
<1>. QED BY <1>1, <1>2, <1>3, <1>4, <1>6, <1>7, <1>8, <1>9 DEF Next
-----------------------------------------------------------------------------
\* What a request sent is only ever added to, and a closed request stays closed.
LEMMA SentGrows ==
  ASSUME TypeOK, [Next]_vars, NEW r \in Requests
  PROVE  /\ Len(sent[r]) <= Len(sent'[r])
         /\ \A i \in 1..Len(sent[r]) : sent'[r][i] = sent[r][i]
         /\ request[r] = "closed" => request'[r] = "closed"
<1>. DEFINE Goal == /\ Len(sent[r]) <= Len(sent'[r])
                    /\ \A i \in 1..Len(sent[r]) : sent'[r][i] = sent[r][i]
                    /\ request[r] = "closed" => request'[r] = "closed"
<1>. sent[r] \in Seq(Batches) /\ Len(sent[r]) \in Nat
  BY DEF TypeOK
<1>1. ASSUME NEW t \in Tools, Exit(t) PROVE Goal
  <2>1. Collected(t) \in Seq(Batches) /\ Len(Collected(t)) \in Nat
    BY DEF TypeOK, Collected
  <2>2. sent'[r] = sent[r] \/ sent'[r] = sent[r] \o Collected(t)
    BY <1>1 DEF Exit, TypeOK
  <2>3. request' = request
    BY <1>1 DEF Exit
  <2>4. /\ Len(sent[r] \o Collected(t)) = Len(sent[r]) + Len(Collected(t))
        /\ \A i \in 1..Len(sent[r]) : (sent[r] \o Collected(t))[i] = sent[r][i]
    BY <2>1, ConcatProperties
  <2>. QED BY <2>1, <2>2, <2>3, <2>4
<1>2. ASSUME NEW q \in Requests, Begin(q) \/ CloseOfWork(q) PROVE Goal
  <2>1. request[r] = "closed" => request'[r] = "closed"
    BY <1>2 DEF Begin, CloseOfWork, TypeOK
  <2>2. sent' = sent
    BY <1>2 DEF Begin, CloseOfWork
  <2>. QED BY <2>1, <2>2
<1>3. CASE UNCHANGED <<request, sent>>
  BY <1>3
<1>4. ASSUME NEW q \in Requests, TakeItem(q) \/ DeployTogether(q) PROVE Goal
  BY <1>3, <1>4 DEF TakeItem, DeployTogether
<1>5. ASSUME NEW t \in Tools, Enter(t) \/ Deploy(t) \/ DeployRaises(t) \/ Wake(t) PROVE Goal
  BY <1>3, <1>5 DEF Enter, Deploy, DeployRaises, Wake
<1>6. ASSUME NEW b \in Batches, SetEvent(b) PROVE Goal
  BY <1>3, <1>6 DEF SetEvent
<1>7. CASE TakeQueue \/ UNCHANGED vars
  BY <1>3, <1>7 DEF TakeQueue, vars
<1>. QED BY <1>1, <1>2, <1>4, <1>5, <1>6, <1>7 DEF Next

\* A batch whose event a tool holds stays where it is, or moves on: leaving the
\* with-statement sends it, unless the request is closed.
LEMMA ToolStep == TypeOK /\ QueueInv /\ ToolInv /\ [Next]_vars => ToolInv'
<1>. SUFFICES ASSUME TypeOK, QueueInv, ToolInv, [Next]_vars, NEW u \in Tools
              PROVE  /\ tool'[u] = "idle" => awaiting'[u] = NoBatch
                     /\ awaiting'[u] # NoBatch => Kept(u)'
  BY DEF ToolInv
<1>. DEFINE r == RequestOf[u]
            Goal == /\ tool'[u] = "idle" => awaiting'[u] = NoBatch
                    /\ awaiting'[u] # NoBatch => Kept(u)'
<1>. /\ r \in Requests /\ (tool[u] = "idle" => awaiting[u] = NoBatch)
     /\ awaiting[u] # NoBatch => Kept(u)
  BY PipelineAssumption DEF PipelineAssumption, ToolInv
<1>0. /\ Len(sent[r]) <= Len(sent'[r]) /\ Len(sent[r]) \in Nat /\ Len(sent'[r]) \in Nat
      /\ \A i \in 1..Len(sent[r]) : sent'[r][i] = sent[r][i]
      /\ request[r] = "closed" => request'[r] = "closed"
  BY SentGrows, TypeStep DEF TypeOK
<1>1. ASSUME tool'[u] = "idle" => tool[u] = "idle", awaiting'[u] = awaiting[u],
             deployments'[u] = deployments[u]
      PROVE  Goal
  BY <1>0, <1>1 DEF Kept
<1>2. ASSUME NEW t \in Tools, Enter(t) PROVE Goal
  <2>1. CASE t = u
    BY <1>2, <2>1 DEF Enter, TypeOK
  <2>2. CASE t # u
    BY <1>1, <1>2, <2>2 DEF Enter, TypeOK
  <2>. QED BY <2>1, <2>2
<1>3. ASSUME NEW t \in Tools, Deploy(t) PROVE Goal
  <2>1. CASE t = u
    <3>1. tool'[u] = "inside"
      BY <1>3, <2>1 DEF Deploy, TypeOK
    <3>2. awaiting'[u] = NextBatch(u) /\ deployments'[u] = Append(deployments[u], NextBatch(u))
      BY <1>3, <2>1 DEF Deploy, TypeOK
    <3>3. NextBatch(u) \in Batches /\ deployments[u] \in Seq(Batches)
      BY <1>3, <2>1, NextBatchIsBatch DEF Deploy, TypeOK
    <3>4. /\ Len(deployments'[u]) \in 1..Len(deployments'[u])
          /\ deployments'[u][Len(deployments'[u])] = awaiting'[u]
      BY <3>2, <3>3, AppendProperties
    <3>. QED BY <3>1, <3>4 DEF Kept
  <2>2. CASE t # u
    BY <1>1, <1>3, <2>2 DEF Deploy, TypeOK
  <2>. QED BY <2>1, <2>2
<1>4. ASSUME NEW t \in Tools, Exit(t) PROVE Goal
  <2>1. CASE t = u
    <3>1. tool'[u] # "idle" /\ awaiting'[u] = awaiting[u] /\ request' = request
      BY <1>4, <2>1 DEF Exit, TypeOK, AfterExit
    <3>2. CASE Accepts(queue[r])
      <4>1. sent'[r] = sent[r] \o deployments[u]
        BY <1>4, <2>1, <3>2 DEF Exit, TypeOK, Collected
      <4>2. deployments[u] \in Seq(Batches) /\ sent[r] \in Seq(Batches)
        BY DEF TypeOK
      <4>3. ASSUME NEW i \in 1..Len(deployments[u]), deployments[u][i] = awaiting[u]
            PROVE  Kept(u)'
        <5>1. /\ Len(sent[r]) + i \in 1..Len(sent'[r])
              /\ sent'[r][Len(sent[r]) + i] = deployments[u][i]
          <6>. DEFINE s == sent[r]
                      new == deployments[u]
          <6>1. s \in Seq(Batches) /\ new \in Seq(Batches) /\ i \in 1..Len(new)
            BY <4>2
          <6>2. sent'[r] = s \o new
            BY <4>1
          <6>. HIDE DEF s, new
          <6>3. Len(s) + i \in 1..Len(s \o new) /\ (s \o new)[Len(s) + i] = new[i]
            BY <6>1, ConcatHoldsSecond
          <6>. QED BY <6>2, <6>3 DEF s, new
        <5>. QED BY <3>1, <4>3, <5>1 DEF Kept
      <4>. QED BY <1>0, <3>1, <4>3 DEF Kept
    <3>3. CASE ~Accepts(queue[r])
      BY <3>1, <3>3 DEF Accepts, QueueInv, RequestInv, Kept
    <3>. QED BY <3>2, <3>3
  <2>2. CASE t # u
    BY <1>1, <1>4, <2>2 DEF Exit, TypeOK
  <2>. QED BY <2>1, <2>2
<1>5. ASSUME NEW t \in Tools, DeployRaises(t) \/ Wake(t) PROVE Goal
  BY <1>1, <1>5 DEF DeployRaises, Wake, TypeOK
<1>6. ASSUME NEW q \in Requests, Begin(q) \/ CloseOfWork(q) \/ TakeItem(q) \/ DeployTogether(q)
      PROVE  Goal
  BY <1>1, <1>6 DEF Begin, CloseOfWork, TakeItem, DeployTogether, tools
<1>7. ASSUME NEW b \in Batches, SetEvent(b) PROVE Goal
  BY <1>1, <1>7 DEF SetEvent, tools
<1>8. CASE TakeQueue \/ UNCHANGED vars
  BY <1>1, <1>8 DEF TakeQueue, vars, tools
<1>. QED BY <1>2, <1>3, <1>4, <1>5, <1>6, <1>7, <1>8 DEF Next

\* An event is posted when its batch was tried, with or without success.
LEMMA ConfirmStep == TypeOK /\ ConfirmInv /\ [Next]_vars => ConfirmInv'
<1>. SUFFICES ASSUME TypeOK, ConfirmInv, [Next]_vars PROVE ConfirmInv'
  OBVIOUS
<1>1. ASSUME NEW r \in Requests, DeployTogether(r) PROVE ConfirmInv'
  <2>1. /\ attempted[r] \in Seq(Batches) /\ deploying[r] \in Batches
        /\ attempted' = [attempted EXCEPT ![r] = Append(@, deploying[r])]
        /\ posted' = posted \cup {deploying[r]} /\ events' = events
    BY <1>1 DEF DeployTogether, Notified, TypeOK
  <2>2. /\ Len(attempted'[r]) = Len(attempted[r]) + 1 /\ Len(attempted[r]) \in Nat
        /\ \A i \in 1..Len(attempted[r]) : attempted'[r][i] = attempted[r][i]
        /\ attempted'[r][Len(attempted'[r])] = deploying[r]
    BY <2>1, AppendProperties DEF TypeOK
  <2>3. ASSUME NEW b \in Batches, b = deploying[r] PROVE Tried(b)'
    BY <2>2, <2>3 DEF Tried
  <2>4. ASSUME NEW b \in Batches, Tried(b) PROVE Tried(b)'
    <3>1. PICK q \in Requests : \E i \in 1..Len(attempted[q]) : attempted[q][i] = b
      BY <2>4 DEF Tried
    <3>2. CASE q = r
      BY <2>2, <3>1, <3>2 DEF Tried
    <3>3. CASE q # r
      BY <2>1, <3>1, <3>3 DEF Tried, TypeOK
    <3>. QED BY <3>2, <3>3
  <2>. QED BY <2>1, <2>3, <2>4 DEF ConfirmInv, TypeOK
<1>2. CASE UNCHANGED attempted /\ posted' \cup events' \subseteq posted \cup events
  BY <1>2 DEF ConfirmInv, Tried
<1>3. ASSUME NEW b \in Batches, SetEvent(b) PROVE ConfirmInv'
  BY <1>2, <1>3 DEF SetEvent
<1>4. ASSUME NEW r \in Requests, Begin(r) \/ CloseOfWork(r) \/ TakeItem(r) PROVE ConfirmInv'
  BY <1>2, <1>4 DEF Begin, CloseOfWork, TakeItem
<1>5. ASSUME NEW t \in Tools, Enter(t) \/ Deploy(t) \/ DeployRaises(t) \/ Exit(t) \/ Wake(t)
      PROVE  ConfirmInv'
  BY <1>2, <1>5 DEF Enter, Deploy, DeployRaises, Exit, Wake
<1>6. CASE TakeQueue \/ UNCHANGED vars
  BY <1>2, <1>6 DEF TakeQueue, vars
<1>. QED BY <1>1, <1>3, <1>4, <1>5, <1>6 DEF Next
-----------------------------------------------------------------------------
\* Before anything is deployed every queue is new and holds everything sent.
LEMMA InitInv == Init => IInv
<1>. SUFFICES ASSUME Init PROVE IInv
  OBVIOUS
<1>1. TypeOK
  BY EmptyQueueIsQueue DEF Init, TypeOK
<1>2. QueueInv
  <2>. SUFFICES ASSUME NEW r \in Requests PROVE RequestInv(r)
    BY DEF QueueInv
  <2>1. /\ request[r] = "new" /\ queue[r] = EmptyQueue /\ processor[r] = "none"
        /\ deploying[r] = NoBatch /\ sent[r] = <<>> /\ attempted[r] = <<>>
    BY DEF Init
  <2>2. Taken(r) = 0
    BY <2>1 DEF Taken, InHand
  <2>. QED BY <2>1, <2>2 DEF RequestInv, InOrder, HoldsTheRest, IsRest, EmptyQueue
<1>3. IncomingInv
  BY DEF Init, IncomingInv
<1>4. ToolInv /\ ConfirmInv
  BY DEF Init, ToolInv, ConfirmInv
<1>. QED BY <1>1, <1>2, <1>3, <1>4 DEF IInv

\* The inductive invariant holds throughout: each queue holds the rest of what its
\* request sent, in order, whatever task it was handed to.
THEOREM Invariance == Spec => []IInv
<1>1. IInv /\ [Next]_vars => IInv'
  BY TypeStep, QueueStep, IncomingStep, ToolStep, ConfirmStep DEF IInv
<1>. QED BY InitInv, <1>1, PTL DEF Spec

\* No batch is lost: when the task of a queue ends, everything that was sent was
\* tried, and what deploy() accepted is collected, sent, or refused by a closed
\* request.
THEOREM BatchesAreKept == Spec => []NothingIsLost
<1>1. IInv => NothingIsLost
  <2>. SUFFICES ASSUME IInv PROVE NothingIsLost
    OBVIOUS
  <2>1. ASSUME NEW r \in Requests, processor[r] = "finished" PROVE attempted[r] = sent[r]
    <3>1. /\ attempted[r] \in Seq(Batches) /\ sent[r] \in Seq(Batches)
          /\ Len(attempted[r]) = Len(sent[r])
          /\ \A i \in 1..Len(attempted[r]) : attempted[r][i] = sent[r][i]
      BY <2>1 DEF IInv, TypeOK, QueueInv, RequestInv, NothingLeft, InOrder
    <3>. QED BY <3>1, SeqEqual
  <2>2. ASSUME NEW t \in Tools, awaiting[t] # NoBatch PROVE Kept(t)
    BY <2>2 DEF IInv, ToolInv
  <2>. QED BY <2>1, <2>2 DEF NothingIsLost, Kept
<1>. QED BY <1>1, Invariance, PTL
-----------------------------------------------------------------------------
\* What a request sent is a prefix of what it will have sent.
LEMMA ConcatExtends ==
  ASSUME NEW s \in Seq(Batches), NEW new \in Seq(Batches)
  PROVE  Channel!Extends(s \o new, s) /\ Channel!Extends(s, s)
<1>1. Len(s) \in Nat /\ Len(new) \in Nat /\ Len(s \o new) = Len(s) + Len(new)
  BY ConcatProperties
<1>2. SubSeq(s, 1, Len(s)) = s
  BY SubSeqFull
<1>3. CASE Len(s) = 0
  <2>1. SubSeq(s \o new, 1, Len(s)) = <<>> /\ s = <<>>
    BY <1>3, SubSeqEmpty
  <2>. QED BY <1>1, <1>2, <2>1 DEF Channel!Extends
<1>4. CASE Len(s) > 0
  <2>1. 1 \in 1..Len(s) /\ Len(s) \in 1..Len(s)
    BY <1>1, <1>4
  <2>2. SubSeq(s \o new, 1, Len(s)) = SubSeq(s, 1, Len(s))
    BY <2>1, SubSeqOfConcat1
  <2>. QED BY <1>1, <1>2, <2>2 DEF Channel!Extends
<1>. QED BY <1>1, <1>3, <1>4

\* Leaving a with-statement is a Send, deploy_together() an Attempt, a set event
\* a Confirm; every other step changes nothing the channel speaks of.
LEMMA StepImplementsChannel == IInv /\ [Next]_vars => [Channel!Next]_(Channel!vars)
<1>. SUFFICES ASSUME IInv, [Next]_vars PROVE Channel!Next \/ UNCHANGED Channel!vars
  OBVIOUS
<1>. TypeOK /\ QueueInv /\ ConfirmInv
  BY DEF IInv
<1>1. ASSUME NEW t \in Tools, Exit(t) PROVE Channel!Next
  <2>. DEFINE r == RequestOf[t]
  <2>1. /\ r \in Requests /\ sent[r] \in Seq(Batches) /\ Collected(t) \in Seq(Batches)
    BY PipelineAssumption DEF PipelineAssumption, TypeOK, Collected
  <2>2. /\ sent'[r] = sent[r] \o Collected(t) \/ sent'[r] = sent[r]
        /\ \A q \in Requests \ {r} : sent'[q] = sent[q]
        /\ UNCHANGED <<attempted, events>>
    BY <1>1, <2>1 DEF Exit, TypeOK
  <2>3. Channel!Extends(sent'[r], sent[r])
    BY <2>1, <2>2, ConcatExtends
  <2>4. Channel!Send(r)
    BY <2>2, <2>3 DEF Channel!Send
  <2>. QED BY <2>1, <2>4 DEF Channel!Next
<1>2. ASSUME NEW r \in Requests, DeployTogether(r) PROVE Channel!Next
  <2>1. /\ Len(attempted[r]) < Len(sent[r])
        /\ deploying[r] = sent[r][Len(attempted[r]) + 1]
    BY <1>2, DeployTogetherKeepsInv DEF QueueInv
  <2>2. Channel!Attempt(r)
    BY <1>2, <2>1 DEF DeployTogether, Channel!Attempt, TypeOK
  <2>. QED BY <2>2 DEF Channel!Next
<1>3. ASSUME NEW b \in Batches, SetEvent(b) PROVE Channel!Next
  <2>1. Tried(b)
    BY <1>3 DEF SetEvent, ConfirmInv
  <2>2. Channel!Confirm(b)
    BY <1>3, <2>1 DEF SetEvent, Tried, Channel!Confirm
  <2>. QED BY <2>2 DEF Channel!Next
<1>4. ASSUME NEW r \in Requests, Begin(r) \/ CloseOfWork(r) \/ TakeItem(r)
      PROVE  UNCHANGED Channel!vars
  BY <1>4 DEF Begin, CloseOfWork, TakeItem, Channel!vars
<1>5. ASSUME NEW t \in Tools, Enter(t) \/ Deploy(t) \/ DeployRaises(t) \/ Wake(t)
      PROVE  UNCHANGED Channel!vars
  BY <1>5 DEF Enter, Deploy, DeployRaises, Wake, Channel!vars
<1>6. CASE TakeQueue \/ UNCHANGED vars
  BY <1>6 DEF TakeQueue, vars, Channel!vars
<1>. QED BY <1>1, <1>2, <1>3, <1>4, <1>5, <1>6 DEF Next

\* What a request sends is tried once each and in the order it was sent, and a
\* batch is confirmed only when it was tried.
THEOREM ChannelIsImplemented == Spec => ImplementsChannel
<1>1. Init => Channel!Init
  BY DEF Init, Channel!Init
<1>. QED BY <1>1, Invariance, StepImplementsChannel, PTL DEF Spec, Channel!Spec, ImplementsChannel
=============================================================================

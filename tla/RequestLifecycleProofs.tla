----------------------- MODULE RequestLifecycleProofs -----------------------
(***************************************************************************)
(* Safety of RequestLifecycle for any contexts: what is left to be done to *)
(* close a context is in one place at a time - its own closing steps, the  *)
(* queue of event work, the monitor's pool - so it is done once, after the *)
(* work; and the end marker follows the answer in every queue that was new *)
(* when its exchange began.                                                *)
(***************************************************************************)
EXTENDS RequestLifecycle, SequenceTheorems, FiniteSetTheorems, TLAPS

-----------------------------------------------------------------------------
(* What the methods of AsyncCollatingQueue keep and give, for any items *)

\* A new queue is one, and has nothing to give.
LEMMA EmptyQueueIsQueue ==
  ASSUME NEW S
  PROVE  EmptyQueue \in QueuesOf(S) /\ ~HasItem(EmptyQueue) /\ ~EmptyQueue.lastItemSent
         /\ ~EmptyQueue.closed
BY DEF EmptyQueue, QueuesOf, HasItem

\* put() appends what it accepts, in order, and changes nothing else.
LEMMA PutAllAppends ==
  ASSUME NEW S, NEW q \in QueuesOf(S), NEW items \in Seq(S)
  PROVE  /\ PutAll(q, items) \in QueuesOf(S)
         /\ PutAll(q, items).lastItemSent = q.lastItemSent
         /\ PutAll(q, items).closed = q.closed
         /\ ~Accepts(q) => PutAll(q, items) = q
         /\ Accepts(q) => PutAll(q, items).items = q.items \o items
<1>1. q.items \in Seq(S \cup {END_MESSAGE}) /\ items \in Seq(S \cup {END_MESSAGE})
  BY SeqMonotonic DEF QueuesOf
<1>2. q.items \o items \in Seq(S \cup {END_MESSAGE})
  BY <1>1, ConcatProperties
<1>. QED BY <1>2 DEF PutAll, Accepts, QueuesOf

\* put() of one item, as a special case.
LEMMA PutAppends ==
  ASSUME NEW S, NEW q \in QueuesOf(S), NEW item \in S
  PROVE  /\ Put(q, item) \in QueuesOf(S)
         /\ Put(q, item).lastItemSent = q.lastItemSent
         /\ Put(q, item).closed = q.closed
         /\ ~Accepts(q) => Put(q, item) = q
         /\ Accepts(q) => Put(q, item).items = Append(q.items, item)
<1>1. <<item>> \in Seq(S)
  OBVIOUS
<1>2. q.items \in Seq(S \cup {END_MESSAGE}) /\ item \in S \cup {END_MESSAGE}
  BY DEF QueuesOf
<1>3. Append(q.items, item) = q.items \o <<item>>
  BY <1>2, AppendIsConcat
<1>. QED BY <1>1, <1>3, PutAllAppends DEF Put

\* put_final_item() sets the flag and puts one marker, once.
LEMMA PutFinalItemAppends ==
  ASSUME NEW S, NEW q \in QueuesOf(S)
  PROVE  /\ PutFinalItem(q) \in QueuesOf(S)
         /\ PutFinalItem(q).lastItemSent
         /\ PutFinalItem(q).closed = q.closed
         /\ q.lastItemSent => PutFinalItem(q) = q
         /\ q.closed => PutFinalItem(q).items = q.items
         /\ ~q.lastItemSent /\ ~q.closed =>
              PutFinalItem(q).items = Append(q.items, END_MESSAGE)
<1>1. Append(q.items, END_MESSAGE) \in Seq(S \cup {END_MESSAGE})
  BY DEF QueuesOf
<1>2. CASE q.lastItemSent
  BY <1>2 DEF PutFinalItem, QueuesOf
<1>3. CASE ~q.lastItemSent
  BY <1>1, <1>3 DEF PutFinalItem, QueuesOf
<1>. QED BY <1>2, <1>3

\* A get() gives the first item and leaves the others in their order.
LEMMA GetTakesFirst ==
  ASSUME NEW S, NEW q \in QueuesOf(S), HasItem(q)
  PROVE  /\ WithoutNext(q) \in QueuesOf(S)
         /\ WithoutNext(q).lastItemSent = q.lastItemSent
         /\ WithoutNext(q).closed = q.closed
         /\ NextItem(q) = q.items[1] /\ NextItem(q) \in S \cup {END_MESSAGE}
         /\ ~IsFinalItem(NextItem(q)) => NextItem(q) \in S
         /\ Len(q.items) >= 1 /\ Len(WithoutNext(q).items) = Len(q.items) - 1
         /\ \A i \in 1..Len(WithoutNext(q).items) :
              WithoutNext(q).items[i] = q.items[i + 1]
<1>1. q.items \in Seq(S \cup {END_MESSAGE}) /\ q.items # <<>>
  BY DEF QueuesOf, HasItem
<1>2. /\ Head(q.items) \in S \cup {END_MESSAGE} /\ Head(q.items) = q.items[1]
      /\ Tail(q.items) \in Seq(S \cup {END_MESSAGE}) /\ Len(q.items) >= 1
      /\ Len(Tail(q.items)) = Len(q.items) - 1
      /\ \A i \in 1..Len(Tail(q.items)) : Tail(q.items)[i] = q.items[i + 1]
  BY <1>1, HeadTailProperties
<1>. QED BY <1>2 DEF WithoutNext, NextItem, IsFinalItem, QueuesOf

\* close() leaves nothing to get.
LEMMA CloseDrains ==
  ASSUME NEW S, NEW q \in QueuesOf(S)
  PROVE  /\ CloseQueue(q) \in QueuesOf(S)
         /\ CloseQueue(q).lastItemSent = q.lastItemSent
         /\ CloseQueue(q).closed /\ CloseQueue(q).items = <<>>
<1>1. <<>> \in Seq(S \cup {END_MESSAGE})
  OBVIOUS
<1>. DEFINE p == [q EXCEPT !.closed = TRUE]
<1>2. p \in QueuesOf(S) /\ p.lastItemSent = q.lastItemSent /\ p.closed
  BY DEF QueuesOf
<1>. HIDE DEF p
<1>3. [p EXCEPT !.items = <<>>] \in QueuesOf(S)
  BY <1>1, <1>2 DEF QueuesOf
<1>4. CloseQueue(q) = [p EXCEPT !.items = <<>>]
  BY DEF CloseQueue, p
<1>. QED BY <1>2, <1>3, <1>4 DEF QueuesOf

\* reset() only clears the flag.
LEMMA ResetClearsFlag ==
  ASSUME NEW S, NEW q \in QueuesOf(S)
  PROVE  /\ ResetQueue(q) \in QueuesOf(S)
         /\ ~ResetQueue(q).lastItemSent
         /\ ResetQueue(q).closed = q.closed /\ ResetQueue(q).items = q.items
BY DEF ResetQueue, QueuesOf
-----------------------------------------------------------------------------
\* The sequences of steps that closing a context goes through.
CloseAtOnce(c) == <<"close_of_request">> \o DoneWithWork(c)
HandOver == <<"close_of_request", "put_work">>

\* event_work_queue holds the context.
Waits(c) == \E i \in 1..Len(workQueue.items) : workQueue.items[i] = c

\* Where the close of a context may be.  Nothing of it is left to be done before
\* the request is finished; a clone made of a finished request stays here.
Unclosed(c) ==
  closing[c] = <<>> /\ closes[c] = 0 /\ ~Waits(c) /\ c \notin pool

\* finish_request() closes it ...
ClosesItself(c) ==
  /\ closing[c] \in {CloseAtOnce(c), DoneWithWork(c)} /\ closes[c] = 0
  /\ ~Waits(c) /\ c \notin pool
  /\ ~(invocation[c] = "event" /\ HasMonitor)

\* ... or hands event work to the monitor, ...
HandsOver(c) ==
  /\ closing[c] \in {HandOver, <<"put_work">>} /\ closes[c] = 0
  /\ ~Waits(c) /\ c \notin pool

HandedOver(c) ==
  closing[c] = <<>> /\ closes[c] = 0 /\ Waits(c) /\ c \notin pool

InPool(c) ==
  /\ closing[c] = <<>> /\ closes[c] = 0
  /\ ~Waits(c) /\ c \in pool /\ c \notin monitored

\* ... which closes it when the work is done.
MonitorClosing(c) ==
  /\ closing[c] = DoneWithWork(c) /\ closes[c] = 0
  /\ ~Waits(c) /\ c \in monitored

Closed(c) ==
  /\ closing[c] \in {<<"return_executor">>, <<>>} /\ closes[c] = 1
  /\ ~Waits(c) /\ (c \in pool => c \in monitored)

Finished(c) ==
  ClosesItself(c) \/ HandsOver(c) \/ HandedOver(c) \/ InPool(c) \/ MonitorClosing(c) \/ Closed(c)

\* The close of the request, which takes the queue away, is still to be run.
QueueToClose(c) == closing[c] \in {CloseAtOnce(c), HandOver}

StageInv(c) ==
  /\ Unclosed(c) \/ (Finished(c) /\ requestFinished[c])
  /\ c \in Roots /\ requestFinished[c] => Finished(c)

\* The monitor closes nothing whose work is not done.
WorkInv(c) ==
  /\ invocation[c] = "event" /\ HasMonitor /\ closes[c] = 1 => workDone[c]
  /\ MonitorClosing(c) => workDone[c]

\* A context that was not used is new.
NewInv(c) ==
  /\ exchanges[c] = 0 => /\ Unclosed(c) /\ consumer[c] = "none" /\ queue[c] = EmptyQueue
                         /\ chat[c] = "none" /\ hasQueue[c]
  /\ c \notin Reused => exchanges[c] <= 1

\* In its first exchange a finished context has nobody left reading, and when
\* close_of_request() ran it has no queue: a reset makes a new one.
FirstInv(c) ==
  /\ consumer[c] \in {"finishing", "aborting"} => requestFinished[c]
  /\ c \in Roots /\ consumer[c] = "gone" => requestFinished[c] /\ ~QueueToClose(c)
  /\ exchanges[c] = 1 /\ Finished(c) =>
       /\ consumer[c] \in {"finishing", "aborting", "gone"}
       /\ ~QueueToClose(c) => ~hasQueue[c]

\* The queue of event work is never ended and holds a context at most once; the
\* monitor closes one context of its pool at a time.
MonitorInv ==
  /\ workQueue.items \in Seq(Contexts) /\ ~workQueue.lastItemSent
  /\ \A i, j \in 1..Len(workQueue.items) : workQueue.items[i] = workQueue.items[j] => i = j
  /\ \A c \in monitored : c \in pool /\ monitored = {c}

\* The requests counted are at least those that are not over.
Live == {r \in Roots \ Reused : consumer[r] \notin {"none", "gone"}}
CountInv == IsFiniteSet(Live) /\ requests \in Int /\ requests >= Cardinality(Live)

\* No earlier exchange was interrupted and left its messages in the queue.
Clean(c) == c \in Disconnecting => exchanges[c] <= 2

\* The end marker is the last item, and what is before it is the answer, unless
\* the client has that already.
EndInv(c) ==
  Clean(c) =>
    \A i \in 1..Len(queue[c].items) : queue[c].items[i] = END_MESSAGE =>
      /\ i = Len(queue[c].items) /\ queue[c].lastItemSent
      /\ IF i = 1 THEN answered[c] ELSE queue[c].items[i - 1] = "answer"

\* A stream that ended left nothing behind.
DrainedInv(c) ==
  c \notin Disconnecting =>
    /\ consumer[c] \notin {"interrupted", "aborting"}
    /\ consumer[c] \in {"ended", "finishing", "gone"} =>
         queue[c].items = <<>> /\ queue[c].lastItemSent

AnsweredInv(c) == Clean(c) /\ consumer[c] \in {"ended", "finishing"} => answered[c]

\* The executor goes back when the work is closed.
ExecutorInv == \A r \in Roots : executor[r] = "returned" => closes[r] = 1

IInv ==
  /\ TypeOK /\ MonitorInv /\ CountInv /\ ExecutorInv
  /\ \A c \in Contexts : StageInv(c) /\ WorkInv(c) /\ NewInv(c) /\ FirstInv(c)
  /\ \A c \in Contexts : EndInv(c) /\ DrainedInv(c) /\ AnsweredInv(c)
-----------------------------------------------------------------------------
ClosingSteps == {"close_of_request", "put_work", "close_of_work", "return_executor"}

\* A step before others is the first of them.
LEMMA HeadAndTailOfCons ==
  ASSUME NEW S, NEW e \in S, NEW s \in Seq(S)
  PROVE  /\ <<e>> \o s \in Seq(S) /\ <<e>> \o s # <<>>
         /\ Head(<<e>> \o s) = e /\ Tail(<<e>> \o s) = s
<1>. DEFINE es == <<e>> \o s
<1>1. <<e>> \in Seq(S) /\ Len(<<e>>) = 1 /\ <<e>>[1] = e /\ Len(s) \in Nat
  OBVIOUS
<1>2. /\ es \in Seq(S) /\ Len(es) = 1 + Len(s)
      /\ \A i \in 1..1 + Len(s) : es[i] = IF i <= 1 THEN <<e>>[i] ELSE s[i - 1]
  BY <1>1, ConcatProperties
<1>. HIDE DEF es
<1>3. es # <<>> /\ es[1] = e
  BY <1>1, <1>2
<1>4. /\ Tail(es) \in Seq(S) /\ Len(Tail(es)) = Len(s) /\ Head(es) = es[1]
      /\ \A i \in 1..Len(Tail(es)) : Tail(es)[i] = es[i + 1]
  BY <1>1, <1>2, <1>3, HeadTailProperties
<1>5. ASSUME NEW i \in 1..Len(Tail(es)) PROVE Tail(es)[i] = s[i]
  <2>1. i + 1 \in 1..1 + Len(s) /\ ~(i + 1 <= 1) /\ i + 1 - 1 = i
    BY <1>1, <1>4
  <2>. QED BY <1>2, <1>4, <2>1
<1>6. Tail(es) = s
  BY <1>4, <1>5, SeqEqual
<1>. QED BY <1>2, <1>3, <1>4, <1>6 DEF es

\* The sequences of closing steps, one after the other.
LEMMA StepsOfClosing ==
  ASSUME NEW c \in Contexts
  PROVE  /\ CloseAtOnce(c) \in Seq(ClosingSteps) /\ DoneWithWork(c) \in Seq(ClosingSteps)
         /\ CloseAtOnce(c) # <<>> /\ Head(CloseAtOnce(c)) = "close_of_request"
         /\ Tail(CloseAtOnce(c)) = DoneWithWork(c)
         /\ DoneWithWork(c) # <<>> /\ Head(DoneWithWork(c)) = "close_of_work"
         /\ Tail(DoneWithWork(c)) \in {<<"return_executor">>, <<>>}
<1>1. /\ DoneWithWork(c) \in Seq(ClosingSteps) /\ DoneWithWork(c) # <<>>
      /\ Head(DoneWithWork(c)) = "close_of_work"
  <2>1. /\ <<"close_of_work">> \in Seq(ClosingSteps) /\ <<"close_of_work">> # <<>>
        /\ Head(<<"close_of_work">>) = "close_of_work"
    BY DEF ClosingSteps
  <2>2. /\ <<"close_of_work", "return_executor">> \in Seq(ClosingSteps)
        /\ <<"close_of_work", "return_executor">> # <<>>
        /\ Head(<<"close_of_work", "return_executor">>) = "close_of_work"
    BY DEF ClosingSteps
  <2>. QED BY <2>1, <2>2 DEF DoneWithWork
<1>2. Tail(DoneWithWork(c)) \in {<<"return_executor">>, <<>>}
  BY DEF DoneWithWork
<1>3. "close_of_request" \in ClosingSteps
  BY DEF ClosingSteps
<1>. QED BY <1>1, <1>2, <1>3, HeadAndTailOfCons DEF CloseAtOnce

\* The shorter ones.
LEMMA StepsOfHandingOver ==
  /\ HandOver \in Seq(ClosingSteps) /\ <<"put_work">> \in Seq(ClosingSteps)
  /\ <<"return_executor">> \in Seq(ClosingSteps) /\ <<>> \in Seq(ClosingSteps)
  /\ HandOver # <<>> /\ Head(HandOver) = "close_of_request" /\ Tail(HandOver) = <<"put_work">>
  /\ <<"put_work">> # <<>> /\ Head(<<"put_work">>) = "put_work" /\ Tail(<<"put_work">>) = <<>>
  /\ <<"return_executor">> # <<>> /\ Head(<<"return_executor">>) = "return_executor"
  /\ Tail(<<"return_executor">>) = <<>>
BY DEF HandOver, ClosingSteps

\* finish_request() begins one of them.
LEMMA FinishBeginsOne ==
  ASSUME NEW c \in Contexts
  PROVE  /\ FinishSteps(c) \in Seq(ClosingSteps)
         /\ invocation[c] = "event" /\ HasMonitor => FinishSteps(c) = HandOver
         /\ ~(invocation[c] = "event" /\ HasMonitor) => FinishSteps(c) = CloseAtOnce(c)
BY StepsOfClosing, StepsOfHandingOver DEF FinishSteps, HandOver, CloseAtOnce
-----------------------------------------------------------------------------
Reading == {"report", "answer"}

\* Finalizing keeps the queue a queue.
LEMMA FinalizeKeepsTypes ==
  ASSUME TypeOK, NEW c \in Contexts, Finalize(c)
  PROVE  /\ queue' \in [Contexts -> QueuesOf({"report", "answer"})]
         /\ lastMessageSent' \in [Contexts -> BOOLEAN]
<1>1. queue[c] \in QueuesOf(Reading)
  BY DEF TypeOK, Reading
<1>2. Put(queue[c], "answer") \in QueuesOf(Reading)
  BY <1>1, PutAppends DEF Reading
<1>3. PutFinalItem(Put(queue[c], "answer")) \in QueuesOf(Reading)
  BY <1>2, PutFinalItemAppends
<1>4. queue' \in [Contexts -> QueuesOf({"report", "answer"})]
  BY <1>1, <1>3 DEF Finalize, TypeOK, Reading
<1>5. lastMessageSent' \in [Contexts -> BOOLEAN]
  BY DEF Finalize, TypeOK
<1>. QED BY <1>4, <1>5

\* The types are kept by every step of a client.
LEMMA ClientKeepsTypes ==
  ASSUME TypeOK, CountInv, NEW c \in Contexts
  PROVE  /\ c \in Roots /\ (Open(c) \/ Again(c) \/ Disconnect(c)) => TypeOK'
         /\ Read(c) \/ FinishRequest(c) \/ Leave(c) => TypeOK'
<1>. USE DEF TypeOK, context, monitoring
<1>1. ASSUME c \in Roots, Open(c) PROVE TypeOK'
  BY <1>1 DEF Open, BeginExchange
<1>2. ASSUME c \in Roots, Again(c) PROVE TypeOK'
  <2>1. ResetQueue(queue[c]) \in QueuesOf(Reading) /\ EmptyQueue \in QueuesOf(Reading)
    BY ResetClearsFlag, EmptyQueueIsQueue DEF Reading
  <2>2. queue' \in [Contexts -> QueuesOf({"report", "answer"})]
    BY <1>2, <2>1 DEF Again, Reading
  <2>. QED BY <1>2, <2>2 DEF Again, BeginExchange
<1>3. ASSUME c \in Roots, Disconnect(c) PROVE TypeOK'
  BY <1>3 DEF Disconnect
<1>4. ASSUME Read(c) PROVE TypeOK'
  <2>1. WithoutNext(queue[c]) \in QueuesOf(Reading)
    BY <1>4, GetTakesFirst DEF Read, Reading
  <2>2. queue' \in [Contexts -> QueuesOf({"report", "answer"})]
    BY <1>4, <2>1 DEF Read, Reading
  <2>3. answered' \in [Contexts -> BOOLEAN]
    BY <1>4, Zenon DEF Read
  <2>. QED BY <1>4, <2>2, <2>3 DEF Read
<1>5. ASSUME FinishRequest(c) PROVE TypeOK'
  <2>1. FinishSteps(c) \in Seq(ClosingSteps)
    BY FinishBeginsOne
  <2>. QED BY <1>5, <2>1 DEF FinishRequest, ClosingSteps
<1>6. ASSUME Leave(c) PROVE TypeOK'
  <2>1. FinishSteps(c) \in Seq(ClosingSteps)
    BY FinishBeginsOne
  <2>2. requests' \in Nat
    <3>1. CASE c \in Roots \ Reused /\ consumer[c] = "finishing"
      <4>1. c \in Live
        BY <3>1 DEF Live
      <4>2. Cardinality(Live) # 0 /\ Cardinality(Live) \in Nat
        BY <4>1, FS_EmptySet, FS_CardinalityType DEF CountInv
      <4>. QED BY <1>6, <3>1, <4>2 DEF Leave, CountInv
    <3>2. CASE ~(c \in Roots \ Reused /\ consumer[c] = "finishing")
      BY <1>6, <3>2 DEF Leave
    <3>. QED BY <3>1, <3>2
  <2>3. closing' \in [Contexts -> Seq(ClosingSteps)]
    BY <1>6, <2>1 DEF Leave, ClosingSteps
  <2>. QED BY <1>6, <2>2, <2>3 DEF Leave, ClosingSteps
<1>. QED BY <1>1, <1>2, <1>3, <1>4, <1>5, <1>6

\* ... of the chat, ...
LEMMA ChatKeepsTypes ==
  ASSUME TypeOK, NEW c \in Contexts
  PROVE  /\ StartChat(c) \/ Report(c) \/ CallReturns(c) \/ Answer(c) \/ Raise(c) \/ Return(c)
              \/ CallFails(c) => TypeOK'
         /\ \A k \in Clones : Call(c, k) => TypeOK'
<1>. USE DEF TypeOK, context, monitoring
<1>1. ASSUME StartChat(c) PROVE TypeOK'
  <2>1. CASE invocation[c] = "event"
    <3>1. /\ queue' \in [Contexts -> QueuesOf({"report", "answer"})]
          /\ lastMessageSent' \in [Contexts -> BOOLEAN]
      BY <1>1, <2>1, FinalizeKeepsTypes DEF StartChat
    <3>2. chat' \in [Contexts -> {"none", "submitted", "running", "calling", "returning", "done"}]
      <4>1. CASE FinalizeFails(c)
        <5>1. chat' = [chat EXCEPT ![c] = "returning"]
          BY <1>1, <2>1, <4>1, Zenon DEF StartChat
        <5>. QED BY <5>1
      <4>2. CASE ~FinalizeFails(c)
        <5>1. chat' = [chat EXCEPT ![c] = "running"]
          BY <1>1, <2>1, <4>2, Zenon DEF StartChat
        <5>. QED BY <5>1
      <4>. QED BY <4>1, <4>2
    <3>. QED BY <1>1, <3>1, <3>2 DEF StartChat
  <2>2. CASE invocation[c] # "event"
    BY <1>1, <2>2 DEF StartChat
  <2>. QED BY <2>1, <2>2
<1>2. ASSUME Report(c) PROVE TypeOK'
  <2>1. Put(queue[c], "report") \in QueuesOf(Reading)
    BY PutAppends DEF Reading
  <2>2. queue' \in [Contexts -> QueuesOf({"report", "answer"})]
    BY <1>2, <2>1 DEF Report, Reading
  <2>3. chat' = [chat EXCEPT ![c] = "returning"] \/ chat' = chat
    BY <1>2, Zenon DEF Report
  <2>. QED BY <1>2, <2>2, <2>3 DEF Report
<1>3. ASSUME CallReturns(c) \/ Raise(c) \/ CallFails(c) PROVE TypeOK'
  BY <1>3 DEF CallReturns, Raise, CallFails
<1>4. ASSUME Return(c) PROVE TypeOK'
  BY <1>4 DEF Return
<1>5. ASSUME Answer(c) PROVE TypeOK'
  <2>1. /\ queue' \in [Contexts -> QueuesOf({"report", "answer"})]
        /\ lastMessageSent' \in [Contexts -> BOOLEAN]
    BY <1>5, FinalizeKeepsTypes DEF Answer
  <2>. QED BY <1>5, <2>1 DEF Answer
<1>6. ASSUME NEW k \in Clones, Call(c, k) PROVE TypeOK'
  <2>1. k \in Contexts /\ requestFinished[c] \in BOOLEAN
    BY DEF Contexts
  <2>2. requestFinished' \in [Contexts -> BOOLEAN]
    BY <1>6, <2>1 DEF Call
  <2>3. chat' \in [Contexts -> {"none", "submitted", "running", "calling", "returning", "done"}]
    BY <1>6, <2>1 DEF Call
  <2>4. invocation' \in [Contexts -> {"chatbot", "event"}]
    BY <1>6, <2>1 DEF Call
  <2>. QED BY <1>6, <2>1, <2>2, <2>3, <2>4 DEF Call
<1>. QED BY <1>1, <1>2, <1>3, <1>4, <1>5, <1>6

\* ... of what closes a context, ...
LEMMA CloseKeepsTypes ==
  ASSUME TypeOK, NEW c \in Contexts
  PROVE  /\ CloseOfRequest(c) \/ PutWork(c) \/ CloseOfWork(c) \/ CloseOfWorkFails(c) => TypeOK'
         /\ c \in Roots /\ ReturnExecutor(c) => TypeOK'
<1>. USE DEF TypeOK, context, monitoring
<1>1. ASSUME NEW step, Runs(c, step) PROVE closing' \in [Contexts -> Seq(ClosingSteps)]
  <2>1. closing[c] # <<>> /\ closing[c] \in Seq(ClosingSteps)
    BY <1>1 DEF Runs, ClosingSteps
  <2>2. Tail(closing[c]) \in Seq(ClosingSteps)
    BY <2>1, HeadTailProperties
  <2>. QED BY <1>1, <2>2 DEF Runs, ClosingSteps
<1>2. ASSUME CloseOfRequest(c) PROVE TypeOK'
  <2>1. CloseQueue(queue[c]) \in QueuesOf(Reading)
    BY CloseDrains DEF Reading
  <2>2. queue' \in [Contexts -> QueuesOf({"report", "answer"})]
    BY <1>2, <2>1 DEF CloseOfRequest, Reading
  <2>3. closing' \in [Contexts -> Seq(ClosingSteps)]
    BY <1>1, <1>2 DEF CloseOfRequest
  <2>. QED BY <1>2, <2>2, <2>3 DEF CloseOfRequest, ClosingSteps
<1>3. ASSUME PutWork(c) PROVE TypeOK'
  <2>1. Put(workQueue, c) \in QueuesOf(Contexts)
    BY PutAppends
  <2>2. closing' \in [Contexts -> Seq(ClosingSteps)]
    BY <1>1, <1>3 DEF PutWork
  <2>. QED BY <1>3, <2>1, <2>2 DEF PutWork, ClosingSteps
<1>4. ASSUME CloseOfWork(c) PROVE TypeOK'
  <2>1. closing' \in [Contexts -> Seq(ClosingSteps)]
    BY <1>1, <1>4 DEF CloseOfWork
  <2>2. closes' \in [Contexts -> Nat]
    BY <1>4 DEF CloseOfWork
  <2>. QED BY <1>4, <2>1, <2>2 DEF CloseOfWork, ClosingSteps
<1>5. ASSUME CloseOfWorkFails(c) PROVE TypeOK'
  <2>1. closing' \in [Contexts -> Seq(ClosingSteps)]
    BY <1>5, StepsOfHandingOver DEF CloseOfWorkFails, ClosingSteps
  <2>2. closes' \in [Contexts -> Nat]
    BY <1>5 DEF CloseOfWorkFails
  <2>3. monitor' = "dead" \/ monitor' = monitor
    BY <1>5, Zenon DEF CloseOfWorkFails
  <2>. QED BY <1>5, <2>1, <2>2, <2>3 DEF CloseOfWorkFails, ClosingSteps
<1>6. ASSUME c \in Roots, ReturnExecutor(c) PROVE TypeOK'
  <2>1. closing' \in [Contexts -> Seq(ClosingSteps)]
    BY <1>1, <1>6 DEF ReturnExecutor
  <2>. QED BY <1>6, <2>1 DEF ReturnExecutor, ClosingSteps
<1>. QED BY <1>2, <1>3, <1>4, <1>5, <1>6

\* ... and of the monitor.
LEMMA MonitorKeepsTypes ==
  ASSUME TypeOK, MonitorInv, NEW c \in Contexts
  PROVE  MonitorTakes \/ MonitorCloses(c) \/ MonitorForgets(c) => TypeOK'
<1>. USE DEF TypeOK, context, monitoring
<1>1. ASSUME MonitorTakes PROVE TypeOK'
  <2>1. WithoutNext(workQueue) \in QueuesOf(Contexts)
    BY <1>1, GetTakesFirst DEF MonitorTakes
  <2>2. NextItem(workQueue) \in Contexts
    BY <1>1 DEF MonitorTakes, MonitorInv, NextItem, HasItem
  <2>. QED BY <1>1, <2>1, <2>2 DEF MonitorTakes
<1>2. ASSUME MonitorCloses(c) PROVE TypeOK'
  <2>1. DoneWithWork(c) \in Seq(ClosingSteps)
    BY StepsOfClosing
  <2>. QED BY <1>2, <2>1 DEF MonitorCloses, ClosingSteps
<1>3. ASSUME MonitorForgets(c) PROVE TypeOK'
  BY <1>3 DEF MonitorForgets
<1>. QED BY <1>1, <1>2, <1>3

\* The types are kept by every step.
LEMMA TypeStep == TypeOK /\ MonitorInv /\ CountInv /\ [Next]_vars => TypeOK'
<1>. SUFFICES ASSUME TypeOK, MonitorInv, CountInv, [Next]_vars PROVE TypeOK'
  OBVIOUS
<1>. Roots \subseteq Contexts /\ \A k \in Clones : MotherOf[k] \in Contexts
  BY LifecycleAssumption DEF LifecycleAssumption, Contexts
<1>1. ASSUME NEW r \in Roots, Open(r) \/ Again(r) \/ Disconnect(r) \/ ReturnExecutor(r)
      PROVE  TypeOK'
  BY <1>1, ClientKeepsTypes, CloseKeepsTypes
<1>2. ASSUME NEW c \in Contexts, Progress(c) \/ Report(c) \/ Raise(c) \/ CallFails(c)
      PROVE  TypeOK'
  BY <1>2, ClientKeepsTypes, ChatKeepsTypes, CloseKeepsTypes, MonitorKeepsTypes DEF Progress
<1>3. ASSUME NEW k \in Clones, Call(MotherOf[k], k) PROVE TypeOK'
  BY <1>3, ChatKeepsTypes
<1>4. CASE MonitorTakes
  <2>1. \A c \in Contexts : TypeOK'
    BY <1>4, MonitorKeepsTypes
  <2>2. Contexts # {}
    BY <1>4 DEF MonitorTakes, MonitorInv, HasItem
  <2>. QED BY <2>1, <2>2
<1>5. CASE UNCHANGED vars
  BY <1>5 DEF vars, context, monitoring, TypeOK
<1>. QED BY <1>1, <1>2, <1>3, <1>4, <1>5 DEF Next
-----------------------------------------------------------------------------
\* What no step of another context changes.
SamePlace(c) ==
  /\ closing'[c] = closing[c] /\ closes'[c] = closes[c] /\ (Waits(c)' <=> Waits(c))
  /\ (c \in pool' <=> c \in pool) /\ (c \in monitored' <=> c \in monitored)

SameRequest(c) ==
  /\ invocation'[c] = invocation[c] /\ requestFinished'[c] = requestFinished[c]
  /\ hasQueue'[c] = hasQueue[c] /\ (workDone[c] => workDone'[c])
  /\ consumer'[c] = consumer[c] /\ exchanges'[c] = exchanges[c]

SameStream(c) ==
  queue'[c] = queue[c] /\ answered'[c] = answered[c] /\ chat'[c] = chat[c]

Untouched(c) == SamePlace(c) /\ SameRequest(c) /\ SameStream(c)

ContextInv(c) == StageInv(c) /\ WorkInv(c) /\ NewInv(c) /\ FirstInv(c)
StreamInv(c) == EndInv(c) /\ DrainedInv(c) /\ AnsweredInv(c)

\* A context in its place is at its stage.
LEMMA SamePlaceIsSameStage ==
  ASSUME NEW c \in Contexts, SamePlace(c), invocation'[c] = invocation[c]
  PROVE  /\ Unclosed(c)' <=> Unclosed(c)
         /\ ClosesItself(c)' <=> ClosesItself(c)
         /\ Finished(c)' <=> Finished(c)
         /\ QueueToClose(c)' <=> QueueToClose(c)
         /\ MonitorClosing(c)' <=> MonitorClosing(c)
<1>. USE DEF SamePlace
<1>1. Unclosed(c)' <=> Unclosed(c)
  BY DEF Unclosed
<1>2. ClosesItself(c)' <=> ClosesItself(c)
  BY DEF ClosesItself, CloseAtOnce, DoneWithWork
<1>3. HandsOver(c)' <=> HandsOver(c)
  BY DEF HandsOver, HandOver
<1>4. (HandedOver(c)' <=> HandedOver(c)) /\ (InPool(c)' <=> InPool(c))
  BY DEF HandedOver, InPool
<1>5. MonitorClosing(c)' <=> MonitorClosing(c)
  BY DEF MonitorClosing, DoneWithWork
<1>6. Closed(c)' <=> Closed(c)
  BY DEF Closed
<1>7. QueueToClose(c)' <=> QueueToClose(c)
  BY DEF QueueToClose, CloseAtOnce, DoneWithWork, HandOver
<1>. QED BY <1>1, <1>2, <1>3, <1>4, <1>5, <1>6, <1>7, Zenon DEF Finished

\* What is said of a context holds while nothing touches it.
LEMMA UntouchedKeepsInv ==
  ASSUME NEW c \in Contexts, ContextInv(c), StreamInv(c), Untouched(c)
  PROVE  ContextInv(c)' /\ StreamInv(c)'
<1>1. /\ Unclosed(c)' <=> Unclosed(c)
      /\ Finished(c)' <=> Finished(c)
      /\ QueueToClose(c)' <=> QueueToClose(c)
      /\ MonitorClosing(c)' <=> MonitorClosing(c)
  BY SamePlaceIsSameStage DEF Untouched, SameRequest
<1>. USE <1>1 DEF Untouched, SamePlace, SameRequest, SameStream
<1>2. StageInv(c)'
  BY DEF ContextInv, StageInv
<1>3. WorkInv(c)'
  BY DEF ContextInv, WorkInv
<1>4. NewInv(c)'
  BY DEF ContextInv, NewInv
<1>5. FirstInv(c)'
  BY DEF ContextInv, FirstInv
<1>6. EndInv(c)'
  BY DEF StreamInv, EndInv, Clean
<1>7. DrainedInv(c)' /\ AnsweredInv(c)'
  BY DEF StreamInv, DrainedInv, AnsweredInv, Clean
<1>. QED BY <1>2, <1>3, <1>4, <1>5, <1>6, <1>7 DEF ContextInv, StreamInv

\* A context whose close has not begun is at no other stage.
LEMMA UnclosedIsNotFinished ==
  ASSUME NEW c \in Contexts, Unclosed(c)
  PROVE  ~Finished(c) /\ ~QueueToClose(c) /\ ~MonitorClosing(c)
<1>1. /\ CloseAtOnce(c) # <<>> /\ DoneWithWork(c) # <<>> /\ HandOver # <<>>
      /\ <<"put_work">> # <<>>
  BY StepsOfClosing, StepsOfHandingOver
<1>. QED BY <1>1 DEF Unclosed, Finished, QueueToClose, ClosesItself, HandsOver, HandedOver,
                     InPool, MonitorClosing, Closed

\* put_work() appends the context to the queue of event work.
LEMMA PutWorkIsLast ==
  ASSUME TypeOK, MonitorInv, NEW c \in Contexts, PutWork(c)
  PROVE  /\ workQueue'.items \in Seq(Contexts) /\ ~workQueue'.lastItemSent
         /\ Len(workQueue.items) \in Nat
         /\ Len(workQueue'.items) = Len(workQueue.items) + 1
         /\ \A i \in 1..Len(workQueue'.items) :
              workQueue'.items[i] = IF i <= Len(workQueue.items) THEN workQueue.items[i] ELSE c
<1>1. workQueue \in QueuesOf(Contexts) /\ workQueue.items \in Seq(Contexts)
  BY DEF TypeOK, MonitorInv
<1>2. workQueue'.items = Append(workQueue.items, c) /\ ~workQueue'.lastItemSent
  <2>1. workQueue' = Put(workQueue, c) /\ Accepts(workQueue)
    BY DEF PutWork, MonitorInv, Accepts
  <2>2. /\ Put(workQueue, c).items = Append(workQueue.items, c)
        /\ Put(workQueue, c).lastItemSent = workQueue.lastItemSent
    BY <1>1, <2>1, PutAppends
  <2>. QED BY <2>1, <2>2 DEF MonitorInv
<1>. DEFINE items == workQueue.items
<1>3. /\ Append(items, c) \in Seq(Contexts) /\ Len(items) \in Nat
      /\ Len(Append(items, c)) = Len(items) + 1
      /\ \A i \in 1..Len(items) : Append(items, c)[i] = items[i]
      /\ Append(items, c)[Len(items) + 1] = c
  BY <1>1, AppendProperties
<1>. HIDE DEF items
<1>4. ASSUME NEW i \in 1..Len(Append(items, c))
      PROVE  Append(items, c)[i] = IF i <= Len(items) THEN items[i] ELSE c
  BY <1>3
<1>. QED BY <1>2, <1>3, <1>4 DEF items

\* The monitor takes the first of it.
LEMMA MonitorTakesFirst ==
  ASSUME TypeOK, MonitorInv, MonitorTakes
  PROVE  /\ workQueue'.items \in Seq(Contexts) /\ ~workQueue'.lastItemSent
         /\ NextItem(workQueue) \in Contexts /\ NextItem(workQueue) = workQueue.items[1]
         /\ Len(workQueue.items) \in Nat /\ Len(workQueue.items) >= 1
         /\ Len(workQueue'.items) = Len(workQueue.items) - 1
         /\ \A i \in 1..Len(workQueue'.items) : workQueue'.items[i] = workQueue.items[i + 1]
<1>1. /\ workQueue \in QueuesOf(Contexts) /\ workQueue.items \in Seq(Contexts)
      /\ workQueue.items # <<>> /\ workQueue' = WithoutNext(workQueue)
  BY DEF TypeOK, MonitorInv, MonitorTakes, HasItem
<1>2. /\ workQueue'.lastItemSent = workQueue.lastItemSent
      /\ NextItem(workQueue) = workQueue.items[1]
      /\ Len(workQueue.items) >= 1 /\ Len(workQueue'.items) = Len(workQueue.items) - 1
      /\ \A i \in 1..Len(workQueue'.items) : workQueue'.items[i] = workQueue.items[i + 1]
  BY <1>1, GetTakesFirst DEF HasItem
<1>3. workQueue'.items = Tail(workQueue.items)
  BY <1>1 DEF WithoutNext, QueuesOf
<1>4. Tail(workQueue.items) \in Seq(Contexts) /\ workQueue.items[1] \in Contexts
  BY <1>1, HeadTailProperties
<1>5. Len(workQueue.items) \in Nat
  BY <1>1
<1>. QED BY <1>2, <1>3, <1>4, <1>5 DEF MonitorInv

\* Everything that a step of one context changes is its own.
LEMMA OthersUntouched ==
  ASSUME TypeOK, MonitorInv, NEW c \in Contexts, NEW d \in Contexts, d # c
  PROVE  /\ Progress(c) \/ Report(c) \/ Raise(c) \/ CallFails(c) => Untouched(d)
         /\ c \in Roots /\ (Open(c) \/ Again(c) \/ Disconnect(c) \/ ReturnExecutor(c))
              => Untouched(d)
<1>. USE DEF TypeOK, context, monitoring, Untouched, SamePlace, SameRequest, SameStream
<1>1. ASSUME UNCHANGED workQueue PROVE Waits(d)' <=> Waits(d)
  BY <1>1 DEF Waits
<1>2. ASSUME Read(c) \/ FinishRequest(c) \/ Leave(c) PROVE Untouched(d)
  BY <1>1, <1>2 DEF Read, FinishRequest, Leave
<1>3. ASSUME StartChat(c) \/ CallReturns(c) \/ Answer(c) PROVE Untouched(d)
  BY <1>1, <1>3 DEF StartChat, CallReturns, Answer, Finalize
<1>4. ASSUME Return(c) \/ Raise(c) \/ CallFails(c) PROVE Untouched(d)
  BY <1>1, <1>4 DEF Return, Raise, CallFails
<1>5. ASSUME Report(c) PROVE Untouched(d)
  BY <1>1, <1>5 DEF Report
<1>6. ASSUME CloseOfRequest(c) \/ CloseOfWork(c) \/ CloseOfWorkFails(c) PROVE Untouched(d)
  BY <1>1, <1>6 DEF CloseOfRequest, CloseOfWork, CloseOfWorkFails, Runs
<1>7. ASSUME PutWork(c) PROVE Untouched(d)
  <2>1. Waits(d)' <=> Waits(d)
    <3>. DEFINE n == Len(workQueue.items)
    <3>1. /\ n \in Nat /\ Len(workQueue'.items) = n + 1
          /\ \A i \in 1..n + 1 :
               workQueue'.items[i] = IF i <= n THEN workQueue.items[i] ELSE c
      BY <1>7, PutWorkIsLast
    <3>. HIDE DEF n
    <3>2. ASSUME NEW i \in 1..n, workQueue.items[i] = d
          PROVE  i \in 1..n + 1 /\ workQueue'.items[i] = d
      BY <3>1, <3>2
    <3>3. ASSUME NEW i \in 1..n + 1, workQueue'.items[i] = d
          PROVE  i \in 1..n /\ workQueue.items[i] = d
      BY <3>1, <3>3
    <3>4. (\E i \in 1..n : workQueue.items[i] = d) <=> (\E i \in 1..n + 1 : workQueue'.items[i] = d)
      BY <3>2, <3>3, Zenon
    <3>. QED BY <3>1, <3>4 DEF Waits, n
  <2>. QED BY <1>7, <2>1 DEF PutWork, Runs
<1>8. ASSUME MonitorCloses(c) PROVE Untouched(d)
  BY <1>1, <1>8 DEF MonitorCloses
<1>9. ASSUME MonitorForgets(c) PROVE Untouched(d)
  BY <1>1, <1>9 DEF MonitorForgets
<1>10. ASSUME c \in Roots, Open(c) \/ Again(c) PROVE Untouched(d)
  BY <1>1, <1>10 DEF Open, Again, BeginExchange
<1>11. ASSUME c \in Roots, Disconnect(c) \/ ReturnExecutor(c) PROVE Untouched(d)
  BY <1>1, <1>11 DEF Disconnect, ReturnExecutor, Runs
<1>. QED BY <1>2, <1>3, <1>4, <1>5, <1>6, <1>7, <1>8, <1>9, <1>10, <1>11 DEF Progress

\* ... but for a call, which is of the caller and the clone.
LEMMA OthersUntouchedByCall ==
  ASSUME TypeOK, NEW c \in Contexts, NEW k \in Contexts, Call(c, k),
         NEW d \in Contexts, d # c, d # k
  PROVE  Untouched(d)
<1>1. Waits(d)' <=> Waits(d)
  BY DEF Call, Waits, monitoring
<1>. QED BY <1>1 DEF Call, TypeOK, context, monitoring, Untouched, SamePlace, SameRequest,
                     SameStream

\* The monitor takes what waits once.
LEMMA OthersUntouchedByMonitor ==
  ASSUME TypeOK, MonitorInv, MonitorTakes, NEW e, e = NextItem(workQueue)
  PROVE  /\ Waits(e) /\ ~Waits(e)'
         /\ \A d \in Contexts : d # e => Untouched(d)
<1>. DEFINE n == Len(workQueue.items)
<1>1. /\ n \in Nat /\ n >= 1 /\ Len(workQueue'.items) = n - 1
      /\ \A i \in 1..n - 1 : workQueue'.items[i] = workQueue.items[i + 1]
      /\ workQueue.items[1] = e
      /\ \A i, j \in 1..n : workQueue.items[i] = workQueue.items[j] => i = j
  BY MonitorTakesFirst DEF MonitorInv
<1>. HIDE DEF n
<1>2. 1 \in 1..n
  BY <1>1
<1>3. Waits(e)
  BY <1>1, <1>2 DEF Waits, n
<1>4. ASSUME NEW i \in 1..n - 1 PROVE i + 1 \in 1..n /\ i + 1 # 1
  BY <1>1
<1>5. ASSUME NEW i \in 1..n - 1 PROVE workQueue'.items[i] # e
  BY <1>1, <1>2, <1>4, <1>5, Zenon
<1>7. ~Waits(e)'
  BY <1>1, <1>5 DEF Waits
<1>8. ASSUME NEW d \in Contexts, d # e PROVE Untouched(d)
  <2>1. ASSUME NEW i \in 1..n, workQueue.items[i] = d
        PROVE  i - 1 \in 1..n - 1 /\ workQueue'.items[i - 1] = d
    <3>1. i # 1
      BY <1>1, <1>8, <2>1
    <3>2. i - 1 \in 1..n - 1 /\ i - 1 + 1 = i
      BY <1>1, <3>1
    <3>. QED BY <1>1, <2>1, <3>2
  <2>2. ASSUME NEW i \in 1..n - 1, workQueue'.items[i] = d
        PROVE  i + 1 \in 1..n /\ workQueue.items[i + 1] = d
    BY <1>1, <1>4, <2>2
  <2>3. (\E i \in 1..n : workQueue.items[i] = d) <=> (\E i \in 1..n - 1 : workQueue'.items[i] = d)
    BY <2>1, <2>2
  <2>4. Waits(d)' <=> Waits(d)
    BY <1>1, <2>3 DEF Waits, n
  <2>. QED BY <1>8, <2>4 DEF MonitorTakes, TypeOK, context, Untouched, SamePlace, SameRequest,
                             SameStream
<1>. QED BY <1>3, <1>7, <1>8
-----------------------------------------------------------------------------
\* What the chat and the reader leave alone of a context in use.
Quiet(c) ==
  /\ SamePlace(c) /\ exchanges[c] # 0 /\ exchanges'[c] = exchanges[c]
  /\ invocation'[c] = invocation[c] /\ requestFinished'[c] = requestFinished[c]
  /\ hasQueue'[c] = hasQueue[c] /\ (workDone[c] => workDone'[c])
  /\ \/ consumer'[c] = consumer[c]
     \/ consumer[c] = "reading" /\ consumer'[c] \in {"ended", "interrupted"}

\* Nothing of the context's close changes then.
LEMMA QuietKeepsContext ==
  ASSUME NEW c \in Contexts, ContextInv(c), Quiet(c)
  PROVE  ContextInv(c)'
<1>1. /\ Unclosed(c)' <=> Unclosed(c)
      /\ Finished(c)' <=> Finished(c)
      /\ QueueToClose(c)' <=> QueueToClose(c)
      /\ MonitorClosing(c)' <=> MonitorClosing(c)
  BY SamePlaceIsSameStage DEF Quiet
<1>. USE <1>1 DEF Quiet, SamePlace
<1>2. StageInv(c)'
  BY DEF ContextInv, StageInv
<1>3. WorkInv(c)'
  BY DEF ContextInv, WorkInv
<1>4. NewInv(c)'
  BY DEF ContextInv, NewInv
<1>5. FirstInv(c)'
  BY DEF ContextInv, FirstInv
<1>. QED BY <1>2, <1>3, <1>4, <1>5 DEF ContextInv

\* The steps that leave it alone: none of them is of a new context.
LEMMA QuietSteps ==
  ASSUME TypeOK, NEW c \in Contexts, ContextInv(c),
         \/ Read(c) \/ StartChat(c) \/ CallReturns(c) \/ Answer(c) \/ Return(c) \/ Report(c)
         \/ Raise(c) \/ CallFails(c) \/ Disconnect(c)
  PROVE  Quiet(c)
<1>. USE DEF TypeOK, context, monitoring, Quiet, SamePlace, ContextInv, NewInv
<1>1. ASSUME UNCHANGED workQueue PROVE Waits(c)' <=> Waits(c)
  BY <1>1 DEF Waits
<1>2. ASSUME Read(c) \/ Disconnect(c) PROVE Quiet(c)
  BY <1>1, <1>2 DEF Read, Disconnect
<1>3. ASSUME StartChat(c) \/ CallReturns(c) \/ Answer(c) PROVE Quiet(c)
  BY <1>1, <1>3 DEF StartChat, CallReturns, Answer
<1>4. ASSUME Return(c) \/ Raise(c) \/ CallFails(c) PROVE Quiet(c)
  BY <1>1, <1>4 DEF Return, Raise, CallFails
<1>5. ASSUME Report(c) PROVE Quiet(c)
  BY <1>1, <1>5 DEF Report
<1>. QED BY <1>2, <1>3, <1>4, <1>5
-----------------------------------------------------------------------------
\* The next closing step tells the stage.
LEMMA StageOfStep ==
  ASSUME NEW c \in Contexts, ContextInv(c), closing[c] # <<>>
  PROVE  /\ Finished(c) /\ requestFinished[c]
         /\ Head(closing[c]) = "close_of_request" =>
              \/ ClosesItself(c) /\ closing[c] = CloseAtOnce(c)
              \/ HandsOver(c) /\ closing[c] = HandOver
         /\ Head(closing[c]) = "put_work" => HandsOver(c) /\ closing[c] = <<"put_work">>
         /\ Head(closing[c]) = "close_of_work" =>
              closing[c] = DoneWithWork(c) /\ (ClosesItself(c) \/ MonitorClosing(c))
         /\ Head(closing[c]) = "return_executor" =>
              Closed(c) /\ closing[c] = <<"return_executor">>
<1>1. Finished(c) /\ requestFinished[c]
  BY DEF ContextInv, StageInv, Unclosed
<1>2. \/ ClosesItself(c) /\ closing[c] = CloseAtOnce(c)
      \/ ClosesItself(c) /\ closing[c] = DoneWithWork(c)
      \/ HandsOver(c) /\ closing[c] = HandOver
      \/ HandsOver(c) /\ closing[c] = <<"put_work">>
      \/ MonitorClosing(c) /\ closing[c] = DoneWithWork(c)
      \/ Closed(c) /\ closing[c] = <<"return_executor">>
  BY <1>1 DEF Finished, ClosesItself, HandsOver, HandedOver, InPool, MonitorClosing, Closed
<1>3. /\ Head(CloseAtOnce(c)) = "close_of_request" /\ Head(DoneWithWork(c)) = "close_of_work"
      /\ Head(HandOver) = "close_of_request" /\ Head(<<"put_work">>) = "put_work"
      /\ Head(<<"return_executor">>) = "return_executor"
  BY StepsOfClosing, StepsOfHandingOver
<1>. HIDE DEF HandOver
<1>. QED BY <1>1, <1>2, <1>3

\* Which sequences of steps still close the queue.
LEMMA StepsThatCloseQueue ==
  ASSUME NEW c \in Contexts
  PROVE  \A s \in {DoneWithWork(c), <<"put_work">>, <<"return_executor">>, <<>>} :
           s \notin {CloseAtOnce(c), HandOver}
<1>1. /\ Head(CloseAtOnce(c)) = "close_of_request" /\ CloseAtOnce(c) # <<>>
      /\ Head(HandOver) = "close_of_request" /\ HandOver # <<>>
      /\ Head(DoneWithWork(c)) = "close_of_work" /\ Head(<<"put_work">>) = "put_work"
      /\ Head(<<"return_executor">>) = "return_executor"
  BY StepsOfClosing, StepsOfHandingOver
<1>. QED BY <1>1

\* A finished context that stays finished.
LEMMA FinishedKeepsContext ==
  ASSUME NEW c \in Contexts, ContextInv(c), Finished(c),
         Finished(c)', requestFinished'[c], exchanges'[c] = exchanges[c],
         consumer'[c] = consumer[c], hasQueue'[c] => hasQueue[c],
         QueueToClose(c)' => QueueToClose(c),
         QueueToClose(c) /\ ~QueueToClose(c)' => ~hasQueue'[c],
         WorkInv(c)'
  PROVE  ContextInv(c)'
<1>1. exchanges[c] # 0
  BY UnclosedIsNotFinished DEF ContextInv, NewInv
<1>2. StageInv(c)' /\ NewInv(c)'
  BY <1>1 DEF ContextInv, StageInv, NewInv
<1>3. FirstInv(c)'
  BY DEF ContextInv, FirstInv
<1>. QED BY <1>2, <1>3 DEF ContextInv

\* close_of_request() goes on to close the work, or to hand it over.
LEMMA CloseOfRequestKeepsContext ==
  ASSUME TypeOK, MonitorInv, NEW c \in Contexts, ContextInv(c), CloseOfRequest(c)
  PROVE  ContextInv(c)'
<1>. USE DEF TypeOK, monitoring
<1>1. closing[c] # <<>> /\ Head(closing[c]) = "close_of_request" /\ closing'[c] = Tail(closing[c])
  BY DEF CloseOfRequest, Runs
<1>2. /\ closes'[c] = closes[c] /\ (Waits(c)' <=> Waits(c)) /\ UNCHANGED <<pool, monitored>>
      /\ invocation'[c] = invocation[c] /\ requestFinished'[c] = requestFinished[c]
      /\ consumer'[c] = consumer[c] /\ exchanges'[c] = exchanges[c] /\ ~hasQueue'[c]
      /\ workDone' = workDone
  BY DEF CloseOfRequest, Waits
<1>3. /\ CloseAtOnce(c) # <<>> /\ Tail(CloseAtOnce(c)) = DoneWithWork(c)
      /\ Tail(HandOver) = <<"put_work">>
  BY StepsOfClosing, StepsOfHandingOver
<1>4. Finished(c) /\ requestFinished[c] /\ QueueToClose(c)
  BY <1>1, StageOfStep DEF QueueToClose
<1>5. CASE ClosesItself(c) /\ closing[c] = CloseAtOnce(c)
  <2>1. closing'[c] = DoneWithWork(c)
    BY <1>1, <1>3, <1>5
  <2>2. ClosesItself(c)'
    BY <1>2, <1>5, <2>1 DEF ClosesItself, DoneWithWork
  <2>3. WorkInv(c)'
    BY <1>2, <2>2 DEF WorkInv, ClosesItself, MonitorClosing, MonitorInv
  <2>. QED BY <1>2, <1>4, <2>2, <2>3, FinishedKeepsContext DEF Finished
<1>6. CASE HandsOver(c) /\ closing[c] = HandOver
  <2>1. closing'[c] = <<"put_work">>
    BY <1>1, <1>3, <1>6
  <2>2. HandsOver(c)'
    BY <1>2, <1>6, <2>1 DEF HandsOver
  <2>3. closing'[c] # DoneWithWork(c)
    BY <2>1, StepsOfClosing, StepsOfHandingOver
  <2>4. ~MonitorClosing(c)' /\ closes'[c] # 1
    BY <1>2, <1>6, <2>3 DEF HandsOver, MonitorClosing, DoneWithWork
  <2>5. WorkInv(c)'
    BY <2>4 DEF WorkInv
  <2>. QED BY <1>2, <1>4, <2>2, <2>5, FinishedKeepsContext DEF Finished
<1>. QED BY <1>1, <1>5, <1>6, StageOfStep

\* put_work() hands it over.
LEMMA PutWorkKeepsContext ==
  ASSUME TypeOK, MonitorInv, NEW c \in Contexts, ContextInv(c), PutWork(c)
  PROVE  ContextInv(c)' /\ ~Waits(c)
<1>. USE DEF TypeOK, context, monitoring
<1>1. closing[c] # <<>> /\ Head(closing[c]) = "put_work" /\ closing'[c] = Tail(closing[c])
  BY DEF PutWork, Runs
<1>2. /\ closes'[c] = closes[c] /\ UNCHANGED <<pool, monitored>>
      /\ invocation'[c] = invocation[c] /\ requestFinished'[c] = requestFinished[c]
      /\ consumer'[c] = consumer[c] /\ exchanges'[c] = exchanges[c]
      /\ hasQueue'[c] = hasQueue[c] /\ workDone' = workDone
  BY DEF PutWork
<1>3. HandsOver(c) /\ closing[c] = <<"put_work">> /\ Finished(c) /\ requestFinished[c]
  BY <1>1, StageOfStep
<1>4. closing'[c] = <<>>
  BY <1>1, <1>3, StepsOfHandingOver
<1>5. Waits(c)'
  <2>. DEFINE n == Len(workQueue.items)
  <2>1. n \in Nat /\ Len(workQueue'.items) = n + 1 /\ workQueue'.items[n + 1] = c
    <3>1. /\ n \in Nat /\ Len(workQueue'.items) = n + 1
          /\ \A i \in 1..n + 1 :
               workQueue'.items[i] = IF i <= n THEN workQueue.items[i] ELSE c
      BY PutWorkIsLast
    <3>. HIDE DEF n
    <3>2. n + 1 \in 1..n + 1 /\ ~(n + 1 <= n)
      BY <3>1
    <3>. QED BY <3>1, <3>2
  <2>. HIDE DEF n
  <2>2. n + 1 \in 1..Len(workQueue'.items)
    BY <2>1
  <2>. QED BY <2>1, <2>2 DEF Waits
<1>6. HandedOver(c)'
  BY <1>2, <1>3, <1>4, <1>5 DEF HandedOver, HandsOver
<1>7. WorkInv(c)'
  BY <1>2, <1>5, <1>6 DEF WorkInv, HandedOver, MonitorClosing
<1>8. ~QueueToClose(c)'
  <2>1. <<>> \notin {CloseAtOnce(c), HandOver}
    BY StepsThatCloseQueue
  <2>. QED BY <1>4, <2>1 DEF QueueToClose, CloseAtOnce, DoneWithWork
<1>9. ~QueueToClose(c)
  BY <1>3, StepsThatCloseQueue DEF QueueToClose
<1>. QED BY <1>2, <1>3, <1>6, <1>7, <1>8, <1>9, FinishedKeepsContext DEF Finished, HandsOver

\* close_of_work() closes it, whether it raises or not: the work of an event is
\* closed by the monitor alone, which waited for it.
LEMMA CloseOfWorkKeepsContext ==
  ASSUME TypeOK, MonitorInv, NEW c \in Contexts, ContextInv(c),
         CloseOfWork(c) \/ CloseOfWorkFails(c)
  PROVE  ContextInv(c)' /\ closes[c] = 0 /\ closes'[c] = 1
<1>. USE DEF TypeOK, context, monitoring
<1>1. /\ closing[c] # <<>> /\ Head(closing[c]) = "close_of_work"
      /\ closing'[c] \in {Tail(closing[c]), <<>>}
  <2>1. CASE CloseOfWork(c)
    BY <2>1 DEF CloseOfWork, Runs
  <2>2. CASE CloseOfWorkFails(c)
    BY <2>2 DEF CloseOfWorkFails
  <2>. QED BY <2>1, <2>2
<1>2. /\ closes'[c] = closes[c] + 1 /\ UNCHANGED <<workQueue, pool, monitored>>
      /\ invocation'[c] = invocation[c] /\ requestFinished'[c] = requestFinished[c]
      /\ consumer'[c] = consumer[c] /\ exchanges'[c] = exchanges[c]
      /\ hasQueue'[c] = hasQueue[c] /\ workDone' = workDone
  <2>1. CASE CloseOfWork(c)
    BY <2>1 DEF CloseOfWork
  <2>2. CASE CloseOfWorkFails(c)
    BY <2>2 DEF CloseOfWorkFails
  <2>. QED BY <2>1, <2>2
<1>3. /\ closing[c] = DoneWithWork(c) /\ (ClosesItself(c) \/ MonitorClosing(c))
      /\ Finished(c) /\ requestFinished[c]
  BY <1>1, StageOfStep
<1>4. closing'[c] \in {<<"return_executor">>, <<>>}
  BY <1>1, <1>3, StepsOfClosing
<1>5. /\ Waits(c)' <=> Waits(c)
      /\ closes[c] = 0 /\ closes'[c] = 1 /\ ~Waits(c) /\ (c \in pool => c \in monitored)
  BY <1>2, <1>3 DEF Waits, ClosesItself, MonitorClosing
<1>6. Closed(c)'
  BY <1>2, <1>4, <1>5 DEF Closed
<1>7. WorkInv(c)'
  <2>1. ~MonitorClosing(c)'
    BY <1>5 DEF MonitorClosing
  <2>2. invocation[c] = "event" /\ HasMonitor => workDone[c]
    BY <1>3 DEF ContextInv, WorkInv, ClosesItself
  <2>. QED BY <1>2, <2>1, <2>2 DEF WorkInv
<1>8. ~QueueToClose(c)'
  <2>1. closing'[c] \notin {CloseAtOnce(c), HandOver}
    BY <1>4, StepsThatCloseQueue
  <2>. QED BY <2>1 DEF QueueToClose, CloseAtOnce, DoneWithWork
<1>9. ~QueueToClose(c)
  BY <1>3, StepsThatCloseQueue DEF QueueToClose
<1>. QED BY <1>2, <1>3, <1>5, <1>6, <1>7, <1>8, <1>9, FinishedKeepsContext DEF Finished

\* The executor of a closed context is given back.
LEMMA ReturnExecutorKeepsContext ==
  ASSUME TypeOK, MonitorInv, NEW c \in Contexts, ContextInv(c), ReturnExecutor(c)
  PROVE  ContextInv(c)' /\ closes'[c] = 1
<1>. USE DEF TypeOK, context, monitoring
<1>1. closing[c] # <<>> /\ Head(closing[c]) = "return_executor" /\ closing'[c] = Tail(closing[c])
  BY DEF ReturnExecutor, Runs
<1>2. /\ closes'[c] = closes[c] /\ UNCHANGED <<workQueue, pool, monitored>>
      /\ invocation'[c] = invocation[c] /\ requestFinished'[c] = requestFinished[c]
      /\ consumer'[c] = consumer[c] /\ exchanges'[c] = exchanges[c]
      /\ hasQueue'[c] = hasQueue[c] /\ workDone' = workDone
  BY DEF ReturnExecutor
<1>3. /\ Closed(c) /\ closing[c] = <<"return_executor">> /\ Finished(c) /\ requestFinished[c]
  BY <1>1, StageOfStep
<1>4. closing'[c] = <<>>
  BY <1>1, <1>3, StepsOfHandingOver
<1>5. (Waits(c)' <=> Waits(c)) /\ closes'[c] = 1
  BY <1>2, <1>3 DEF Waits, Closed
<1>6. Closed(c)'
  BY <1>2, <1>3, <1>4, <1>5 DEF Closed
<1>7. WorkInv(c)'
  <2>1. ~MonitorClosing(c)'
    BY <1>5 DEF MonitorClosing
  <2>2. invocation[c] = "event" /\ HasMonitor => workDone[c]
    BY <1>3 DEF ContextInv, WorkInv, Closed
  <2>. QED BY <1>2, <2>1, <2>2 DEF WorkInv
<1>8. ~QueueToClose(c)'
  <2>1. <<>> \notin {CloseAtOnce(c), HandOver}
    BY StepsThatCloseQueue
  <2>. QED BY <1>4, <2>1 DEF QueueToClose, CloseAtOnce, DoneWithWork
<1>9. ~QueueToClose(c)
  BY <1>3, StepsThatCloseQueue DEF QueueToClose
<1>. QED BY <1>2, <1>3, <1>5, <1>6, <1>7, <1>8, <1>9, FinishedKeepsContext DEF Finished

\* The monitor takes what was handed over into its pool, ...
LEMMA MonitorTakesKeepsContext ==
  ASSUME TypeOK, MonitorInv, MonitorTakes, NEW c \in Contexts, ContextInv(c),
         c = NextItem(workQueue)
  PROVE  ContextInv(c)'
<1>1. Waits(c) /\ ~Waits(c)'
  BY OthersUntouchedByMonitor
<1>. USE DEF TypeOK, context, monitoring
<1>2. /\ closing' = closing /\ closes' = closes /\ c \in pool' /\ c \notin monitored'
      /\ invocation'[c] = invocation[c] /\ requestFinished'[c] = requestFinished[c]
      /\ consumer'[c] = consumer[c] /\ exchanges'[c] = exchanges[c]
      /\ hasQueue'[c] = hasQueue[c] /\ workDone' = workDone
  BY DEF MonitorTakes
<1>3. HandedOver(c) /\ Finished(c) /\ requestFinished[c]
  BY <1>1 DEF ContextInv, StageInv, Unclosed, Finished, ClosesItself, HandsOver, InPool,
              MonitorClosing, Closed
<1>4. InPool(c)'
  BY <1>1, <1>2, <1>3 DEF HandedOver, InPool
<1>5. WorkInv(c)'
  BY <1>2, <1>4 DEF WorkInv, InPool, MonitorClosing
<1>6. ~QueueToClose(c) /\ ~QueueToClose(c)'
  BY <1>2, <1>3, StepsThatCloseQueue DEF HandedOver, QueueToClose, CloseAtOnce, DoneWithWork
<1>. QED BY <1>2, <1>3, <1>4, <1>5, <1>6, FinishedKeepsContext DEF Finished

\* ... closes it when its work is done, ...
LEMMA MonitorClosesKeepsContext ==
  ASSUME TypeOK, MonitorInv, NEW c \in Contexts, ContextInv(c), MonitorCloses(c)
  PROVE  ContextInv(c)'
<1>. USE DEF TypeOK, context, monitoring
<1>1. /\ closing'[c] = DoneWithWork(c) /\ closes' = closes /\ UNCHANGED <<pool, workQueue>>
      /\ c \in pool /\ c \notin monitored /\ c \in monitored' /\ workDone[c]
      /\ invocation'[c] = invocation[c] /\ requestFinished'[c] = requestFinished[c]
      /\ consumer'[c] = consumer[c] /\ exchanges'[c] = exchanges[c]
      /\ hasQueue'[c] = hasQueue[c] /\ workDone' = workDone
  BY DEF MonitorCloses, IsDone
<1>2. InPool(c) /\ Finished(c) /\ requestFinished[c]
  BY <1>1 DEF ContextInv, StageInv, Unclosed, Finished, ClosesItself, HandsOver, HandedOver,
              MonitorClosing, Closed
<1>3. (Waits(c)' <=> Waits(c)) /\ closes'[c] = 0
  BY <1>1, <1>2 DEF Waits, InPool
<1>4. MonitorClosing(c)'
  BY <1>1, <1>2, <1>3 DEF MonitorClosing, InPool, DoneWithWork
<1>5. WorkInv(c)'
  BY <1>1, <1>3 DEF WorkInv
<1>6. ~QueueToClose(c)
  BY <1>2, StepsThatCloseQueue DEF InPool, QueueToClose
<1>7. ~QueueToClose(c)'
  <2>1. DoneWithWork(c) \notin {CloseAtOnce(c), HandOver}
    BY StepsThatCloseQueue
  <2>. QED BY <1>1, <2>1 DEF QueueToClose, CloseAtOnce, DoneWithWork
<1>. QED BY <1>1, <1>2, <1>4, <1>5, <1>6, <1>7, FinishedKeepsContext DEF Finished

\* ... and drops it when it is closed.
LEMMA MonitorForgetsKeepsContext ==
  ASSUME TypeOK, MonitorInv, NEW c \in Contexts, ContextInv(c), MonitorForgets(c)
  PROVE  ContextInv(c)'
<1>. USE DEF TypeOK, context, monitoring
<1>1. /\ closing' = closing /\ closing[c] = <<>> /\ closes' = closes /\ workQueue' = workQueue
      /\ c \in monitored /\ c \notin pool'
      /\ invocation'[c] = invocation[c] /\ requestFinished'[c] = requestFinished[c]
      /\ consumer'[c] = consumer[c] /\ exchanges'[c] = exchanges[c]
      /\ hasQueue'[c] = hasQueue[c] /\ workDone' = workDone
  BY DEF MonitorForgets
<1>2. c \in pool /\ DoneWithWork(c) # <<>>
  BY <1>1, StepsOfClosing DEF MonitorInv
<1>3. Closed(c) /\ Finished(c) /\ requestFinished[c]
  BY <1>1, <1>2 DEF ContextInv, StageInv, Unclosed, Finished, ClosesItself, HandsOver,
                    HandedOver, InPool, MonitorClosing
<1>4. (Waits(c)' <=> Waits(c)) /\ closes'[c] = 1
  BY <1>1, <1>3 DEF Waits, Closed
<1>5. Closed(c)'
  BY <1>1, <1>3, <1>4 DEF Closed
<1>6. WorkInv(c)'
  BY <1>1, <1>3, <1>4 DEF WorkInv, ContextInv, Closed, MonitorClosing
<1>7. ~QueueToClose(c) /\ ~QueueToClose(c)'
  BY <1>1, StepsThatCloseQueue DEF QueueToClose, CloseAtOnce, DoneWithWork
<1>. QED BY <1>1, <1>3, <1>5, <1>6, <1>7, FinishedKeepsContext DEF Finished
-----------------------------------------------------------------------------
\* finish_request() begins the close of a context that is not finished, and only
\* then: at the end of a second exchange it does nothing.
LEMMA FinishRequestKeepsContext ==
  ASSUME TypeOK, MonitorInv, NEW c \in Contexts, ContextInv(c), FinishRequest(c)
  PROVE  ContextInv(c)'
<1>. USE DEF TypeOK, context, monitoring
<1>1. /\ consumer[c] \in {"ended", "interrupted"} /\ consumer'[c] \in {"finishing", "aborting"}
      /\ requestFinished'[c] /\ closing'[c] = IF requestFinished[c] THEN closing[c] ELSE FinishSteps(c)
      /\ closes' = closes /\ UNCHANGED <<pool, monitored, workQueue>>
      /\ invocation' = invocation /\ exchanges' = exchanges
      /\ hasQueue'[c] = hasQueue[c] /\ workDone' = workDone
      /\ (Waits(c)' <=> Waits(c))
  BY DEF FinishRequest, Waits
<1>2. exchanges[c] # 0
  BY <1>1 DEF ContextInv, NewInv
<1>3. NewInv(c)'
  BY <1>1, <1>2 DEF ContextInv, NewInv
<1>4. CASE requestFinished[c]
  <2>1. SamePlace(c)
    BY <1>1, <1>4 DEF SamePlace
  <2>2. /\ Unclosed(c)' <=> Unclosed(c)
        /\ Finished(c)' <=> Finished(c)
        /\ QueueToClose(c)' <=> QueueToClose(c)
        /\ MonitorClosing(c)' <=> MonitorClosing(c)
    BY <1>1, <2>1, SamePlaceIsSameStage
  <2>3. StageInv(c)' /\ WorkInv(c)' /\ FirstInv(c)'
    BY <1>1, <1>4, <2>2 DEF ContextInv, StageInv, WorkInv, FirstInv
  <2>. QED BY <1>3, <2>3 DEF ContextInv
<1>5. CASE ~requestFinished[c]
  <2>1. Unclosed(c)
    BY <1>5 DEF ContextInv, StageInv
  <2>2. /\ closing'[c] = FinishSteps(c) /\ closes'[c] = 0 /\ ~Waits(c)'
        /\ c \notin pool' /\ c \notin monitored'
    BY <1>1, <1>5, <2>1 DEF Unclosed, MonitorInv
  <2>3. ClosesItself(c)' \/ HandsOver(c)'
    <3>1. CASE invocation[c] = "event" /\ HasMonitor
      BY <1>1, <2>2, <3>1, FinishBeginsOne DEF HandsOver
    <3>2. CASE ~(invocation[c] = "event" /\ HasMonitor)
      <4>1. closing'[c] = CloseAtOnce(c)
        BY <2>2, <3>2, FinishBeginsOne
      <4>. QED BY <1>1, <2>2, <3>2, <4>1 DEF ClosesItself, CloseAtOnce, DoneWithWork
    <3>. QED BY <3>1, <3>2
  <2>4. Finished(c)' /\ StageInv(c)'
    BY <1>1, <2>3 DEF Finished, StageInv
  <2>5. QueueToClose(c)'
    <3>1. closing'[c] \in {CloseAtOnce(c), HandOver}
      BY <2>2, FinishBeginsOne
    <3>. QED BY <3>1 DEF QueueToClose, CloseAtOnce, DoneWithWork
  <2>6. WorkInv(c)' /\ FirstInv(c)'
    BY <1>1, <2>2, <2>5 DEF WorkInv, MonitorClosing, FirstInv
  <2>. QED BY <1>3, <2>4, <2>6 DEF ContextInv
<1>. QED BY <1>4, <1>5

\* The second finish_request() of a stream finds it finished.
LEMMA LeaveKeepsContext ==
  ASSUME TypeOK, NEW c \in Contexts, ContextInv(c), Leave(c)
  PROVE  ContextInv(c)' /\ UNCHANGED closing
<1>. USE DEF TypeOK, context, monitoring
<1>1. /\ consumer[c] \in {"finishing", "aborting"} /\ consumer'[c] = "gone"
      /\ c \in Roots => closing[c] = <<>>
      /\ closing' = [closing EXCEPT ![c] = IF requestFinished[c] THEN @ ELSE FinishSteps(c)]
      /\ closes' = closes /\ UNCHANGED <<pool, monitored, workQueue>>
      /\ UNCHANGED <<invocation, exchanges, requestFinished, hasQueue, workDone>>
  BY DEF Leave
<1>2. requestFinished[c] /\ exchanges[c] # 0
  BY <1>1 DEF ContextInv, FirstInv, NewInv
<1>3. closing' = closing
  BY <1>1, <1>2
<1>4. SamePlace(c)
  BY <1>1, <1>3 DEF SamePlace, Waits
<1>5. /\ Unclosed(c)' <=> Unclosed(c)
      /\ Finished(c)' <=> Finished(c)
      /\ QueueToClose(c)' <=> QueueToClose(c)
      /\ MonitorClosing(c)' <=> MonitorClosing(c)
  BY <1>1, <1>4, SamePlaceIsSameStage
<1>6. c \in Roots => ~QueueToClose(c)
  BY <1>1, StepsThatCloseQueue DEF QueueToClose
<1>7. StageInv(c)' /\ WorkInv(c)' /\ NewInv(c)' /\ FirstInv(c)'
  BY <1>1, <1>2, <1>5, <1>6 DEF ContextInv, StageInv, WorkInv, NewInv, FirstInv
<1>. QED BY <1>3, <1>7 DEF ContextInv
-----------------------------------------------------------------------------
\* A new context that is opened or called has a new queue and nothing to close.
LEMMA BeginKeepsInv ==
  ASSUME NEW c \in Contexts, ContextInv(c), exchanges[c] = 0,
         SamePlace(c), exchanges'[c] = 1, consumer'[c] = "reading", queue'[c] = queue[c],
         c \in Roots => requestFinished'[c] = requestFinished[c]
  PROVE  ContextInv(c)' /\ StreamInv(c)'
<1>1. Unclosed(c) /\ queue[c] = EmptyQueue
  BY DEF ContextInv, NewInv
<1>2. Unclosed(c)'
  BY <1>1 DEF Unclosed, SamePlace
<1>3. ~Finished(c) /\ ~Finished(c)' /\ ~MonitorClosing(c)' /\ closes'[c] = 0
  <2>1. /\ CloseAtOnce(c) # <<>> /\ DoneWithWork(c) # <<>> /\ HandOver # <<>>
        /\ <<"put_work">> # <<>>
    BY StepsOfClosing, StepsOfHandingOver
  <2>2. ~Finished(c)' /\ ~MonitorClosing(c)'
    BY <1>2, <2>1 DEF Unclosed, Finished, ClosesItself, HandsOver, HandedOver, InPool,
                      MonitorClosing, Closed, CloseAtOnce, DoneWithWork
  <2>. QED BY <1>1, <1>2, <2>2, UnclosedIsNotFinished DEF Unclosed
<1>4. StageInv(c)' /\ WorkInv(c)' /\ NewInv(c)' /\ FirstInv(c)'
  BY <1>2, <1>3 DEF ContextInv, StageInv, WorkInv, NewInv, FirstInv
<1>5. queue'[c].items = <<>> /\ Len(<<>>) = 0
  BY <1>1 DEF EmptyQueue
<1>6. EndInv(c)'
  BY <1>5 DEF EndInv
<1>7. DrainedInv(c)' /\ AnsweredInv(c)'
  BY DEF DrainedInv, AnsweredInv
<1>. QED BY <1>4, <1>6, <1>7 DEF ContextInv, StreamInv

\* A request takes an executor and begins.
LEMMA OpenKeepsInv ==
  ASSUME TypeOK, NEW c \in Roots, c \in Contexts, ContextInv(c), Open(c)
  PROVE  ContextInv(c)' /\ StreamInv(c)'
<1>1. SamePlace(c)
  BY DEF Open, SamePlace, Waits, monitoring
<1>2. /\ exchanges[c] = 0 /\ exchanges'[c] = 1 /\ consumer'[c] = "reading"
      /\ queue'[c] = queue[c] /\ requestFinished'[c] = requestFinished[c]
  BY DEF Open, BeginExchange, TypeOK
<1>. QED BY <1>1, <1>2, BeginKeepsInv

\* A call makes a clone and changes nothing but the chat of the caller.
LEMMA CallKeepsInv ==
  ASSUME TypeOK, NEW c \in Contexts, NEW k \in Clones, k \in Contexts, Call(c, k),
         ContextInv(c), StreamInv(c), ContextInv(k)
  PROVE  /\ ContextInv(c)' /\ StreamInv(c)'
         /\ ContextInv(k)' /\ StreamInv(k)'
<1>. USE DEF TypeOK, monitoring
<1>1. k # c /\ k \notin Roots
  BY LifecycleAssumption DEF LifecycleAssumption, Call, ContextInv, NewInv
<1>2. SamePlace(c) /\ SamePlace(k)
  BY DEF Call, SamePlace, Waits
<1>3. /\ exchanges[k] = 0 /\ exchanges'[k] = 1 /\ consumer'[k] = "reading" /\ queue'[k] = queue[k]
  BY DEF Call
<1>4. ContextInv(k)' /\ StreamInv(k)'
  BY <1>1, <1>2, <1>3, BeginKeepsInv
<1>5. Quiet(c)
  BY <1>1, <1>2 DEF Call, Quiet, ContextInv, NewInv
<1>6. queue'[c] = queue[c] /\ answered'[c] = answered[c] /\ exchanges'[c] = exchanges[c]
      /\ consumer'[c] = consumer[c]
  BY <1>1 DEF Call
<1>7. StreamInv(c)'
  BY <1>6 DEF StreamInv, EndInv, DrainedInv, AnsweredInv, Clean
<1>. QED BY <1>4, <1>5, <1>7, QuietKeepsContext

\* The next exchange of a session begins with an empty queue, unless one before it
\* was interrupted after the first.
LEMMA AgainKeepsInv ==
  ASSUME TypeOK, NEW c \in Roots, c \in Contexts, ContextInv(c), StreamInv(c), Again(c)
  PROVE  ContextInv(c)' /\ StreamInv(c)'
<1>. USE DEF TypeOK, monitoring
<1>1. /\ c \in Reused /\ consumer[c] = "gone" /\ consumer'[c] = "reading"
      /\ exchanges'[c] = exchanges[c] + 1 /\ exchanges[c] \in Nat
      /\ queue'[c] = IF hasQueue[c] THEN ResetQueue(queue[c]) ELSE EmptyQueue
      /\ UNCHANGED <<invocation, requestFinished, workDone, closing, closes>>
  BY DEF Again, BeginExchange
<1>2. exchanges[c] # 0 /\ requestFinished[c] /\ ~QueueToClose(c)
  BY <1>1 DEF ContextInv, NewInv, FirstInv
<1>3. Finished(c)
  BY <1>2 DEF ContextInv, StageInv
<1>4. SamePlace(c)
  BY DEF Again, SamePlace, Waits
<1>5. /\ Unclosed(c)' <=> Unclosed(c)
      /\ Finished(c)' <=> Finished(c)
      /\ QueueToClose(c)' <=> QueueToClose(c)
      /\ MonitorClosing(c)' <=> MonitorClosing(c)
  BY <1>1, <1>4, SamePlaceIsSameStage
<1>6. StageInv(c)' /\ WorkInv(c)' /\ NewInv(c)' /\ FirstInv(c)'
  BY <1>1, <1>2, <1>4, <1>5 DEF ContextInv, StageInv, WorkInv, NewInv, FirstInv, SamePlace
<1>7. ResetQueue(queue[c]).items = queue[c].items /\ EmptyQueue.items = <<>>
  BY ResetClearsFlag DEF EmptyQueue
<1>8. ASSUME Clean(c)' PROVE queue'[c].items = <<>>
  <2>1. CASE c \in Disconnecting
    <3>1. exchanges[c] = 1
      BY <1>1, <1>2, <1>8, <2>1 DEF Clean
    <3>2. ~hasQueue[c]
      BY <1>2, <1>3, <3>1 DEF ContextInv, FirstInv
    <3>. QED BY <1>1, <1>7, <3>2
  <2>2. CASE c \notin Disconnecting
    BY <1>1, <1>7, <2>2 DEF StreamInv, DrainedInv
  <2>. QED BY <2>1, <2>2
<1>9. EndInv(c)'
  <2>1. Len(<<>>) = 0
    OBVIOUS
  <2>. QED BY <1>8, <2>1 DEF EndInv
<1>10. DrainedInv(c)' /\ AnsweredInv(c)'
  BY <1>1 DEF DrainedInv, AnsweredInv
<1>. QED BY <1>6, <1>9, <1>10 DEF ContextInv, StreamInv
-----------------------------------------------------------------------------
\* Steps that neither write to nor read from the queue.
SameQueue(c) ==
  /\ queue'[c] = queue[c] /\ answered'[c] = answered[c] /\ exchanges'[c] = exchanges[c]
  /\ \/ consumer'[c] = consumer[c]
     \/ consumer'[c] = "interrupted" /\ c \in Disconnecting
     \/ consumer[c] = "ended" /\ consumer'[c] = "finishing"
     \/ consumer[c] = "interrupted" /\ consumer'[c] = "aborting"
     \/ consumer[c] \in {"finishing", "aborting"} /\ consumer'[c] = "gone"

\* They keep what is said of the stream.
LEMMA SameQueueKeepsStream ==
  ASSUME NEW c \in Contexts, StreamInv(c), SameQueue(c)
  PROVE  StreamInv(c)'
<1>. USE DEF SameQueue, StreamInv, Clean
<1>1. EndInv(c)'
  BY DEF EndInv
<1>2. DrainedInv(c)'
  BY DEF DrainedInv
<1>3. AnsweredInv(c)'
  BY DEF AnsweredInv
<1>. QED BY <1>1, <1>2, <1>3

\* The client is given the first item: the end marker only when it was answered.
LEMMA ReadKeepsStream ==
  ASSUME TypeOK, NEW c \in Contexts, StreamInv(c), Read(c)
  PROVE  StreamInv(c)'
<1>. DEFINE q == queue[c]
            n == Len(q.items)
<1>1. /\ queue'[c] = WithoutNext(q) /\ HasItem(q) /\ exchanges'[c] = exchanges[c]
      /\ consumer[c] = "reading"
      /\ consumer'[c] = IF NextItem(q) = END_MESSAGE THEN "ended" ELSE "reading"
  BY DEF Read, TypeOK, IsFinalItem
<1>2. answered'[c] <=> answered[c] \/ NextItem(q) = "answer"
  BY Zenon DEF Read, TypeOK
<1>3. /\ n \in Nat /\ n >= 1 /\ Len(WithoutNext(q).items) = n - 1
      /\ WithoutNext(q).lastItemSent = q.lastItemSent /\ NextItem(q) = q.items[1]
      /\ \A i \in 1..n - 1 : WithoutNext(q).items[i] = q.items[i + 1]
      /\ WithoutNext(q).items \in Seq({"report", "answer"} \cup {END_MESSAGE})
  <2>1. q \in QueuesOf({"report", "answer"})
    BY DEF TypeOK
  <2>2. n \in Nat
    BY <2>1 DEF QueuesOf
  <2>3. WithoutNext(q).items \in Seq({"report", "answer"} \cup {END_MESSAGE})
    BY <1>1, <2>1, GetTakesFirst DEF QueuesOf
  <2>. QED BY <1>1, <2>1, <2>2, <2>3, GetTakesFirst
<1>4. Clean(c)' <=> Clean(c)
  BY <1>1 DEF Clean
<1>5. Clean(c) =>
        \A i \in 1..n : q.items[i] = END_MESSAGE =>
          /\ i = n /\ q.lastItemSent
          /\ IF i = 1 THEN answered[c] ELSE q.items[i - 1] = "answer"
  BY DEF StreamInv, EndInv
<1>. HIDE DEF q, n
<1>6. ASSUME NEW i \in 1..n - 1, Clean(c), WithoutNext(q).items[i] = END_MESSAGE
      PROVE  /\ i = n - 1 /\ q.lastItemSent
             /\ IF i = 1 THEN answered'[c] ELSE WithoutNext(q).items[i - 1] = "answer"
  <2>1. i + 1 \in 1..n /\ q.items[i + 1] = END_MESSAGE /\ i + 1 # 1 /\ i + 1 - 1 = i
    BY <1>3, <1>6
  <2>2. i = n - 1 /\ q.lastItemSent /\ q.items[i] = "answer"
    BY <1>3, <1>5, <1>6, <2>1
  <2>3. CASE i = 1
    BY <1>2, <1>3, <2>2, <2>3
  <2>4. CASE i # 1
    <3>1. i - 1 \in 1..n - 1 /\ i - 1 + 1 = i
      BY <1>3, <2>4
    <3>. QED BY <1>3, <2>2, <2>4, <3>1
  <2>. QED BY <2>2, <2>3, <2>4
<1>7. EndInv(c)'
  BY <1>1, <1>3, <1>4, <1>6 DEF EndInv
<1>8. ASSUME Clean(c), NextItem(q) = END_MESSAGE
      PROVE  answered[c] /\ q.lastItemSent /\ n = 1
  <2>1. 1 \in 1..n
    BY <1>3
  <2>. QED BY <1>3, <1>5, <1>8, <2>1
<1>9. DrainedInv(c)'
  <2>1. ASSUME c \notin Disconnecting, NextItem(q) = END_MESSAGE
        PROVE  WithoutNext(q).items = <<>> /\ q.lastItemSent
    <3>1. q.lastItemSent /\ n = 1
      BY <1>8, <2>1 DEF Clean
    <3>. QED BY <1>3, <3>1, EmptySeq
  <2>. QED BY <1>1, <1>3, <2>1 DEF DrainedInv
<1>10. AnsweredInv(c)'
  BY <1>1, <1>2, <1>4, <1>8 DEF AnsweredInv
<1>. QED BY <1>7, <1>9, <1>10 DEF StreamInv

\* The answer is put in front of the end marker, once.
LEMMA FinalizeKeepsStream ==
  ASSUME TypeOK, NEW c \in Contexts, StreamInv(c), Finalize(c),
         answered'[c] = answered[c], exchanges'[c] = exchanges[c], consumer'[c] = consumer[c]
  PROVE  StreamInv(c)'
<1>1. CASE lastMessageSent[c] \/ FinalizeFails(c) \/ queue[c].lastItemSent
  <2>1. \/ /\ Put(queue[c], "answer") = queue[c]
           /\ PutFinalItem(queue[c]) = queue[c]
        \/ lastMessageSent[c]
        \/ FinalizeFails(c)
    <3>1. queue[c] \in QueuesOf(Reading) /\ "answer" \in Reading
      BY DEF TypeOK, Reading
    <3>. QED BY <1>1, <3>1, PutAppends, PutFinalItemAppends DEF Accepts
  <2>2. queue'[c] = queue[c]
    BY <2>1 DEF Finalize, TypeOK
  <2>. QED BY <2>2, SameQueueKeepsStream DEF SameQueue
<1>2. CASE ~lastMessageSent[c] /\ ~FinalizeFails(c) /\ ~queue[c].lastItemSent
  <2>. DEFINE q == queue[c]
              put == Put(q, "answer")
              end == PutFinalItem(put)
              n == Len(q.items)
  <2>1. queue'[c] = end
    BY <1>2 DEF Finalize, TypeOK
  <2>2. q \in QueuesOf(Reading) /\ "answer" \in Reading /\ ~q.lastItemSent /\ ~q.closed
    BY <1>2 DEF TypeOK, Reading, FinalizeFails, PutFails
  <2>3. /\ put \in QueuesOf(Reading) /\ ~put.lastItemSent /\ ~put.closed
        /\ put.items = Append(q.items, "answer")
    BY <2>2, PutAppends DEF Accepts
  <2>4. end.lastItemSent /\ end.items = Append(put.items, END_MESSAGE)
    BY <2>3, PutFinalItemAppends
  <2>5. q.items \in Seq(Reading \cup {END_MESSAGE}) /\ n \in Nat
    BY <2>2 DEF QueuesOf
  <2>6. put.items \in Seq(Reading \cup {END_MESSAGE})
    BY <2>3 DEF QueuesOf
  <2>. HIDE DEF q, put, end
  <2>7. /\ Len(put.items) = n + 1 /\ put.items[n + 1] = "answer"
        /\ \A i \in 1..n : put.items[i] = q.items[i]
    BY <2>2, <2>3, <2>5, AppendProperties
  <2>8. /\ Len(end.items) = n + 1 + 1 /\ end.items[n + 1 + 1] = END_MESSAGE
        /\ \A i \in 1..n + 1 : end.items[i] = put.items[i]
    BY <2>4, <2>5, <2>6, <2>7, AppendProperties
  <2>9. ASSUME Clean(c), NEW i \in 1..n PROVE q.items[i] # END_MESSAGE
    BY <1>2, <2>9 DEF StreamInv, EndInv, q
  <2>. HIDE DEF n
  <2>10. ASSUME Clean(c), NEW i \in 1..n + 1 + 1, end.items[i] = END_MESSAGE
         PROVE  i = n + 1 + 1 /\ i # 1 /\ end.items[i - 1] = "answer"
    <3>1. "answer" # END_MESSAGE
      BY LifecycleAssumption DEF LifecycleAssumption
    <3>2. i # n + 1
      BY <2>7, <2>8, <2>10, <3>1
    <3>3. i \notin 1..n
      <4>1. ASSUME i \in 1..n PROVE FALSE
        <5>1. i \in 1..n + 1
          BY <2>5, <4>1
        <5>. QED BY <2>7, <2>8, <2>9, <2>10, <4>1, <5>1
      <4>. QED BY <4>1
    <3>4. i = n + 1 + 1
      BY <2>5, <3>2, <3>3
    <3>5. n + 1 \in 1..n + 1 /\ i - 1 = n + 1 /\ i # 1
      BY <2>5, <3>4
    <3>. QED BY <2>7, <2>8, <3>4, <3>5
  <2>11. Clean(c)' <=> Clean(c)
    BY DEF Clean
  <2>12. EndInv(c)'
    BY <2>1, <2>4, <2>8, <2>10, <2>11 DEF EndInv
  <2>13. DrainedInv(c)'
    BY <1>2 DEF StreamInv, DrainedInv
  <2>14. AnsweredInv(c)'
    BY <2>11 DEF StreamInv, AnsweredInv
  <2>. QED BY <2>12, <2>13, <2>14 DEF StreamInv
<1>. QED BY <1>1, <1>2

\* A report is dropped once the end marker is in the queue.
LEMMA ReportKeepsStream ==
  ASSUME TypeOK, NEW c \in Contexts, StreamInv(c), Report(c)
  PROVE  StreamInv(c)'
<1>1. answered'[c] = answered[c] /\ exchanges'[c] = exchanges[c] /\ consumer'[c] = consumer[c]
  BY DEF Report
<1>2. queue[c] \in QueuesOf(Reading) /\ "report" \in Reading
  BY DEF TypeOK, Reading
<1>3. CASE PutFails(queue[c]) \/ queue[c].lastItemSent
  <2>1. queue'[c] = queue[c]
    BY <1>2, <1>3, PutAppends DEF Report, TypeOK, Accepts
  <2>. QED BY <1>1, <2>1, SameQueueKeepsStream DEF SameQueue
<1>4. CASE ~PutFails(queue[c]) /\ ~queue[c].lastItemSent
  <2>. DEFINE q == queue[c]
              put == Put(q, "report")
              n == Len(q.items)
  <2>1. queue'[c] = put
    BY <1>4 DEF Report, TypeOK
  <2>2. put.items = Append(q.items, "report")
    BY <1>2, <1>4, PutAppends DEF Accepts
  <2>3. q.items \in Seq(Reading \cup {END_MESSAGE}) /\ n \in Nat
    BY <1>2 DEF QueuesOf
  <2>. HIDE DEF q, put
  <2>4. /\ Len(put.items) = n + 1 /\ put.items[n + 1] = "report"
        /\ \A i \in 1..n : put.items[i] = q.items[i]
    BY <1>2, <2>2, <2>3, AppendProperties
  <2>5. ASSUME Clean(c), NEW i \in 1..n PROVE q.items[i] # END_MESSAGE
    BY <1>4, <2>5 DEF StreamInv, EndInv, q
  <2>. HIDE DEF n
  <2>6. ASSUME Clean(c), NEW i \in 1..n + 1 PROVE put.items[i] # END_MESSAGE
    <3>1. "report" # END_MESSAGE
      BY LifecycleAssumption DEF LifecycleAssumption
    <3>2. i \in 1..n \/ i = n + 1
      BY <2>3
    <3>. QED BY <2>4, <2>5, <2>6, <3>1, <3>2
  <2>7. Clean(c)' <=> Clean(c)
    BY <1>1 DEF Clean
  <2>8. EndInv(c)'
    BY <2>1, <2>4, <2>6, <2>7 DEF EndInv
  <2>9. DrainedInv(c)' /\ AnsweredInv(c)'
    BY <1>1, <1>4, <2>7 DEF StreamInv, DrainedInv, AnsweredInv
  <2>. QED BY <2>8, <2>9 DEF StreamInv
<1>. QED BY <1>3, <1>4

\* Closing the queue drains it.
LEMMA CloseOfRequestKeepsStream ==
  ASSUME TypeOK, NEW c \in Contexts, StreamInv(c), CloseOfRequest(c)
  PROVE  StreamInv(c)'
<1>1. answered'[c] = answered[c] /\ exchanges'[c] = exchanges[c] /\ consumer'[c] = consumer[c]
  BY DEF CloseOfRequest
<1>2. queue[c] \in QueuesOf(Reading)
  BY DEF TypeOK, Reading
<1>3. CASE hasQueue[c]
  <2>1. queue'[c] = CloseQueue(queue[c])
    BY <1>3 DEF CloseOfRequest, TypeOK
  <2>2. queue'[c].items = <<>> /\ queue'[c].lastItemSent = queue[c].lastItemSent /\ Len(<<>>) = 0
    BY <1>2, <2>1, CloseDrains
  <2>3. EndInv(c)'
    BY <2>2 DEF EndInv
  <2>4. DrainedInv(c)' /\ AnsweredInv(c)'
    BY <1>1, <2>2 DEF StreamInv, DrainedInv, AnsweredInv, Clean
  <2>. QED BY <2>3, <2>4 DEF StreamInv
<1>4. CASE ~hasQueue[c]
  <2>1. queue'[c] = queue[c]
    BY <1>4 DEF CloseOfRequest, TypeOK
  <2>. QED BY <1>1, <2>1, SameQueueKeepsStream DEF SameQueue
<1>. QED BY <1>3, <1>4
-----------------------------------------------------------------------------
\* Every step of a context keeps its stream ...
LEMMA StepKeepsStream ==
  ASSUME TypeOK, NEW c \in Contexts, StreamInv(c), ContextInv(c),
         \/ Progress(c) \/ Report(c) \/ Raise(c) \/ CallFails(c)
         \/ Disconnect(c) \/ ReturnExecutor(c)
  PROVE  StreamInv(c)'
<1>. USE DEF TypeOK, context
<1>1. CASE Read(c) \/ Report(c) \/ CloseOfRequest(c)
  BY <1>1, ReadKeepsStream, ReportKeepsStream, CloseOfRequestKeepsStream
<1>2. CASE FinishRequest(c)
  BY <1>2, SameQueueKeepsStream DEF FinishRequest, SameQueue
<1>3. CASE Leave(c)
  BY <1>3, SameQueueKeepsStream DEF Leave, SameQueue
<1>4. CASE StartChat(c)
  <2>1. answered'[c] = answered[c] /\ exchanges'[c] = exchanges[c] /\ consumer'[c] = consumer[c]
    BY <1>4 DEF StartChat
  <2>2. Finalize(c) \/ queue' = queue
    BY <1>4, Zenon DEF StartChat
  <2>. QED BY <2>1, <2>2, FinalizeKeepsStream, SameQueueKeepsStream DEF SameQueue
<1>5. CASE Answer(c)
  BY <1>5, FinalizeKeepsStream DEF Answer
<1>6. CASE CallReturns(c) \/ Return(c) \/ Raise(c) \/ CallFails(c)
  BY <1>6, SameQueueKeepsStream DEF CallReturns, Return, Raise, CallFails, SameQueue
<1>7. CASE Disconnect(c)
  BY <1>7, SameQueueKeepsStream DEF Disconnect, SameQueue
<1>8. CASE PutWork(c) \/ CloseOfWork(c)
  BY <1>8, SameQueueKeepsStream DEF PutWork, CloseOfWork, SameQueue
<1>9. CASE CloseOfWorkFails(c) \/ ReturnExecutor(c)
  BY <1>9, SameQueueKeepsStream DEF CloseOfWorkFails, ReturnExecutor, SameQueue
<1>10. CASE MonitorCloses(c) \/ MonitorForgets(c)
  BY <1>10, SameQueueKeepsStream DEF MonitorCloses, MonitorForgets, SameQueue
<1>. QED BY <1>1, <1>2, <1>3, <1>4, <1>5, <1>6, <1>7, <1>8, <1>9, <1>10 DEF Progress

\* ... and its place on the way to being closed.
LEMMA StepKeepsContext ==
  ASSUME TypeOK, MonitorInv, NEW c \in Contexts, ContextInv(c),
         \/ Progress(c) \/ Report(c) \/ Raise(c) \/ CallFails(c)
         \/ Disconnect(c) \/ ReturnExecutor(c)
  PROVE  ContextInv(c)'
<1>1. CASE \/ Read(c) \/ StartChat(c) \/ CallReturns(c) \/ Answer(c) \/ Return(c) \/ Report(c)
           \/ Raise(c) \/ CallFails(c) \/ Disconnect(c)
  BY <1>1, QuietSteps, QuietKeepsContext
<1>2. CASE FinishRequest(c) \/ Leave(c)
  BY <1>2, FinishRequestKeepsContext, LeaveKeepsContext
<1>3. CASE CloseOfRequest(c) \/ PutWork(c)
  BY <1>3, CloseOfRequestKeepsContext, PutWorkKeepsContext
<1>4. CASE CloseOfWork(c) \/ CloseOfWorkFails(c) \/ ReturnExecutor(c)
  BY <1>4, CloseOfWorkKeepsContext, ReturnExecutorKeepsContext
<1>5. CASE MonitorCloses(c) \/ MonitorForgets(c)
  BY <1>5, MonitorClosesKeepsContext, MonitorForgetsKeepsContext
<1>. QED BY <1>1, <1>2, <1>3, <1>4, <1>5 DEF Progress

AllContexts == \A c \in Contexts : ContextInv(c) /\ StreamInv(c)

\* Every step keeps them for all contexts.
LEMMA ContextStep == TypeOK /\ MonitorInv /\ AllContexts /\ [Next]_vars => AllContexts'
<1>. SUFFICES ASSUME TypeOK, MonitorInv, AllContexts, [Next]_vars,
                     NEW d \in Contexts
              PROVE  ContextInv(d)' /\ StreamInv(d)'
  BY DEF AllContexts
<1>. Roots \subseteq Contexts /\ \A k \in Clones : k \in Contexts /\ MotherOf[k] \in Contexts
  BY LifecycleAssumption DEF LifecycleAssumption, Contexts
<1>1. ContextInv(d) /\ StreamInv(d)
  BY DEF AllContexts
<1>2. ASSUME NEW r \in Roots, Open(r) \/ Again(r) \/ Disconnect(r) \/ ReturnExecutor(r)
      PROVE  ContextInv(d)' /\ StreamInv(d)'
  <2>1. CASE d # r
    BY <1>1, <1>2, <2>1, OthersUntouched, UntouchedKeepsInv
  <2>2. CASE d = r
    BY <1>1, <1>2, <2>2, OpenKeepsInv, AgainKeepsInv, StepKeepsStream, StepKeepsContext
  <2>. QED BY <2>1, <2>2
<1>3. ASSUME NEW c \in Contexts, Progress(c) \/ Report(c) \/ Raise(c) \/ CallFails(c)
      PROVE  ContextInv(d)' /\ StreamInv(d)'
  <2>1. CASE d # c
    BY <1>1, <1>3, <2>1, OthersUntouched, UntouchedKeepsInv
  <2>2. CASE d = c
    BY <1>1, <1>3, <2>2, StepKeepsStream, StepKeepsContext
  <2>. QED BY <2>1, <2>2
<1>4. ASSUME NEW k \in Clones, Call(MotherOf[k], k) PROVE ContextInv(d)' /\ StreamInv(d)'
  <2>. DEFINE c == MotherOf[k]
  <2>1. c \in Contexts /\ ContextInv(c) /\ StreamInv(c) /\ ContextInv(k)
    BY DEF AllContexts
  <2>. HIDE DEF c
  <2>2. CASE d = c \/ d = k
    BY <1>4, <2>1, <2>2, CallKeepsInv DEF c
  <2>3. CASE d # c /\ d # k
    BY <1>1, <1>4, <2>1, <2>3, OthersUntouchedByCall, UntouchedKeepsInv DEF c
  <2>. QED BY <2>2, <2>3
<1>5. CASE MonitorTakes
  <2>1. CASE d # NextItem(workQueue)
    BY <1>1, <1>5, <2>1, OthersUntouchedByMonitor, UntouchedKeepsInv
  <2>2. CASE d = NextItem(workQueue)
    <3>1. ContextInv(d)'
      BY <1>1, <1>5, <2>2, MonitorTakesKeepsContext
    <3>2. StreamInv(d)'
      BY <1>1, <1>5, SameQueueKeepsStream DEF MonitorTakes, SameQueue, context
    <3>. QED BY <3>1, <3>2
  <2>. QED BY <2>1, <2>2
<1>6. CASE UNCHANGED vars
  <2>1. Untouched(d)
    BY <1>6 DEF vars, context, monitoring, Untouched, SamePlace, SameRequest, SameStream, Waits
  <2>. QED BY <1>1, <2>1, UntouchedKeepsInv
<1>. QED BY <1>2, <1>3, <1>4, <1>5, <1>6 DEF Next
-----------------------------------------------------------------------------
\* Steps of contexts do not disturb the monitor, but for put_work().
LEMMA MonitorStep ==
  TypeOK /\ MonitorInv /\ AllContexts /\ [Next]_vars => MonitorInv'
<1>. SUFFICES ASSUME TypeOK, MonitorInv, AllContexts, [Next]_vars PROVE MonitorInv'
  OBVIOUS
<1>. USE DEF monitoring
<1>1. ASSUME UNCHANGED <<workQueue, pool, monitored>> PROVE MonitorInv'
  BY <1>1 DEF MonitorInv
<1>2. ASSUME NEW r \in Roots, Open(r) \/ Again(r) \/ Disconnect(r) \/ ReturnExecutor(r)
      PROVE  MonitorInv'
  BY <1>1, <1>2 DEF Open, Again, Disconnect, ReturnExecutor
<1>3. ASSUME NEW c \in Contexts,
             \/ Read(c) \/ FinishRequest(c) \/ Leave(c) \/ StartChat(c) \/ CallReturns(c)
             \/ Answer(c) \/ Return(c) \/ Report(c) \/ Raise(c) \/ CallFails(c)
      PROVE  MonitorInv'
  BY <1>1, <1>3 DEF Read, FinishRequest, Leave, StartChat, CallReturns, Answer, Return, Report,
                    Raise, CallFails
<1>4. ASSUME NEW c \in Contexts, CloseOfRequest(c) \/ CloseOfWork(c) \/ CloseOfWorkFails(c)
      PROVE  MonitorInv'
  BY <1>1, <1>4 DEF CloseOfRequest, CloseOfWork, CloseOfWorkFails
<1>5. ASSUME NEW c \in Contexts, NEW k \in Clones, Call(c, k) PROVE MonitorInv'
  BY <1>1, <1>5 DEF Call
<1>6. ASSUME NEW c \in Contexts, PutWork(c) PROVE MonitorInv'
  <2>. DEFINE n == Len(workQueue.items)
  <2>1. ~Waits(c)
    BY <1>6, PutWorkKeepsContext DEF AllContexts
  <2>2. /\ n \in Nat /\ Len(workQueue'.items) = n + 1
        /\ \A i \in 1..n + 1 : workQueue'.items[i] = IF i <= n THEN workQueue.items[i] ELSE c
        /\ \A i \in 1..n : workQueue.items[i] # c
        /\ \A i, j \in 1..n : workQueue.items[i] = workQueue.items[j] => i = j
        /\ workQueue'.items \in Seq(Contexts) /\ ~workQueue'.lastItemSent
    BY <1>6, <2>1, PutWorkIsLast DEF Waits, MonitorInv
  <2>. HIDE DEF n
  <2>3. ASSUME NEW i \in 1..n + 1, NEW j \in 1..n + 1, workQueue'.items[i] = workQueue'.items[j]
        PROVE  i = j
    BY <2>2, <2>3
  <2>4. pool' = pool /\ monitored' = monitored
    BY <1>6 DEF PutWork
  <2>5. \A i, j \in 1..Len(workQueue'.items) : workQueue'.items[i] = workQueue'.items[j] => i = j
    BY <2>2, <2>3
  <2>. QED BY <2>2, <2>4, <2>5 DEF MonitorInv
<1>7. CASE MonitorTakes
  <2>. DEFINE n == Len(workQueue.items)
  <2>1. /\ n \in Nat /\ Len(workQueue'.items) = n - 1
        /\ \A i \in 1..n - 1 : workQueue'.items[i] = workQueue.items[i + 1]
        /\ \A i, j \in 1..n : workQueue.items[i] = workQueue.items[j] => i = j
        /\ workQueue'.items \in Seq(Contexts) /\ ~workQueue'.lastItemSent
    BY <1>7, MonitorTakesFirst DEF MonitorInv
  <2>. HIDE DEF n
  <2>2. ASSUME NEW i \in 1..n - 1, NEW j \in 1..n - 1, workQueue'.items[i] = workQueue'.items[j]
        PROVE  i = j
    <3>1. i + 1 \in 1..n /\ j + 1 \in 1..n
      BY <2>1
    <3>2. i + 1 = j + 1
      BY <2>1, <2>2, <3>1
    <3>. QED BY <3>2
  <2>3. monitored' = {}
    BY <1>7 DEF MonitorTakes
  <2>4. \A i, j \in 1..Len(workQueue'.items) : workQueue'.items[i] = workQueue'.items[j] => i = j
    BY <2>1, <2>2
  <2>. QED BY <2>1, <2>3, <2>4 DEF MonitorInv
<1>8. ASSUME NEW c \in Contexts, MonitorCloses(c) PROVE MonitorInv'
  BY <1>8 DEF MonitorCloses, MonitorInv
<1>9. ASSUME NEW c \in Contexts, MonitorForgets(c) PROVE MonitorInv'
  BY <1>9 DEF MonitorForgets, MonitorInv
<1>10. CASE UNCHANGED vars
  BY <1>1, <1>10 DEF vars
<1>11. \A k \in Clones : MotherOf[k] \in Contexts
  BY LifecycleAssumption DEF LifecycleAssumption
<1>. QED BY <1>2, <1>3, <1>4, <1>5, <1>6, <1>7, <1>8, <1>9, <1>10, <1>11 DEF Next, Progress
-----------------------------------------------------------------------------
\* A request is counted before it streams, and not counted any more at most once,
\* when it leaves.
LEMMA CountStep ==
  TypeOK /\ AllContexts /\ CountInv /\ [Next]_vars => CountInv'
<1>. SUFFICES ASSUME TypeOK, AllContexts, CountInv, [Next]_vars PROVE CountInv'
  OBVIOUS
<1>. USE DEF context
<1>. Roots \subseteq Contexts /\ \A k \in Clones : k \in Contexts /\ MotherOf[k] \in Contexts
  BY LifecycleAssumption DEF LifecycleAssumption, Contexts
<1>1. ASSUME requests' = requests,
             \A r \in Roots \ Reused :
               consumer'[r] \in {"none", "gone"} <=> consumer[r] \in {"none", "gone"}
      PROVE  CountInv'
  <2>1. Live' = Live
    BY <1>1 DEF Live
  <2>. QED BY <1>1, <2>1 DEF CountInv
<1>2. ASSUME NEW r \in Roots, Open(r) PROVE CountInv'
  <2>1. /\ consumer[r] = "none" /\ consumer'[r] = "reading"
        /\ \A d \in Roots : d # r => consumer'[d] = consumer[d]
    BY <1>2 DEF Open, BeginExchange, TypeOK, AllContexts, ContextInv, NewInv
  <2>2. CASE r \in Reused
    BY <1>1, <1>2, <2>1, <2>2 DEF Open
  <2>3. CASE r \notin Reused
    <3>1. requests' = requests + 1
      BY <1>2, <2>3 DEF Open
    <3>2. Live' = Live \cup {r} /\ r \notin Live
      BY <2>1, <2>3 DEF Live
    <3>3. /\ IsFiniteSet(Live \cup {r}) /\ Cardinality(Live \cup {r}) = Cardinality(Live) + 1
          /\ Cardinality(Live) \in Nat
      BY <3>2, FS_AddElement, FS_CardinalityType DEF CountInv
    <3>. QED BY <3>1, <3>2, <3>3 DEF CountInv
  <2>. QED BY <2>2, <2>3
<1>3. ASSUME NEW c \in Contexts, Leave(c) PROVE CountInv'
  <2>1. /\ consumer[c] \in {"finishing", "aborting"} /\ consumer'[c] = "gone"
        /\ \A d \in Roots : d # c => consumer'[d] = consumer[d]
    BY <1>3 DEF Leave, TypeOK
  <2>2. CASE c \in Roots \ Reused
    <3>1. requests' \in {requests, requests - 1}
      BY <1>3 DEF Leave
    <3>2. Live' = Live \ {c} /\ c \in Live
      BY <2>1, <2>2 DEF Live
    <3>3. /\ IsFiniteSet(Live \ {c}) /\ Cardinality(Live \ {c}) = Cardinality(Live) - 1
          /\ Cardinality(Live) \in Nat
      BY <3>2, FS_RemoveElement, FS_CardinalityType DEF CountInv
    <3>. QED BY <3>1, <3>2, <3>3 DEF CountInv
  <2>3. CASE c \notin Roots \ Reused
    BY <1>1, <1>3, <2>1, <2>3 DEF Leave
  <2>. QED BY <2>2, <2>3
<1>4. ASSUME NEW r \in Roots, Again(r) PROVE CountInv'
  <2>1. r \in Reused /\ \A d \in Roots : d # r => consumer'[d] = consumer[d]
    BY <1>4 DEF Again, BeginExchange, TypeOK
  <2>. QED BY <1>1, <1>4, <2>1 DEF Again
<1>5. ASSUME NEW c \in Contexts, NEW k \in Clones, Call(c, k) PROVE CountInv'
  <2>1. \A d \in Roots : consumer'[d] = consumer[d]
    BY <1>5, LifecycleAssumption DEF LifecycleAssumption, Call, TypeOK
  <2>. QED BY <1>1, <1>5, <2>1 DEF Call
<1>6. ASSUME NEW c \in Contexts, Read(c) \/ FinishRequest(c) \/ Disconnect(c) PROVE CountInv'
  <2>1. /\ consumer[c] \in {"reading", "ended", "interrupted"}
        /\ consumer'[c] \in {"reading", "ended", "interrupted", "finishing", "aborting"}
        /\ \A d \in Roots : d # c => consumer'[d] = consumer[d]
        /\ requests' = requests
    BY <1>6 DEF Read, FinishRequest, Disconnect, TypeOK
  <2>. QED BY <1>1, <2>1
<1>7. ASSUME UNCHANGED <<consumer, requests>> PROVE CountInv'
  BY <1>1, <1>7
<1>8. ASSUME NEW c \in Contexts,
             \/ StartChat(c) \/ CallReturns(c) \/ Answer(c) \/ Return(c) \/ Report(c)
             \/ Raise(c) \/ CallFails(c)
      PROVE  CountInv'
  BY <1>7, <1>8 DEF StartChat, CallReturns, Answer, Return, Report, Raise, CallFails
<1>9. ASSUME NEW c \in Contexts,
             \/ CloseOfRequest(c) \/ PutWork(c) \/ CloseOfWork(c) \/ CloseOfWorkFails(c)
             \/ ReturnExecutor(c) \/ MonitorCloses(c) \/ MonitorForgets(c)
      PROVE  CountInv'
  BY <1>7, <1>9 DEF CloseOfRequest, PutWork, CloseOfWork, CloseOfWorkFails, ReturnExecutor,
                    MonitorCloses, MonitorForgets
<1>10. CASE MonitorTakes
  BY <1>7, <1>10 DEF MonitorTakes
<1>11. CASE UNCHANGED vars
  BY <1>7, <1>11 DEF vars
<1>. QED BY <1>2, <1>3, <1>4, <1>5, <1>6, <1>8, <1>9, <1>10, <1>11 DEF Next, Progress

\* close_of_work() comes before the executor is given back, in each exchange that
\* gives one back.
LEMMA ExecutorStep ==
  TypeOK /\ MonitorInv /\ AllContexts /\ ExecutorInv /\ [Next]_vars => ExecutorInv'
<1>. SUFFICES ASSUME TypeOK, MonitorInv, AllContexts, ExecutorInv, [Next]_vars PROVE ExecutorInv'
  OBVIOUS
<1>. Roots \subseteq Contexts /\ \A k \in Clones : k \in Contexts /\ MotherOf[k] \in Contexts
  BY LifecycleAssumption DEF LifecycleAssumption, Contexts
<1>1. ASSUME UNCHANGED <<executor, closes>> PROVE ExecutorInv'
  BY <1>1 DEF ExecutorInv
<1>2. ASSUME NEW r \in Roots, Open(r) \/ Again(r) PROVE ExecutorInv'
  <2>1. executor' = [executor EXCEPT ![r] = "held"] /\ closes' = closes
    BY <1>2 DEF Open, Again
  <2>. QED BY <2>1 DEF ExecutorInv, TypeOK
<1>3. ASSUME NEW r \in Roots, ReturnExecutor(r) PROVE ExecutorInv'
  <2>1. closes'[r] = 1
    BY <1>3, ReturnExecutorKeepsContext DEF AllContexts
  <2>2. executor' = [executor EXCEPT ![r] = "returned"] /\ closes' = closes
    BY <1>3 DEF ReturnExecutor
  <2>. QED BY <2>1, <2>2 DEF ExecutorInv, TypeOK
<1>4. ASSUME NEW c \in Contexts, CloseOfWork(c) \/ CloseOfWorkFails(c) PROVE ExecutorInv'
  <2>1. closes[c] = 0
    BY <1>4, CloseOfWorkKeepsContext DEF AllContexts
  <2>2. executor' = executor /\ \A d \in Contexts : d # c => closes'[d] = closes[d]
    BY <1>4 DEF CloseOfWork, CloseOfWorkFails, TypeOK
  <2>. QED BY <2>1, <2>2 DEF ExecutorInv
<1>5. ASSUME NEW c \in Contexts, NEW k \in Clones, Call(c, k) PROVE ExecutorInv'
  BY <1>1, <1>5 DEF Call
<1>6. ASSUME NEW c \in Contexts,
             \/ Read(c) \/ FinishRequest(c) \/ Disconnect(c) \/ Leave(c) \/ StartChat(c)
             \/ CallReturns(c) \/ Answer(c) \/ Return(c) \/ Report(c) \/ Raise(c) \/ CallFails(c)
      PROVE  ExecutorInv'
  BY <1>1, <1>6 DEF Read, FinishRequest, Disconnect, Leave, StartChat, CallReturns, Answer,
                    Return, Report, Raise, CallFails
<1>7. ASSUME NEW c \in Contexts,
             CloseOfRequest(c) \/ PutWork(c) \/ MonitorCloses(c) \/ MonitorForgets(c)
      PROVE  ExecutorInv'
  BY <1>1, <1>7 DEF CloseOfRequest, PutWork, MonitorCloses, MonitorForgets
<1>8. CASE MonitorTakes
  BY <1>1, <1>8 DEF MonitorTakes
<1>9. CASE UNCHANGED vars
  BY <1>1, <1>9 DEF vars
<1>. QED BY <1>2, <1>3, <1>4, <1>5, <1>6, <1>7, <1>8, <1>9 DEF Next, Progress
-----------------------------------------------------------------------------
\* Nothing is begun or left to close at first.
LEMMA InitInv == Init => IInv
<1>. SUFFICES ASSUME Init PROVE IInv
  OBVIOUS
<1>. USE DEF Init
<1>1. /\ EmptyQueue \in QueuesOf({"report", "answer"}) /\ EmptyQueue \in QueuesOf(Contexts)
      /\ EmptyQueue.items = <<>> /\ ~EmptyQueue.lastItemSent
      /\ <<>> \in Seq(Contexts) /\ <<>> \in Seq(ClosingSteps) /\ Len(<<>>) = 0
  BY EmptyQueueIsQueue DEF EmptyQueue
<1>2. TypeOK
  BY <1>1 DEF TypeOK, ClosingSteps
<1>3. MonitorInv
  BY <1>1 DEF MonitorInv
<1>4. CountInv
  <2>1. Live = {}
    BY LifecycleAssumption DEF LifecycleAssumption, Live, Contexts
  <2>. QED BY <2>1, FS_EmptySet DEF CountInv
<1>5. ExecutorInv
  BY DEF ExecutorInv
<1>6. ASSUME NEW c \in Contexts PROVE ContextInv(c) /\ StreamInv(c)
  <2>1. ~Waits(c)
    BY <1>1 DEF Waits
  <2>2. Unclosed(c)
    BY <2>1 DEF Unclosed
  <2>3. ~Finished(c) /\ ~MonitorClosing(c)
    BY <2>2, UnclosedIsNotFinished
  <2>4. StageInv(c) /\ WorkInv(c) /\ NewInv(c) /\ FirstInv(c)
    BY <2>2, <2>3 DEF StageInv, WorkInv, NewInv, FirstInv
  <2>5. EndInv(c) /\ DrainedInv(c) /\ AnsweredInv(c)
    BY <1>1 DEF EndInv, DrainedInv, AnsweredInv
  <2>. QED BY <2>4, <2>5 DEF ContextInv, StreamInv
<1>. QED BY <1>2, <1>3, <1>4, <1>5, <1>6 DEF IInv, ContextInv, StreamInv

\* The inductive invariant holds throughout: wherever a context is on the way to
\* being closed, it is there once.
THEOREM Invariance == Spec => []IInv
<1>1. IInv <=> TypeOK /\ MonitorInv /\ CountInv /\ ExecutorInv /\ AllContexts
  BY DEF IInv, AllContexts, ContextInv, StreamInv
<1>2. IInv /\ [Next]_vars => IInv'
  <2>1. ASSUME IInv, [Next]_vars PROVE IInv'
    <3>1. TypeOK /\ MonitorInv /\ CountInv /\ ExecutorInv /\ AllContexts
      BY <1>1, <2>1
    <3>2. TypeOK' /\ MonitorInv' /\ CountInv' /\ ExecutorInv' /\ AllContexts'
      BY <2>1, <3>1, TypeStep, MonitorStep, CountStep, ExecutorStep, ContextStep
    <3>. QED BY <3>2 DEF IInv, AllContexts, ContextInv, StreamInv
  <2>. QED BY <2>1
<1>. QED BY <1>2, InitInv, PTL DEF Spec

\* Every variable has its type; the count of requests is never negative, although
\* an interrupted stream leaves it one too high.
THEOREM TypeCorrect == Spec => []TypeOK
<1>1. IInv => TypeOK
  BY DEF IInv
<1>. QED BY <1>1, Invariance, PTL

\* The count of active requests covers every stream that is not over.
THEOREM StreamsAlwaysCounted == Spec => []StreamsAreCounted
<1>1. IInv => StreamsAreCounted
  BY DEF IInv, CountInv, Live, StreamsAreCounted
<1>. QED BY <1>1, Invariance, PTL

\* close_of_work() runs at most once for a context, however often finish_request()
\* is called, for any requests and calls between agents.
THEOREM WorkIsClosedOnce == Spec => []ClosedOnce
<1>1. IInv => ClosedOnce
  <2>1. ASSUME IInv, NEW c \in Contexts PROVE closes[c] <= 1
    BY <2>1 DEF IInv, StageInv, Unclosed, Finished, ClosesItself, HandsOver, HandedOver, InPool,
                MonitorClosing, Closed
  <2>. QED BY <2>1 DEF ClosedOnce
<1>. QED BY <1>1, Invariance, PTL

\* The resources of event work stay open until its chat is done.
THEOREM EventsAreClosedAfterWork == Spec => []EventClosedAfterWork
<1>1. IInv => EventClosedAfterWork
  <2>1. ASSUME IInv, HasMonitor, NEW c \in Contexts, invocation[c] = "event", closes[c] > 0
        PROVE  workDone[c]
    <3>1. closes[c] = 1
      BY <2>1 DEF IInv, StageInv, Unclosed, Finished, ClosesItself, HandsOver, HandedOver, InPool,
                  MonitorClosing, Closed
    <3>. QED BY <2>1, <3>1 DEF IInv, WorkInv
  <2>. QED BY <2>1 DEF EventClosedAfterWork
<1>. QED BY <1>1, Invariance, PTL

\* A stream that ends by itself has brought its answer, in every exchange that no
\* interrupted one left messages to.
THEOREM AnswersComeBeforeTheEnd == Spec => []AnsweredAtEnd
<1>1. IInv => AnsweredAtEnd
  BY DEF IInv, AnsweredInv, Clean, AnsweredAtEnd
<1>. QED BY <1>1, Invariance, PTL

\* The executor of a request goes back when its work is closed, its queue taken
\* away and its reader gone.
THEOREM ExecutorsAreReturnedLast == Spec => []ReturnedAfterClose
<1>1. IInv => ReturnedAfterClose
  <2>1. ASSUME IInv, NEW r \in Roots \ Reused, executor[r] = "returned"
        PROVE  closes[r] = 1 /\ ~hasQueue[r] /\ consumer[r] # "reading"
    <3>1. r \in Contexts /\ closes[r] = 1 /\ exchanges[r] \in Nat
      BY <2>1 DEF IInv, ExecutorInv, Contexts, TypeOK
    <3>2. StageInv(r) /\ NewInv(r) /\ FirstInv(r)
      BY <2>1, <3>1 DEF IInv
    <3>3. Closed(r) /\ Finished(r) /\ ~Unclosed(r)
      BY <3>1, <3>2 DEF StageInv, Unclosed, Finished, ClosesItself, HandsOver, HandedOver, InPool,
                        MonitorClosing
    <3>4. ~QueueToClose(r)
      BY <3>1, <3>3, StepsThatCloseQueue DEF QueueToClose, Closed
    <3>5. exchanges[r] = 1
      BY <2>1, <3>1, <3>2, <3>3 DEF NewInv
    <3>. QED BY <3>1, <3>2, <3>3, <3>4, <3>5 DEF FirstInv
  <2>. QED BY <2>1 DEF ReturnedAfterClose
<1>. QED BY <1>1, Invariance, PTL
=============================================================================

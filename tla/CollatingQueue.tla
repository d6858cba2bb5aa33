--------------------------- MODULE CollatingQueue ---------------------------
(***************************************************************************)
(* AsyncCollatingQueue: a FIFO queue with a marker for its end.  The       *)
(* operators are the methods; a queue is a record.  Every producer of one  *)
(* queue runs on one event loop and the queue has no capacity, so the      *)
(* check of last_item_sent and the put are one step.                       *)
(*                                                                         *)
(* A put on a closed queue raises.  Closing drains the queue (janus).      *)
(***************************************************************************)
EXTENDS Sequences

CONSTANT END_MESSAGE   \* the marker; not an item

EmptyQueue == [items |-> <<>>, lastItemSent |-> FALSE, closed |-> FALSE]

QueuesOf(Items) ==
  [items : Seq(Items \cup {END_MESSAGE}), lastItemSent : BOOLEAN, closed : BOOLEAN]

(* put() raises: nothing tells the producer to stop, and the queue is closed. *)
PutFails(q) == ~q.lastItemSent /\ q.closed

(* Mutant: put() does not look at last_item_sent. *)
AlwaysAccepts(q) == TRUE

Accepts(q) == ~q.lastItemSent

(* put() of several items in a row, each dropped without a word once the    *)
(* last item was sent.                                                      *)
PutAll(q, items) == IF Accepts(q) THEN [q EXCEPT !.items = @ \o items] ELSE q

Put(q, item) == PutAll(q, <<item>>)

(* put_final_item(): the flag is set before the marker is put. *)
PutFinalItem(q) ==
  IF q.lastItemSent THEN q
  ELSE [q EXCEPT !.lastItemSent = TRUE,
                 !.items = IF q.closed THEN @ ELSE Append(@, END_MESSAGE)]

IsFinalItem(item) == item = END_MESSAGE

HasItem(q) == q.items # <<>>
NextItem(q) == Head(q.items)
WithoutNext(q) == [q EXCEPT !.items = Tail(@)]

CloseQueue(q) == [q EXCEPT !.closed = TRUE, !.items = <<>>]

(* reset(): items may be put again. *)
ResetQueue(q) == [q EXCEPT !.lastItemSent = FALSE]
=============================================================================

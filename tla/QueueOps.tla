------------------------------ MODULE QueueOps ------------------------------
(***************************************************************************)
(* The data of one BoundedQueue<T> (include/pnad/system/BoundedQueue.hpp)   *)
(* and what each of its operations does to it once the queue's mutex is     *)
(* held.  Who may run an operation when, and who is woken by it, is the     *)
(* business of BoundedQueue.tla; LivePipeline.tla owns two such queues.     *)
(***************************************************************************)
EXTENDS Naturals, Sequences

\* A fresh queue: open and empty.
NewQueue == [items |-> <<>>, closed |-> FALSE, highWatermark |-> 0]

\* highWatermark() is a true maximum: never below the queue's length, never
\* above its capacity.
QueueType(Items, capacity) ==
  {q \in [items : Seq(Items), closed : BOOLEAN, highWatermark : 0 .. capacity] :
     Len(q.items) <= q.highWatermark}

IsEmpty(q) == q.items = <<>>

HasRoom(q, capacity) == Len(q.items) < capacity

\* push_front in place of push_back.
PushedInFront(q, item) ==
  [items |-> <<item>> \o q.items,
   closed |-> q.closed,
   highWatermark |-> IF Len(q.items) + 1 > q.highWatermark THEN Len(q.items) + 1
                                                           ELSE q.highWatermark]

\* push_back, then updateHighWatermark.
Pushed(q, item) ==
  LET items == Append(q.items, item)
  IN  [items |-> items,
       closed |-> q.closed,
       highWatermark |-> IF Len(items) > q.highWatermark THEN Len(items)
                                                         ELSE q.highWatermark]

\* The queue without its front item.
Popped(q) ==
  [items |-> Tail(q.items), closed |-> q.closed, highWatermark |-> q.highWatermark]

Closed(q) ==
  [items |-> q.items, closed |-> TRUE, highWatermark |-> q.highWatermark]
=============================================================================

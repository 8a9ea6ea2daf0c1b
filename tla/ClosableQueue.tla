---------------------------- MODULE ClosableQueue ----------------------------
(***************************************************************************)
(* What BoundedQueue<T> promises its callers, free of mutexes and condition *)
(* variables: a first-in first-out buffer of bounded size which, once       *)
(* closed, accepts nothing more but still gives back everything it holds.   *)
(***************************************************************************)
EXTENDS Naturals, Sequences

CONSTANTS Values, Capacity

VARIABLES items, closed

vars == <<items, closed>>

Init ==
  /\ items = <<>>
  /\ closed = FALSE

Push ==
  /\ ~closed
  /\ Len(items) < Capacity
  /\ \E v \in Values : items' = Append(items, v)
  /\ UNCHANGED closed

Pop ==
  /\ items # <<>>
  /\ items' = Tail(items)
  /\ UNCHANGED closed

Close ==
  /\ closed' = TRUE
  /\ UNCHANGED items

Next == Push \/ Pop \/ Close

Spec == Init /\ [][Next]_vars
=============================================================================

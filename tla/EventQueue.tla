----------------------------- MODULE EventQueue -----------------------------
(***************************************************************************)
(* What app_scheduler.h promises to its users: a bounded first-in          *)
(* first-out queue of events.  An event that app_sched_event_put accepts   *)
(* is handed to its handler exactly once, in the order of acceptance; its  *)
(* data stays as it was put until the handler has returned, and only then  *)
(* is its place in the queue free again.  Nothing is said of slots,        *)
(* indices, buffers or interrupt levels.                                   *)
(***************************************************************************)
EXTENDS Naturals, Sequences

CONSTANTS
    Events,      \* what can be queued: a handler and its data
    Capacity,    \* the number of events that fit
    None         \* no handler is running

VARIABLES
    queue,       \* the accepted events whose handler has not returned
    running      \* the event a handler is working on, or None

vars == <<queue, running>>

Init ==
    /\ queue = <<>>
    /\ running = None

Accept(e) ==
    /\ Len(queue) < Capacity
    /\ queue' = Append(queue, e)
    /\ UNCHANGED running

Start ==
    /\ running = None
    /\ queue # <<>>
    /\ running' = Head(queue)
    /\ UNCHANGED queue

Finish ==
    /\ running # None
    /\ queue' = Tail(queue)
    /\ running' = None

Next ==
    \/ \E e \in Events : Accept(e)
    \/ Start
    \/ Finish

Spec == Init /\ [][Next]_vars

=============================================================================

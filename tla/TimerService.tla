---------------------------- MODULE TimerService ----------------------------
(***************************************************************************)
(* What app_timer.h promises: start and stop requests are queued and       *)
(* carried out in order, a start of a timer that is running is ignored, a  *)
(* timer that was asked to stop does not call its handler any more, and a  *)
(* running timer calls its handler when its timeout has passed - never     *)
(* earlier, and never more than Jitter ticks later.  There is no counter   *)
(* that wraps, no list and no interrupt here, only the time that is left.  *)
(***************************************************************************)
EXTENDS Integers, Sequences

CONSTANTS
    Timers,        \* the timer ids
    Repeated,      \* the timers created with APP_TIMER_MODE_REPEATED
    Timeouts,      \* Timeouts[t]: the values of timeout_ticks given for t
    QueueSize,     \* how many requests can be outstanding
    Jitter,        \* how late a handler may be called, in ticks
    None           \* no timer, no ticks: the timer is not running

VARIABLES
    requests,      \* the requests not yet carried out, oldest first
    due            \* due[t]: ticks left until t times out and ticks from then to
                   \* the next timeout (0 if there is none), or None

vars == <<requests, due>>

Request(type, t, ticks) == [type |-> type, timer |-> t, ticks |-> ticks, age |-> 0]

Init ==
    /\ requests = <<>>
    /\ due = [t \in Timers |-> None]

Ask(r) ==
    /\ Len(requests) < QueueSize
    /\ requests' = Append(requests, r)
    /\ UNCHANGED due

StopAsked(t) == \E i \in 1 .. Len(requests) :
                    requests[i].type = "stop" /\ requests[i].timer = t

\* What is left of a timeout of so many ticks that was asked for age ticks ago.
Left(t, ticks, age) == [left  |-> ticks - age,
                        every |-> IF t \in Repeated THEN ticks ELSE 0]

\* The oldest request is carried out.
Perform ==
    /\ requests # <<>>
    /\ requests' = Tail(requests)
    /\ LET r == Head(requests) IN
       \/ /\ r.type = "start" /\ due[r.timer] = None
          /\ due' = [due EXCEPT ![r.timer] = Left(r.timer, r.ticks, r.age)]
       \/ /\ r.type = "start" /\ due[r.timer] # None
          /\ UNCHANGED due
       \/ /\ r.type = "stop"
          /\ due' = [due EXCEPT ![r.timer] = None]
       \/ /\ r.type = "stop_all"
          /\ due' = [t \in Timers |-> None]

AfterTimeout(d) == IF d.every = 0 THEN None ELSE [d EXCEPT !.left = @ + d.every]

OneTickOn(d) == IF d = None THEN None ELSE [d EXCEPT !.left = @ - 1]

\* The handler of t is called.
Timeout(t) ==
    /\ due[t] # None /\ due[t].left <= 0
    /\ ~StopAsked(t)
    /\ due' = [due EXCEPT ![t] = AfterTimeout(@)]
    /\ UNCHANGED requests

\* A tick passes; it may not pass over a handler that is Jitter ticks late.
Tick ==
    /\ \A t \in Timers : due[t] # None /\ ~StopAsked(t) => due[t].left > -Jitter
    /\ due' = [t \in Timers |-> OneTickOn(due[t])]
    /\ requests' = [i \in DOMAIN requests |->
                      IF requests[i].type = "start"
                      THEN [requests[i] EXCEPT !.age = @ + 1] ELSE requests[i]]

Next ==
    \/ \E t \in Timers : \/ \E d \in Timeouts[t] : Ask(Request("start", t, d))
                         \/ Ask(Request("stop", t, 0))
                         \/ Timeout(t)
    \/ Ask(Request("stop_all", None, 0))
    \/ Perform
    \/ Tick

Spec == Init /\ [][Next]_vars

=============================================================================

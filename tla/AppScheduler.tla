---------------------------- MODULE AppScheduler ----------------------------
(***************************************************************************)
(* components/libraries/scheduler/app_scheduler.c.                         *)
(*                                                                         *)
(* Interrupt handlers and the main loop put events into a ring of          *)
(* QueueSize + 1 slots; the main loop alone takes them out and runs their  *)
(* handlers.  A slot is reserved with interrupts off, but it is filled     *)
(* after they are on again, so a put can be interrupted by another put at  *)
(* each point of the filling.                                              *)
(*                                                                         *)
(* Context 0 is the main loop, context c > 0 the interrupt handlers of     *)
(* the c-th priority level.  A context takes a step only while no higher   *)
(* context is inside app_sched_event_put: that is what preemption on one   *)
(* core means.                                                             *)
(***************************************************************************)
EXTENDS Naturals, Sequences, FiniteSets

CONSTANTS
    QueueSize,     \* m_queue_size: the queue_size given to app_sched_init
    IndexRange,    \* number of values of the uint8_t queue indices (256)
    Levels,        \* interrupt priority levels above the main loop
    Handlers,      \* event handlers
    Payloads,      \* event data, each with its size
    Oversized,     \* the payloads longer than m_queue_event_size
    NoData,        \* event_data_size = 0
    Unset,         \* content of a slot that was never written
    MaxPaused      \* saturation of m_scheduler_paused_counter (UINT32_MAX);
                   \* 0 when APP_SCHEDULER_WITH_PAUSE is 0

ASSUME SchedulerAssumption ==
    /\ QueueSize \in Nat \ {0}
    /\ IndexRange \in Nat \ {0}
    /\ Levels \in Nat
    /\ MaxPaused \in Nat
    /\ Oversized \subseteq Payloads
    /\ NoData \notin Payloads

VARIABLES
    start,       \* m_queue_start_index
    end,         \* m_queue_end_index
    handlerOf,   \* m_queue_event_headers[i].handler
    dataOf,      \* m_queue_event_data at i, with event_data_size
    utilization, \* m_max_queue_utilization
    paused,      \* m_scheduler_paused_counter
    put,         \* put[c]: where context c is inside app_sched_event_put
    exec,        \* where the main loop is inside app_sched_execute
    ret          \* result of the last app_sched_event_put that returned

vars == <<start, end, handlerOf, dataOf, utilization, paused, put, exec, ret>>

Contexts == 0 .. Levels
Slots    == 0 .. QueueSize
Data     == (Payloads \ Oversized) \cup {NoData}
Events   == [handler : Handlers, data : Data]

PutIdle == [pc |-> "idle"]
PutStates ==
    {PutIdle} \cup [pc : {"reserved", "handler_written"}, index : Slots, event : Events]

ExecIdle == [pc |-> "loop"]
ExecStates ==
    {ExecIdle} \cup [pc : {"handler"}, index : Slots, handler : Handlers \cup {Unset}]

-----------------------------------------------------------------------------
(* The index arithmetic.  next_index returns a uint8_t, whatever the size. *)

\* Fault: off by one, the index leaves the ring before it wraps.
next_index_Overrun(i) == (IF i <= QueueSize THEN i + 1 ELSE 0) % IndexRange

next_index(i) == (IF i < QueueSize THEN i + 1 ELSE 0) % IndexRange

QueueFull  == next_index(end) = start
QueueEmpty == end = start

\* The number of occupied entries, as app_sched_queue_space_get and
\* queue_utilization_check compute it.
Utilization(s, e) == IF e >= s THEN e - s ELSE (QueueSize + 1 - s) + e

app_sched_queue_space_get == QueueSize - Utilization(start, end)

-----------------------------------------------------------------------------
\* Fault: an execution that does not wait for the put it interrupted, as when
\* app_sched_execute is called from an interrupt handler.
Runs_AnyTime(c) == TRUE

\* A context runs when no context above it is in the middle of a put.
Runs(c) == \A d \in Contexts : d > c => put[d].pc = "idle"

\* A call may be made by a context that runs and is not inside a put already.
Calls(c) == Runs(c) /\ put[c].pc = "idle"

\* The state after app_sched_init.
Init ==
    /\ start = 0 /\ end = 0
    /\ handlerOf = [i \in Slots |-> Unset]
    /\ dataOf = [i \in Slots |-> Unset]
    /\ utilization = 0
    /\ paused = 0
    /\ put = [c \in Contexts |-> PutIdle]
    /\ exec = ExecIdle
    /\ ret = "none"

-----------------------------------------------------------------------------
(* app_sched_event_put.                                                    *)

\* The event does not fit a slot: rejected before the critical region.
RejectLength(c) ==
    /\ Calls(c)
    /\ Oversized # {}
    /\ ret' = "NRF_ERROR_INVALID_LENGTH"
    /\ UNCHANGED <<start, end, handlerOf, dataOf, utilization, paused, put, exec>>

\* Fault: the utilization is recorded before the index moves.
Reserve_EarlyUtilization(c, e) ==
    /\ Calls(c)
    /\ ~QueueFull
    /\ put' = [put EXCEPT ![c] = [pc |-> "reserved", index |-> end, event |-> e]]
    /\ end' = next_index(end)
    /\ utilization' = IF Utilization(start, end) > utilization
                      THEN Utilization(start, end) ELSE utilization
    /\ UNCHANGED <<start, handlerOf, dataOf, paused, exec, ret>>

\* The critical region of a put that finds room: the slot is taken and the
\* high-water mark updated.
Reserve(c, e) ==
    /\ Calls(c)
    /\ ~QueueFull
    /\ put' = [put EXCEPT ![c] = [pc |-> "reserved", index |-> end, event |-> e]]
    /\ end' = next_index(end)
    /\ utilization' = IF Utilization(start, end') > utilization
                      THEN Utilization(start, end') ELSE utilization
    /\ UNCHANGED <<start, handlerOf, dataOf, paused, exec, ret>>

\* The critical region of a put that finds the queue full.
Refuse(c) ==
    /\ Calls(c)
    /\ QueueFull
    /\ ret' = "NRF_ERROR_NO_MEM"
    /\ UNCHANGED <<start, end, handlerOf, dataOf, utilization, paused, put, exec>>

\* After the critical region: the handler goes into the slot's header...
WriteHandler(c) ==
    /\ Runs(c) /\ put[c].pc = "reserved"
    /\ handlerOf' = [handlerOf EXCEPT ![put[c].index] = put[c].event.handler]
    /\ put' = [put EXCEPT ![c].pc = "handler_written"]
    /\ UNCHANGED <<start, end, dataOf, utilization, paused, exec, ret>>

\* ...then the data and its size, and the put returns.
WriteData(c) ==
    /\ Runs(c) /\ put[c].pc = "handler_written"
    /\ dataOf' = [dataOf EXCEPT ![put[c].index] = put[c].event.data]
    /\ put' = [put EXCEPT ![c] = PutIdle]
    /\ ret' = "NRF_SUCCESS"
    /\ UNCHANGED <<start, end, handlerOf, utilization, paused, exec>>

-----------------------------------------------------------------------------
(* app_sched_execute, called by the main loop.                             *)

\* Fault: the slot is given back when the handler is called.
ExecuteFetch_FreesSlot ==
    /\ Calls(0) /\ exec.pc = "loop"
    /\ paused = 0
    /\ ~QueueEmpty
    /\ exec' = [pc |-> "handler", index |-> start, handler |-> handlerOf[start]]
    /\ start' = next_index(start)
    /\ UNCHANGED <<end, handlerOf, dataOf, utilization, paused, put, ret>>

\* One turn of the loop: the head of the queue is fetched and its handler
\* called with a pointer to the data in the slot.
ExecuteFetch ==
    /\ Calls(0) /\ exec.pc = "loop"
    /\ paused = 0
    /\ ~QueueEmpty
    /\ exec' = [pc |-> "handler", index |-> start, handler |-> handlerOf[start]]
    /\ UNCHANGED <<start, end, handlerOf, dataOf, utilization, paused, put, ret>>

\* Fault: a handler that put an event is taken not to be done.
ExecuteDone_OnlyIfLast ==
    /\ Calls(0) /\ exec.pc = "handler"
    /\ start' = IF next_index(start) = end THEN end ELSE start
    /\ exec' = ExecIdle
    /\ UNCHANGED <<end, handlerOf, dataOf, utilization, paused, put, ret>>

\* The handler has returned: only now is the slot given back.
ExecuteDone ==
    /\ Calls(0) /\ exec.pc = "handler"
    /\ start' = next_index(start)
    /\ exec' = ExecIdle
    /\ UNCHANGED <<end, handlerOf, dataOf, utilization, paused, put, ret>>

-----------------------------------------------------------------------------
app_sched_pause(c) ==
    /\ Calls(c)
    /\ paused < MaxPaused
    /\ paused' = paused + 1
    /\ UNCHANGED <<start, end, handlerOf, dataOf, utilization, put, exec, ret>>

app_sched_resume(c) ==
    /\ Calls(c)
    /\ paused > 0
    /\ paused' = paused - 1
    /\ UNCHANGED <<start, end, handlerOf, dataOf, utilization, put, exec, ret>>

-----------------------------------------------------------------------------
Next ==
    \/ \E c \in Contexts : \/ RejectLength(c)
                           \/ \E e \in Events : Reserve(c, e)
                           \/ Refuse(c)
                           \/ WriteHandler(c)
                           \/ WriteData(c)
                           \/ app_sched_pause(c)
                           \/ app_sched_resume(c)
    \/ ExecuteFetch
    \/ ExecuteDone

Spec == Init /\ [][Next]_vars

\* The main loop calls app_sched_execute again and again, a handler that was
\* entered returns, and the interrupt load leaves the lower contexts some time:
\* strong fairness, because every interrupt disables their steps for a while.
Fairness ==
    /\ \A c \in Contexts : SF_vars(WriteHandler(c)) /\ SF_vars(WriteData(c))
    /\ SF_vars(ExecuteFetch)
    /\ SF_vars(ExecuteDone)

FairSpec == Spec /\ Fairness

-----------------------------------------------------------------------------
(* Properties.                                                             *)

\* Each variable has its type.
TypeOK ==
    /\ start \in Slots /\ end \in Slots
    /\ handlerOf \in [Slots -> Handlers \cup {Unset}]
    /\ dataOf \in [Slots -> Data \cup {Unset}]
    /\ utilization \in 0 .. QueueSize
    /\ paused \in 0 .. MaxPaused
    /\ put \in [Contexts -> PutStates]
    /\ exec \in ExecStates
    /\ ret \in {"none", "NRF_SUCCESS", "NRF_ERROR_NO_MEM", "NRF_ERROR_INVALID_LENGTH"}

\* The slots that are taken: reserved and not yet given back.
Occupied == {i \in Slots : IF start <= end THEN start <= i /\ i < end
                                           ELSE start <= i \/ i < end}

Filling(c, i) == put[c].pc # "idle" /\ put[c].index = i

\* What a slot holds, or will hold when the put that reserved it returns.
EventAt(i) ==
    IF \E c \in Contexts : Filling(c, i)
    THEN put[CHOOSE c \in Contexts : Filling(c, i)].event
    ELSE [handler |-> handlerOf[i], data |-> dataOf[i]]

None == [handler |-> "none", data |-> "none"]

\* The k-th slot from start, round the ring.
SlotAt(k) == IF start + k <= QueueSize + 1 THEN start + k - 1
                                           ELSE start + k - (QueueSize + 2)

\* The abstract queue is the ring from start to end; the event being handled is
\* the handler that was called with the data its pointer shows it.
QueueBar == [k \in 1 .. Utilization(start, end) |-> EventAt(SlotAt(k))]
RunningBar == IF exec.pc = "loop" THEN None
              ELSE [handler |-> exec.handler, data |-> dataOf[exec.index]]

Queue == INSTANCE EventQueue WITH
    Capacity <- QueueSize, queue <- QueueBar, running <- RunningBar

\* The ring implements the queue of app_scheduler.h: no put, however often it is
\* interrupted, overtakes, loses, repeats or tears an event, and the slot the
\* running handler reads is not written before the handler has returned.
ImplementsQueue == Queue!Spec

\* Two puts in progress never fill the same slot, and each fills a slot that is
\* taken and that no running handler reads.
SlotsAreExclusive ==
    \A c \in Contexts : put[c].pc # "idle" =>
        /\ put[c].index \in Occupied
        /\ exec.pc = "handler" => put[c].index # exec.index
        /\ \A d \in Contexts : Filling(d, put[c].index) => d = c

\* app_sched_queue_space_get is the number of slots a put can still take, it is
\* zero exactly when a put would be refused, and the high-water mark of the
\* profiler is never below the number of slots that are taken.
SpaceIsExact ==
    /\ app_sched_queue_space_get = QueueSize - Cardinality(Occupied)
    /\ app_sched_queue_space_get = 0 <=> QueueFull
    /\ utilization >= Cardinality(Occupied)

\* Unless the scheduler is paused again and again, every slot that is taken is
\* handed to a handler and given back: no event is forgotten in the ring, not
\* even one that was put while its predecessor was being handled.
EveryEventIsHandled ==
    <>[](paused = 0) => \A i \in Slots : i \in Occupied ~> i \notin Occupied

=============================================================================

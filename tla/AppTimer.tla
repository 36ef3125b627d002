------------------------------ MODULE AppTimer ------------------------------
(***************************************************************************)
(* components/libraries/timer/app_timer.c, as this image configures it     *)
(* (APP_TIMER_CONFIG_USE_SCHEDULER 0, APP_TIMER_KEEPS_RTC_ACTIVE 0).       *)
(*                                                                         *)
(* All timers share the one compare register of RTC1.  API calls put       *)
(* operations into a queue and pend the software interrupt; its handler    *)
(* keeps the list of running timers, each with the ticks that separate it  *)
(* from its predecessor.  The RTC1 handler calls the timeout handlers and  *)
(* leaves it to the software interrupt to take the expired timers out.     *)
(* Both handlers have the same priority: they never interrupt each other,  *)
(* but ticks pass while they run.                                          *)
(*                                                                         *)
(* due and the age of an operation record what happened, for the           *)
(* comparison with TimerService; no guard of the code depends on them.     *)
(* The fields of a timer that is not in the list, and so are never read    *)
(* before they are set, have the values of Unlisted.                       *)
(***************************************************************************)
EXTENDS Integers, Sequences, FiniteSets

CONSTANTS
    Timers,         \* the timer_node_t instances, all created
    Repeated,       \* those with APP_TIMER_MODE_REPEATED
    Timeouts,       \* Timeouts[t]: the values of timeout_ticks given for t
    OpQueueSize,    \* APP_TIMER_CONFIG_OP_QUEUE_SIZE
    CounterRange,   \* MAX_RTC_COUNTER_VAL + 1
    CompareOffset,  \* RTC_COMPARE_OFFSET_MIN
    MaxLatency,     \* ticks that pass while interrupt work is outstanding
    Usage,          \* which careless calls the application makes, see below
    None            \* no timer, no ticks, not running

ASSUME TimerAssumption ==
    /\ Repeated \subseteq Timers
    /\ Timeouts \in [Timers -> SUBSET (Nat \ {0})]
    /\ OpQueueSize \in Nat \ {0}
    /\ CounterRange \in Nat \ {0}
    /\ CompareOffset \in Nat \ {0}
    /\ MaxLatency \in Nat
    /\ Usage \subseteq {"stop_after_start", "stop_when_full", "restart_sooner"}

ASSUME NoneAssumption ==
    None \notin Timers /\ None \notin Int /\ None \notin [left : Int, every : Nat]

\* What one setting of CC[0] may add to the lateness of the first timer.
Delay == CompareOffset + MaxLatency - 1

\* Late(i): how late the i-th timer of the list may be.  A timer that is overdue
\* when it is stopped has delayed the compare event of its successor.
Late(i) == (Cardinality(Timers) - i + 1) * Delay

\* The most ticks that may lie ahead of the last interrupt.
Span == CounterRange - MaxLatency - Late(1) - 1

HalfRange == (CounterRange - 1) \div 2

\* How late a handler may be called: the lateness of the first timer, the latency
\* of the interrupt, and that of the software interrupt, for which a start waited
\* in the queue.  (app_timer.h:187-188 gives three ticks for all of this.)
Jitter == Late(1) + 2 * MaxLatency

\* The counter can tell the times this program uses apart: a repeated timeout is
\* longer than it can be late, and none reaches half the counter's range (256
\* seconds).  A single-shot one may be shorter than the latency.
TimesFit ==
    /\ IsFiniteSet(Timers)
    /\ CounterRange >= 3
    /\ MaxLatency < CounterRange
    /\ \A t \in Timers : \A d \in Timeouts[t] :
         /\ t \in Repeated => d > Late(1) + MaxLatency
         /\ d + HalfRange - 1 <= Span

ASSUME TimingAssumption == TimesFit

VARIABLES
    counter,        \* NRF_RTC1->COUNTER
    cc,             \* NRF_RTC1->CC[0]
    rtcRunning,     \* m_rtc1_running; the compare interrupt is enabled with it
    rtcPending,     \* RTC1 interrupt pending
    swiPending,     \* software interrupt pending
    list,           \* from mp_timer_id_head along the next pointers
    node,           \* node[t]: the other fields of the timer_node_t
    ops,            \* m_op_queue, from first to last
    latest,         \* m_ticks_latest
    expired,        \* the unread entry of m_ticks_elapsed, or None
    rtcReset,       \* m_rtc1_reset
    isr,            \* where the RTC1 or the SWI handler is
    lag,            \* ticks since interrupt work is outstanding
    due             \* due[t] of TimerService

hw      == <<counter, cc, rtcRunning, rtcPending, swiPending>>
lists   == <<list, node, latest, expired, rtcReset>>
vars    == <<hw, lists, ops, isr, lag, due>>

Ticks == 0 .. CounterRange - 1
Unlisted == [toExpire |-> 0, atStart |-> 0, first |-> 0, periodic |-> 0, isRunning |-> FALSE]
IsrIdle == [pc |-> "idle"]

-----------------------------------------------------------------------------
(* Arithmetic on the 24-bit counter, and the list.                         *)

ticks_diff_get(now, old) == (now - old) % CounterRange

\* after[i]: the ticks from the last interrupt to the i-th timer of the list.
After(l, n) == LET after[i \in 0 .. Len(l)] ==
                     IF i = 0 THEN 0 ELSE after[i - 1] + n[l[i]].toExpire
               IN  after

\* again[i]: the repeated ones among the first i timers of the list, last first.
Again(l, n) == LET again[i \in 0 .. Len(l)] ==
                     IF i = 0 THEN <<>>
                     ELSE IF n[l[i]].periodic # 0 THEN <<l[i]>> \o again[i - 1]
                     ELSE again[i - 1]
               IN  again

Listed(t) == \E i \in 1 .. Len(list) : list[i] = t

\* Fault: the successor keeps its distance to the old predecessor.
timer_list_insert_NoDelta(l, n, t) ==
    LET after == After(l, n)
        k == CHOOSE i \in 0 .. Len(l) :
               /\ \A j \in 1 .. i : after[j] < n[t].toExpire
               /\ i < Len(l) => after[i + 1] >= n[t].toExpire
    IN  [list |-> SubSeq(l, 1, k) \o <<t>> \o SubSeq(l, k + 1, Len(l)),
         node |-> [n EXCEPT ![t].toExpire = @ - after[k]]]

\* Timer t goes before the first timer that does not expire before it; both
\* become relative to their new predecessors.
timer_list_insert(l, n, t) ==
    LET after == After(l, n)
        ticks == n[t].toExpire
        k     == CHOOSE i \in 0 .. Len(l) :
                   /\ \A j \in 1 .. i : after[j] < ticks
                   /\ i < Len(l) => after[i + 1] >= ticks
    IN  [list |-> SubSeq(l, 1, k) \o <<t>> \o SubSeq(l, k + 1, Len(l)),
         node |-> [u \in Timers |->
                     IF u = t THEN [n[t] EXCEPT !.toExpire = ticks - after[k]]
                     ELSE IF k < Len(l) /\ u = l[k + 1]
                          THEN [n[u] EXCEPT !.toExpire = after[k + 1] - ticks]
                          ELSE n[u]]]

\* Ticks from latest to the first expiry of a timer started at "at".  A start
\* that seems to lie more than half the counter range ahead was before latest.
ticks_to_expire(at, ticks) ==
    IF ticks_diff_get(at, latest) < HalfRange
    THEN ticks_diff_get(at, latest) + ticks
    ELSE LET delta == ticks_diff_get(latest, at)
         IN  IF ticks > delta THEN ticks - delta ELSE 0

-----------------------------------------------------------------------------
(* The history of a timer, as in TimerService.                             *)

Left(t, ticks, age) == [left  |-> ticks - age,
                        every |-> IF t \in Repeated THEN ticks ELSE 0]
AfterTimeout(d) == IF d.every = 0 THEN None ELSE [d EXCEPT !.left = @ + d.every]
OneTickOn(d) == IF d = None THEN None ELSE [d EXCEPT !.left = @ - 1]

-----------------------------------------------------------------------------
(* After app_timer_init and app_timer_create of each timer.                *)

Init ==
    /\ counter = 0 /\ cc = 0
    /\ rtcRunning = FALSE /\ rtcPending = FALSE /\ swiPending = FALSE
    /\ list = <<>>
    /\ node = [t \in Timers |-> Unlisted]
    /\ ops = <<>>
    /\ latest = 0 /\ expired = None /\ rtcReset = FALSE
    /\ isr = IsrIdle /\ lag = 0
    /\ due = [t \in Timers |-> None]

\* Interrupt work is outstanding.
Busy == rtcPending \/ swiPending \/ isr.pc # "idle"

\* The counter advances; on reaching CC[0] it pends the interrupt.
Tick ==
    /\ Busy => lag < MaxLatency
    /\ lag' = IF Busy THEN lag + 1 ELSE 0
    /\ counter' = IF rtcRunning THEN (counter + 1) % CounterRange ELSE counter
    /\ rtcPending' = (rtcPending \/ (rtcRunning /\ counter' = cc))
    /\ due' = [t \in Timers |-> OneTickOn(due[t])]
    /\ ops' = [i \in DOMAIN ops |-> IF ops[i].type = "start"
                                    THEN [ops[i] EXCEPT !.age = @ + 1] ELSE ops[i]]
    /\ UNCHANGED <<cc, rtcRunning, swiPending, lists, isr>>

-----------------------------------------------------------------------------
(* The API.  A call comes from the main loop or another handler of the     *)
(* same priority, or from a timeout handler: nothing in this program calls *)
(* the module from an interrupt above it.                                  *)

MayCall == isr.pc \in {"idle", "handler"}

Queued(type, t) == \E i \in 1 .. Len(ops) : ops[i].type = type /\ ops[i].timer = t

\* What a careful application avoids, unless Usage says it does not: to stop a
\* timer after a start that will be ignored because the timer runs.
FirstOpIs(type, t) == \E i \in 1 .. Len(ops) :
                         /\ ops[i].type = type /\ ops[i].timer = t
                         /\ \A j \in 1 .. i - 1 : ops[j].timer # t
StopsIgnoredStart(t) == due[t] # None /\ FirstOpIs("start", t)

Enqueue(op) ==
    /\ ops' = Append(ops, op)
    /\ swiPending' = TRUE
    /\ UNCHANGED <<counter, cc, rtcRunning, rtcPending, list, latest, expired,
                   rtcReset, isr, lag, due>>

\* Fault: the full queue is not noticed.
app_timer_start_Unchecked(t, ticks) ==
    /\ MayCall
    /\ Len(ops) <= OpQueueSize
    /\ Enqueue([type |-> "start", timer |-> t, at |-> counter, ticks |-> ticks, age |-> 0])
    /\ UNCHANGED node

\* ...or to give a timer whose stop waits in the queue less time than it has left:
\* if the timer is still the first of the list when the queue is empty, CC[0] is
\* not set again.
RestartsSooner(t, ticks) ==
    /\ Queued("stop", t) \/ Queued("stop_all", None)
    /\ \E i \in 1 .. Len(list) :
         list[i] = t /\ ticks < After(list, node)[i] - ticks_diff_get(counter, latest)

\* (With the queue full, app_timer_start returns NRF_ERROR_NO_MEM and changes
\* nothing.)  A restriction says how this program uses the module: no timer is
\* started when the last timeout is half the range of the counter ago, which is
\* 256 seconds, while the sampling timer has a period of one.
app_timer_start(t, ticks) ==
    /\ MayCall
    /\ RestartsSooner(t, ticks) => "restart_sooner" \in Usage
    /\ ticks_diff_get(counter, latest) < HalfRange
    /\ Len(ops) < OpQueueSize
    /\ Enqueue([type |-> "start", timer |-> t, at |-> counter, ticks |-> ticks, age |-> 0])
    /\ UNCHANGED node

\* Fault: is_running is left to the software interrupt.
app_timer_stop_Late(t) ==
    /\ MayCall
    /\ StopsIgnoredStart(t) => "stop_after_start" \in Usage
    /\ Len(ops) < OpQueueSize
    /\ Enqueue([type |-> "stop", timer |-> t, at |-> 0, ticks |-> 0, age |-> 0])
    /\ UNCHANGED node

\* is_running is cleared at once, even when the operation does not fit.  The code
\* clears it before the critical region in which it queues the operation.  One
\* step is exact for callers at the priority of the module (app_button.c:105,
\* bsp.c:151, both in interrupt handlers): ticks may pass in between, but no other
\* call and neither handler of the module can come there.  Main stops no timer.
app_timer_stop(t) ==
    /\ MayCall
    /\ StopsIgnoredStart(t) => "stop_after_start" \in Usage
    /\ node' = [node EXCEPT ![t].isRunning = FALSE]
    /\ IF Len(ops) < OpQueueSize
       THEN Enqueue([type |-> "stop", timer |-> t, at |-> 0, ticks |-> 0, age |-> 0])
       ELSE /\ "stop_when_full" \in Usage
            /\ UNCHANGED <<hw, list, latest, expired, rtcReset, ops, isr, lag, due>>

app_timer_stop_all ==
    /\ MayCall
    /\ Len(ops) < OpQueueSize
    /\ Enqueue([type |-> "stop_all", timer |-> None, at |-> 0, ticks |-> 0, age |-> 0])
    /\ UNCHANGED node

-----------------------------------------------------------------------------
(* RTC1_IRQHandler: timer_timeouts_check walks the list without changing   *)
(* it and calls the handlers of the timers that expired.                   *)

RtcEnter ==
    /\ isr.pc = "idle" /\ rtcPending
    /\ rtcPending' = FALSE
    /\ isr' = IF list = <<>> THEN IsrIdle
              ELSE [pc |-> "scan", next |-> 1, expired |-> 0,
                    elapsed |-> ticks_diff_get(counter, latest)]
    /\ UNCHANGED <<counter, cc, rtcRunning, swiPending, lists, ops, lag, due>>

ScanFinds == isr.next <= Len(list) /\ isr.elapsed >= node[list[isr.next]].toExpire

\* The next timer of the list has expired: its handler is called if it is still
\* marked as running.
RtcExpire ==
    /\ isr.pc = "scan" /\ ScanFinds
    /\ LET t == list[isr.next]
           passed == [isr EXCEPT !.next = @ + 1,
                                 !.elapsed = @ - node[t].toExpire,
                                 !.expired = @ + node[t].toExpire]
       IN  IF node[t].isRunning
           THEN /\ node' = [node EXCEPT ![t].isRunning = FALSE]
                /\ isr' = [passed EXCEPT !.pc = "handler"]
                /\ due' = [due EXCEPT ![t] = AfterTimeout(@)]
           ELSE isr' = passed /\ UNCHANGED <<node, due>>
    /\ UNCHANGED <<hw, list, latest, expired, rtcReset, ops, lag>>

\* The timeout handler, which may have made calls, returns.
RtcHandlerReturns ==
    /\ isr.pc = "handler"
    /\ isr' = [isr EXCEPT !.pc = "scan"]
    /\ UNCHANGED <<hw, lists, ops, lag, due>>

\* The expired ticks go to the software interrupt; an entry that it has not
\* read yet is replaced, because this walk began at the same latest.
RtcLeave ==
    /\ isr.pc = "scan" /\ ~ScanFinds
    /\ expired' = isr.expired
    /\ swiPending' = TRUE
    /\ isr' = IsrIdle
    /\ UNCHANGED <<counter, cc, rtcRunning, rtcPending, list, node, latest,
                   rtcReset, ops, lag, due>>

-----------------------------------------------------------------------------
(* SWI_IRQHandler: timer_list_handler.  RTC1 has the lower interrupt       *)
(* number, so it goes first when both are pending.                         *)

SwiEnters == isr.pc = "idle" /\ swiPending /\ ~rtcPending

InsertState(update, restart, head) ==
    [pc |-> "insert", update |-> update, restart |-> restart, head |-> head]

HeadOf(l) == IF l = <<>> THEN None ELSE l[1]

SwiNothingExpired ==
    /\ SwiEnters /\ expired = None
    /\ swiPending' = FALSE
    /\ isr' = InsertState(FALSE, <<>>, HeadOf(list))
    /\ UNCHANGED <<counter, cc, rtcRunning, rtcPending, lists, ops, lag, due>>

\* elapsed_ticks_acquire and expired_timers_handler: the timers that expired
\* leave the list, the repeated ones for the list of those to start again.
SwiTakeExpired ==
    /\ SwiEnters /\ expired # None
    /\ swiPending' = FALSE
    /\ latest' = (latest + expired) % CounterRange
    /\ expired' = None
    /\ LET after == After(list, node)
           k == CHOOSE i \in 0 .. Len(list) :
                  /\ after[i] <= expired
                  /\ i < Len(list) => after[i + 1] > expired
           rest == SubSeq(list, k + 1, Len(list))
           at == [i \in 1 .. k |-> (latest + after[i]) % CounterRange]
           Gone(t) == \E i \in 1 .. k : list[i] = t
           Place(t) == CHOOSE i \in 1 .. k : list[i] = t
       IN  /\ list' = rest
           /\ node' = [t \in Timers |->
                 IF Gone(t)
                 THEN IF node[t].periodic # 0
                      THEN [node[t] EXCEPT !.toExpire = 0, !.atStart = at[Place(t)],
                                           !.first = node[t].periodic]
                      ELSE Unlisted
                 ELSE IF t = HeadOf(rest)
                      THEN [node[t] EXCEPT !.toExpire = @ - (expired - after[k])]
                      ELSE node[t]]
           /\ isr' = InsertState(TRUE, Again(list, node)[k], HeadOf(rest))
    /\ UNCHANGED <<counter, cc, rtcRunning, rtcPending, rtcReset, ops, lag, due>>

\* The end of a turn of list_insertions_handler: t, its start fields set in n,
\* enters the list.
Inserted(n, t) ==
    timer_list_insert(list, [n EXCEPT
        ![t].toExpire = ticks_to_expire(n[t].atStart, n[t].first),
        ![t].atStart = 0, ![t].first = 0, ![t].isRunning = TRUE], t)

SwiRestart ==
    /\ isr.pc = "insert" /\ isr.restart # <<>>
    /\ isr' = [isr EXCEPT !.restart = Tail(@)]
    /\ LET new == Inserted(node, Head(isr.restart))
       IN  list' = new.list /\ node' = new.node
    /\ UNCHANGED <<hw, latest, expired, rtcReset, ops, lag, due>>

Pops(type) ==
    /\ isr.pc = "insert" /\ isr.restart = <<>>
    /\ ops # <<>> /\ Head(ops).type = type
    /\ ops' = Tail(ops)

\* Fault: a timer that runs is started again.
SwiStart_Again ==
    /\ Pops("start")
    /\ LET op == Head(ops)
           t  == op.timer
           new == Inserted([node EXCEPT
                     ![t].atStart = IF rtcReset THEN 0 ELSE op.at,
                     ![t].first = op.ticks,
                     ![t].periodic = IF t \in Repeated THEN op.ticks ELSE 0], t)
       IN  /\ list' = new.list /\ node' = new.node
           /\ due' = [due EXCEPT ![t] = Left(t, op.ticks, op.age)]
    /\ UNCHANGED <<hw, latest, expired, rtcReset, isr, lag>>

\* A start: ignored if the timer runs; counted from zero if the counter was
\* restarted while the operation waited.
SwiStart ==
    /\ Pops("start")
    /\ LET op == Head(ops)
           t  == op.timer
           new == Inserted([node EXCEPT
                     ![t].atStart = IF rtcReset THEN 0 ELSE op.at,
                     ![t].first = op.ticks,
                     ![t].periodic = IF t \in Repeated THEN op.ticks ELSE 0], t)
       IN  IF node[t].isRunning THEN UNCHANGED <<list, node, due>>
           ELSE /\ list' = new.list /\ node' = new.node
                /\ due' = [due EXCEPT ![t] = Left(t, op.ticks, op.age)]
    /\ UNCHANGED <<hw, latest, expired, rtcReset, isr, lag>>

\* timer_list_remove: the successor takes over the ticks of the timer removed;
\* when the list becomes empty, the counter starts again from zero.
SwiStop ==
    /\ Pops("stop")
    /\ LET t == Head(ops).timer
           k == CHOOSE i \in 1 .. Len(list) : list[i] = t
           rest == SubSeq(list, 1, k - 1) \o SubSeq(list, k + 1, Len(list))
           stopped == [node EXCEPT ![t] = Unlisted]
       IN  /\ due' = [due EXCEPT ![t] = None]
           /\ IF ~Listed(t)
              THEN node' = stopped /\ UNCHANGED <<list, isr, counter, latest, rtcReset>>
              ELSE /\ list' = rest
                   /\ node' = IF k = Len(list) THEN stopped
                              ELSE [stopped EXCEPT ![list[k + 1]].toExpire =
                                                      @ + node[t].toExpire]
                   /\ isr' = [isr EXCEPT !.update = @ \/ k = 1]
                   /\ IF rest = <<>>
                      THEN counter' = 0 /\ latest' = 0 /\ rtcReset' = TRUE
                      ELSE UNCHANGED <<counter, latest, rtcReset>>
    /\ UNCHANGED <<cc, rtcRunning, rtcPending, swiPending, expired, lag>>

SwiStopAll ==
    /\ Pops("stop_all")
    /\ list' = <<>>
    /\ node' = [t \in Timers |-> IF Listed(t) THEN Unlisted
                                 ELSE node[t]]
    /\ due' = [t \in Timers |-> None]
    /\ UNCHANGED <<hw, latest, expired, rtcReset, isr, lag>>

\* All operations are done.
SwiInserted == isr.pc = "insert" /\ isr.restart = <<>> /\ ops = <<>>

\* Fault: only expired timers make CC[0] change.
SwiUpdates_OnlyExpired == isr.update

SwiUpdates == isr.update \/ HeadOf(list) # isr.head

SwiNoUpdate ==
    /\ SwiInserted /\ ~SwiUpdates
    /\ isr' = IsrIdle
    /\ rtcReset' = FALSE
    /\ UNCHANGED <<hw, list, node, latest, expired, ops, lag, due>>

SwiUpdate ==
    /\ SwiInserted /\ SwiUpdates
    /\ isr' = [pc |-> "update"]
    /\ UNCHANGED <<hw, lists, ops, lag, due>>

\* compare_reg_update without timers: rtc1_stop.
SwiStopRtc ==
    /\ isr.pc = "update" /\ list = <<>>
    /\ rtcRunning' = FALSE /\ rtcPending' = FALSE
    /\ counter' = 0 /\ latest' = 0
    /\ isr' = IsrIdle
    /\ rtcReset' = FALSE
    /\ UNCHANGED <<cc, swiPending, list, node, expired, ops, lag, due>>

\* compare_reg_update with timers reads the counter and starts it if need be...
SwiReadCounter ==
    /\ isr.pc = "update" /\ list # <<>>
    /\ isr' = [pc |-> "compare", counter |-> counter]
    /\ rtcRunning' = TRUE
    /\ UNCHANGED <<counter, cc, rtcPending, swiPending, lists, ops, lag, due>>

\* ...and sets CC[0], at least CompareOffset ticks ahead of the value it read;
\* if so many ticks have passed since that the compare event may be missed, it
\* pends the interrupt itself.
SwiSetCompare ==
    /\ isr.pc = "compare"
    /\ LET elapsed == ticks_diff_get(isr.counter, latest) + CompareOffset
           ticks   == node[list[1]].toExpire
           new     == (latest + (IF elapsed < ticks THEN ticks ELSE elapsed)) % CounterRange
           late    == ticks_diff_get(counter, isr.counter) + CompareOffset
                        > ticks_diff_get(new, isr.counter)
       IN  /\ cc' = IF late THEN counter ELSE new
           /\ rtcPending' = (rtcPending \/ late)
    /\ isr' = IsrIdle
    /\ rtcReset' = FALSE
    /\ UNCHANGED <<counter, rtcRunning, swiPending, list, node, latest, expired,
                   ops, lag, due>>

-----------------------------------------------------------------------------
Calls ==
    \/ \E t \in Timers : \/ \E d \in Timeouts[t] : app_timer_start(t, d)
                         \/ app_timer_stop(t)
    \/ app_timer_stop_all

RTC1_IRQHandler == RtcEnter \/ RtcExpire \/ RtcHandlerReturns \/ RtcLeave

SWI_IRQHandler ==
    \/ SwiNothingExpired \/ SwiTakeExpired
    \/ SwiRestart \/ SwiStart \/ SwiStop \/ SwiStopAll
    \/ SwiNoUpdate \/ SwiUpdate \/ SwiStopRtc \/ SwiReadCounter \/ SwiSetCompare

Next == Tick \/ Calls \/ RTC1_IRQHandler \/ SWI_IRQHandler

Spec == Init /\ [][Next]_vars

-----------------------------------------------------------------------------
(* Properties.                                                             *)

NodeType(t) ==
    [toExpire : Ticks, atStart : Ticks, first : Timeouts[t] \cup {0},
     periodic : Timeouts[t] \cup {0}, isRunning : BOOLEAN]

\* Each variable has its type; the list holds no timer twice.
TypeOK ==
    /\ counter \in Ticks /\ cc \in Ticks /\ latest \in Ticks
    /\ rtcRunning \in BOOLEAN /\ rtcPending \in BOOLEAN /\ swiPending \in BOOLEAN
    /\ DOMAIN node = Timers /\ \A t \in Timers : node[t] \in NodeType(t)
    /\ \A i \in 1 .. Len(list) : list[i] \in Timers
    /\ Len(ops) <= OpQueueSize
    /\ expired \in Ticks \cup {None}
    /\ rtcReset \in BOOLEAN /\ lag \in 0 .. MaxLatency

\* The timer module implements the service: whatever the order of calls, ticks
\* and interrupts, requests take effect in order, no handler is called early,
\* none after its timer was asked to stop, and none more than Jitter ticks late.
Service == INSTANCE TimerService WITH
    QueueSize <- OpQueueSize,
    requests  <- [i \in 1 .. Len(ops) |->
                    [type |-> ops[i].type, timer |-> ops[i].timer,
                     ticks |-> ops[i].ticks, age |-> ops[i].age]]

TimersKeepTheirTime == Service!Spec

\* A timer is in the list at most once, and one that is marked as running is in
\* it, whatever was started, stopped, expired and restarted in one batch.
ListIsSound ==
    /\ \A i, j \in 1 .. Len(list) : list[i] = list[j] => i = j
    /\ \A t \in Timers : node[t].isRunning => Listed(t)

\* The distances in the list tell the time left: from the last interrupt they
\* add up to no less than what is due, and to no more than that and the ticks a
\* start may have waited in the queue.
DistancesTellTheTime ==
    \A i \in 1 .. Len(list) :
        LET t == list[i]
            left == After(list, node)[i] - ticks_diff_get(counter, latest)
        IN  node[t].isRunning /\ ~Queued("stop", t) => left \in due[t].left .. due[t].left + MaxLatency

\* When no interrupt work is outstanding and a timer runs, the counter runs and
\* CC[0] will wake the module up before the first timer is Jitter ticks late.
CompareIsSet ==
    ~Busy /\ list # <<>> =>
        /\ rtcRunning
        /\ ticks_diff_get(cc, counter) <= due[list[1]].left + Jitter

=============================================================================

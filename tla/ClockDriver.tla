----------------------------- MODULE ClockDriver -----------------------------
(***************************************************************************)
(* One of the two clocks of nrf_drv_clock.c, which treats LFCLK and HFCLK  *)
(* alike: users request and release it, the first request starts it, the   *)
(* last release stops it, and the handlers that came with the requests are *)
(* called when it has started.  The low-frequency source is the crystal,   *)
(* so that there is no calibration.                                        *)
(*                                                                         *)
(* Three contexts: main, the interrupt of the driver, which preempts main, *)
(* and a higher interrupt, "high", which preempts both.  A request looks   *)
(* at the state of the clock before it enters its critical region; a       *)
(* critical region is one step.  The clock takes its time to start.        *)
(***************************************************************************)
EXTENDS Functions, Integers, Sequences

CONSTANTS
    Items,        \* the handler items of the users
    NULL,         \* a request without a handler
    MaxHeld,      \* bound: requests a context holds at a time
    Careful       \* is the clock released only when it is on, and never by a
                  \* context that has preempted a request or the driver?

ASSUME ClockDriverAssumption ==
    /\ MaxHeld \in Nat \ {0} /\ Careful \in BOOLEAN
    /\ NULL \notin Items

VARIABLES
    on,        \* m_clock_cb.lfclk_on
    requests,  \* m_clock_cb.lfclk_requests
    p_head,    \* the list of items, its head first
    hw,        \* the oscillator: "stopped", "starting" or "running"
    started,   \* the event register LFCLKSTARTED
    int,       \* is its interrupt enabled?
    call,      \* the request each context is in: [pc, item]
    irq,       \* POWER_CLOCK_IRQHandler: [pc, item]
    held,      \* requests each context has made and not released
    due,       \* history: the handlers that are owed a call
    late       \* history: items queued although the clock was on

m_clock_cb == <<on, requests, p_head>>
clock == <<hw, started, int>>
vars == <<m_clock_cb, clock, call, irq, held, due, late>>

Contexts == {"main", "high"}
NoCall == [pc |-> "idle", item |-> NULL]
InList(i) == i \in Range(p_head)

Init ==
    /\ on = FALSE /\ requests = 0 /\ p_head = <<>>
    /\ hw = "stopped" /\ started = FALSE /\ int = FALSE
    /\ call = [c \in Contexts |-> NoCall] /\ irq = NoCall
    /\ held = [c \in Contexts |-> 0] /\ due = {} /\ late = {}

(* Who may take the next step.                                             *)
IrqRuns == call["high"].pc = "idle"
Runs(c) == c = "main" => IrqRuns /\ irq.pc = "idle"

At(c, pc) == Runs(c) /\ call[c].pc = pc
Goes(c, pc) == call' = [call EXCEPT ![c].pc = pc]
Returns(c) == call' = [call EXCEPT ![c] = NoCall]

-----------------------------------------------------------------------------
(* The oscillator has started.                                             *)
Starts ==
    /\ hw = "starting"
    /\ hw' = "running" /\ started' = TRUE
    /\ UNCHANGED <<m_clock_cb, int, call, irq, held, due, late>>

clk_start == hw' = "starting" /\ started' = FALSE /\ int' = TRUE

\* Fault: the state of the clock is not reset.
clk_stop_KeepsOn == hw' = "stopped" /\ UNCHANGED <<on, started, int>>

(* The stop is awaited; a pending event and its interrupt are left alone.  *)
clk_stop == hw' = "stopped" /\ on' = FALSE /\ UNCHANGED <<started, int>>

\* Fault: the list is not searched for the item.
item_enqueue_Again(i) ==
    IF i = NULL THEN p_head ELSE <<i>> \o p_head

(* An item that is in the list already is not put there again.             *)
item_enqueue(i) ==
    IF i = NULL \/ InList(i) THEN p_head ELSE <<i>> \o p_head

-----------------------------------------------------------------------------
(* nrf_drv_clock_lfclk_request: the state is read, then acted upon.        *)
nrf_drv_clock_request(c, i) ==
    /\ At(c, "idle") /\ held[c] < MaxHeld
    /\ call' = [call EXCEPT ![c] = [pc |-> IF on THEN "on" ELSE "off", item |-> i]]
    /\ due' = due \cup ({i} \ {NULL})
    /\ UNCHANGED <<m_clock_cb, clock, irq, held, late>>

(* The clock was on: the handler is called from here.                      *)
RequestCalls(c) ==
    /\ At(c, "on")
    /\ Goes(c, "count")
    /\ due' = due \ {call[c].item}
    /\ UNCHANGED <<m_clock_cb, clock, irq, held, late>>

Counts(c) ==
    /\ requests' = requests + 1
    /\ held' = [held EXCEPT ![c] = @ + 1]
    /\ Returns(c)

RequestCounts(c) ==
    /\ At(c, "count")
    /\ Counts(c)
    /\ UNCHANGED <<on, p_head, clock, irq, due, late>>

\* Fault: the request is counted before it is looked at.
RequestStarts_CountsFirst(c) ==
    /\ At(c, "off")
    /\ p_head' = item_enqueue(call[c].item)
    /\ IF requests + 1 = 0 THEN clk_start ELSE UNCHANGED clock
    /\ Counts(c)
    /\ late' = IF on THEN late \cup Range(p_head') ELSE late
    /\ UNCHANGED <<on, irq, due>>

(* The clock was off: in one critical region, the item is queued, and the  *)
(* first request starts the clock.                                         *)
RequestStarts(c) ==
    /\ At(c, "off")
    /\ p_head' = item_enqueue(call[c].item)
    /\ IF requests = 0 THEN clk_start ELSE UNCHANGED clock
    /\ Counts(c)
    /\ late' = IF on THEN late \cup Range(p_head') ELSE late
    /\ UNCHANGED <<on, irq, due>>

IsCareful ==
    on /\ irq.pc = "idle" /\ \A c \in Contexts : call[c].pc = "idle"

nrf_drv_clock_release(c) ==
    /\ At(c, "idle") /\ held[c] > 0
    /\ Careful => IsCareful
    /\ requests' = requests - 1
    /\ held' = [held EXCEPT ![c] = @ - 1]
    /\ IF requests = 1 THEN clk_stop ELSE UNCHANGED <<on, clock>>
    /\ UNCHANGED <<p_head, call, irq, due, late>>

-----------------------------------------------------------------------------
(* POWER_CLOCK_IRQHandler.                                                 *)
IrqEnters ==
    /\ IrqRuns /\ irq.pc = "idle" /\ started /\ int
    /\ started' = FALSE
    /\ irq' = [irq EXCEPT !.pc = "int"]
    /\ UNCHANGED <<m_clock_cb, hw, int, call, held, due, late>>

IrqDisables ==
    /\ IrqRuns /\ irq.pc = "int"
    /\ int' = FALSE
    /\ irq' = [irq EXCEPT !.pc = "on"]
    /\ UNCHANGED <<m_clock_cb, hw, started, call, held, due, late>>

\* Fault: the clock is not taken for on before the list is emptied.
IrqSetsOn_Forgets ==
    /\ IrqRuns /\ irq.pc = "on"
    /\ irq' = [irq EXCEPT !.pc = "dequeue"]
    /\ UNCHANGED <<m_clock_cb, clock, call, held, due, late>>

IrqSetsOn ==
    /\ IrqRuns /\ irq.pc = "on"
    /\ on' = TRUE
    /\ irq' = [irq EXCEPT !.pc = "dequeue"]
    /\ UNCHANGED <<requests, p_head, clock, call, held, due, late>>

(* item_dequeue reads the head, then stores its successor.                 *)
IrqReadsHead ==
    /\ IrqRuns /\ irq.pc = "dequeue" /\ p_head # <<>>
    /\ irq' = [pc |-> "store", item |-> Head(p_head)]
    /\ UNCHANGED <<m_clock_cb, clock, call, held, due, late>>

\* Fault: one handler is called per interrupt.
IrqCalls_OnlyFirst ==
    /\ IrqRuns /\ irq.pc = "store"
    /\ p_head' = Tail(p_head)
    /\ irq' = NoCall
    /\ due' = due \ {irq.item} /\ late' = late \ {irq.item}
    /\ UNCHANGED <<on, requests, clock, call, held>>

(* The successor of the item that was read becomes the head: whatever was  *)
(* put before it meanwhile is gone.                                        *)
IrqCalls ==
    /\ IrqRuns /\ irq.pc = "store"
    /\ p_head' = SubSeq(p_head, 1 + CHOOSE k \in DOMAIN p_head : p_head[k] = irq.item,
                        Len(p_head))
    /\ irq' = [pc |-> "dequeue", item |-> NULL]
    /\ due' = due \ {irq.item} /\ late' = late \ {irq.item}
    /\ UNCHANGED <<on, requests, clock, call, held>>

IrqLeaves ==
    /\ IrqRuns /\ irq.pc = "dequeue" /\ p_head = <<>>
    /\ irq' = NoCall
    /\ UNCHANGED <<m_clock_cb, clock, call, held, due, late>>

POWER_CLOCK_IRQHandler ==
    \/ IrqEnters \/ IrqDisables \/ IrqSetsOn
    \/ IrqReadsHead \/ IrqCalls \/ IrqLeaves

-----------------------------------------------------------------------------
RequestGoesOn(c) == RequestCalls(c) \/ RequestCounts(c) \/ RequestStarts(c)

Next ==
    \/ Starts
    \/ \E c \in Contexts :
          \/ \E i \in Items \cup {NULL} : nrf_drv_clock_request(c, i)
          \/ RequestGoesOn(c)
          \/ nrf_drv_clock_release(c)
    \/ POWER_CLOCK_IRQHandler

(* An oscillator that was started starts; a request goes on, and neither   *)
(* main nor the interrupt is held off forever by what preempts it.         *)
Spec ==
    /\ Init /\ [][Next]_vars
    /\ WF_vars(Starts)
    /\ WF_vars(RequestGoesOn("high")) /\ SF_vars(RequestGoesOn("main"))
    /\ SF_vars(POWER_CLOCK_IRQHandler)

-----------------------------------------------------------------------------
(* The values of the variables.                                            *)
TypeOK ==
    /\ on \in BOOLEAN /\ requests \in 0 .. 2 * MaxHeld
    /\ p_head \in Seq(Items) /\ IsInjective(p_head)
    /\ hw \in {"stopped", "starting", "running"}
    /\ started \in BOOLEAN /\ int \in BOOLEAN
    /\ call \in [Contexts -> [pc : {"idle", "on", "count", "off"}, item : Items \cup {NULL}]]
    /\ irq \in [pc : {"idle", "int", "on", "dequeue", "store"}, item : Items \cup {NULL}]
    /\ held \in [Contexts -> 0 .. MaxHeld]
    /\ due \subseteq Items /\ late \subseteq Items

(* The clock runs, or is about to, exactly while it is requested           *)
(* (nrf_drv_clock.h: "If there are no more requests, the LFCLK source will *)
(* be stopped").                                                           *)
RequestedRuns == requests > 0 <=> hw # "stopped"

(* The driver takes the clock for on only while it runs: a handler that is *)
(* called from a request finds a clock (nrf_drv_clock.c:255).              *)
OnMeansRunning == on => hw = "running"

(* A handler that is owed a call is in the list, or in the hands of a      *)
(* request or of the interrupt: none is lost.  The interrupt takes an item *)
(* out in two accesses and would lose one that is put in between; but it   *)
(* takes the clock for on first (nrf_drv_clock.c:530), so that a request   *)
(* which preempts it calls its handler itself and queues nothing, as long  *)
(* as the clock is not released meanwhile (Careful).                       *)
NoHandlerIsLost ==
    \A i \in due : InList(i) \/ irq.item = i \/ \E c \in Contexts : call[c].item = i

(* nrf_drv_clock.h: "If an event handler is provided, it will be called    *)
(* once the LFCLK is started": a handler that was queued is called, except *)
(* one that was queued when the interrupt had already been, between the    *)
(* look at the state and the critical region (nrf_drv_clock.c:255).        *)
QueuedIsCalled ==
    \A i \in Items : InList(i) ~> ~InList(i) \/ i \in late
=============================================================================

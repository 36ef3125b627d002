-------------------------- MODULE ClockDriver_proofs --------------------------
(***************************************************************************)
(* Proofs about ClockDriver for any handler items and any number of        *)
(* requests a context may hold, as long as the users are careful: without  *)
(* that, RequestedRuns, OnMeansRunning and NoHandlerIsLost are false.      *)
(***************************************************************************)
EXTENDS ClockDriver, SequenceTheorems, TLAPS

(* What is counted is what is held.                                        *)
RequestsAreHeld == requests = held["main"] + held["high"]

(* Once on, the clock has used up its event, and whoever found it on finds *)
(* it on still.                                                            *)
OnIsStable ==
    /\ on => ~started
    /\ \A c \in Contexts : call[c].pc \in {"on", "count"} => on

(* The event, and the interrupt it raised, mean a clock that runs but was  *)
(* not yet taken for on.                                                   *)
StartIsNews ==
    /\ started => hw = "running"
    /\ irq.pc \in {"int", "on"} => hw = "running" /\ ~on /\ ~started
    /\ irq.pc \in {"dequeue", "store"} => on

(* While the interrupt empties the list nobody puts an item in it.         *)
ListIsTheIrqs ==
    /\ irq.pc \in {"dequeue", "store"} => call["high"].pc # "off"
    /\ irq.pc = "store" => p_head # <<>> /\ irq.item = p_head[1]

(* A request under way finds its context below the bound still.            *)
RoomToHold == \A c \in Contexts : call[c].pc # "idle" => held[c] < MaxHeld

IInv ==
    /\ RoomToHold /\ TypeOK /\ RequestsAreHeld /\ OnIsStable /\ StartIsNews /\ ListIsTheIrqs
    /\ RequestedRuns /\ OnMeansRunning

-----------------------------------------------------------------------------
(* The list.                                                               *)

\* A new item goes first; the list keeps no item twice.
LEMMA EnqueueKeepsList ==
    ASSUME p_head \in Seq(Items), IsInjective(p_head), NEW i \in Items \cup {NULL}
    PROVE  /\ item_enqueue(i) \in Seq(Items)
           /\ IsInjective(item_enqueue(i))
           /\ i \in Items => i \in Range(item_enqueue(i))
           /\ \A j \in Range(p_head) : j \in Range(item_enqueue(i))
<1>1. CASE i = NULL \/ InList(i)
  <2>1. item_enqueue(i) = p_head
    BY <1>1 DEF item_enqueue
  <2>2. i \in Items => InList(i)
    BY <1>1, ClockDriverAssumption
  <2> QED  BY <2>1, <2>2 DEF InList, Range
<1>2. CASE i # NULL /\ ~InList(i)
  <2> DEFINE l == <<i>> \o p_head
  <2>1. item_enqueue(i) = l /\ i \in Items
    BY <1>2 DEF item_enqueue
  <2>2. /\ l \in Seq(Items) /\ Len(l) = Len(p_head) + 1
        /\ DOMAIN l = 1 .. Len(p_head) + 1 /\ l[1] = i
    BY <2>1
  <2>3. \A k \in DOMAIN p_head : k + 1 \in DOMAIN l /\ l[k + 1] = p_head[k]
    BY <2>1
  <2>4. \A k \in DOMAIN l \ {1} : k - 1 \in DOMAIN p_head /\ l[k] = p_head[k - 1]
    BY <2>1
  <2>5. \A k \in DOMAIN p_head : p_head[k] # i
    BY <1>2 DEF InList, Range
  <2>6. IsInjective(l)
    <3> SUFFICES ASSUME NEW a \in DOMAIN l, NEW b \in DOMAIN l, l[a] = l[b]
                 PROVE  a = b
      BY DEF IsInjective
    <3>1. CASE a = 1 \/ b = 1
      BY <3>1, <2>2, <2>4, <2>5
    <3>2. CASE a # 1 /\ b # 1
      <4>1. p_head[a - 1] = p_head[b - 1]
        BY <3>2, <2>4
      <4>2. a - 1 = b - 1
        BY <3>2, <4>1, <2>4 DEF IsInjective
      <4> QED  BY <4>2, <2>2
    <3> QED  BY <3>1, <3>2
  <2>7. \A j \in Range(p_head) : j \in Range(l)
    BY <2>3 DEF Range
  <2>8. i \in Range(l)
    BY <2>2 DEF Range
  <2> QED  BY <2>1, <2>2, <2>6, <2>7, <2>8
<1> QED  BY <1>1, <1>2

\* Taking the first item out leaves the others in, each once.
LEMMA DequeueKeepsList ==
    ASSUME p_head \in Seq(Items), IsInjective(p_head), p_head # <<>>,
           irq.item = p_head[1]
    PROVE  LET t == SubSeq(p_head, 1 + CHOOSE k \in DOMAIN p_head : p_head[k] = irq.item,
                           Len(p_head))
           IN  /\ t \in Seq(Items) /\ IsInjective(t)
               /\ \A j \in Range(p_head) : j = irq.item \/ j \in Range(t)
<1> DEFINE h == CHOOSE k \in DOMAIN p_head : p_head[k] = irq.item
           t == SubSeq(p_head, 1 + h, Len(p_head))
<1>1. 1 \in DOMAIN p_head /\ Len(p_head) >= 1
  OBVIOUS
<1>2. h \in DOMAIN p_head /\ p_head[h] = irq.item
  BY <1>1
<1>3. h = 1
  BY <1>1, <1>2 DEF IsInjective
<1>4. /\ t \in Seq(Items) /\ DOMAIN t = 1 .. Len(p_head) - 1
      /\ \A k \in DOMAIN t : t[k] = p_head[k + 1]
  <2> DEFINE u == SubSeq(p_head, 2, Len(p_head))
  <2>1. u = Tail(p_head)
    BY TailIsSubSeq, Zenon
  <2>2. /\ u \in Seq(Items) /\ Len(u) = Len(p_head) - 1
        /\ \A k \in 1 .. Len(p_head) - 1 : u[k] = p_head[k + 1]
    <3> HIDE DEF u
    <3>1. /\ Tail(p_head) \in Seq(Items) /\ Len(Tail(p_head)) = Len(p_head) - 1
          /\ \A k \in 1 .. Len(Tail(p_head)) : Tail(p_head)[k] = p_head[k + 1]
      BY HeadTailProperties, Zenon
    <3> QED  BY <2>1, <3>1
  <2>3. DOMAIN u = 1 .. Len(p_head) - 1
    BY <2>2
  <2>4. t = u
    <3> HIDE DEF h
    <3>1. 1 + h = 2
      BY <1>3
    <3>2. SubSeq(p_head, 1 + h, Len(p_head)) = SubSeq(p_head, 2, Len(p_head))
      BY ONLY <3>1, Zenon
    <3> QED  BY <3>2, Zenon
  <2> HIDE DEF u, t
  <2> QED  BY <2>1, <2>2, <2>3, <2>4
<1>5. IsInjective(t)
  <2> SUFFICES ASSUME NEW a \in DOMAIN t, NEW b \in DOMAIN t, t[a] = t[b]
               PROVE  a = b
    BY DEF IsInjective
  <2>1. /\ a \in Nat /\ b \in Nat
        /\ a + 1 \in DOMAIN p_head /\ b + 1 \in DOMAIN p_head
    <3> HIDE DEF t
    <3> QED  BY <1>1, <1>4
  <2>2. a + 1 = b + 1
    BY <1>4, <2>1 DEF IsInjective
  <2> QED  BY <2>2, <1>4
<1>6. \A j \in Range(p_head) : j = irq.item \/ j \in Range(t)
  <2> SUFFICES ASSUME NEW k \in DOMAIN p_head, p_head[k] # irq.item
               PROVE  p_head[k] \in Range(t)
    BY DEF Range
  <2>1. k - 1 \in DOMAIN t /\ t[k - 1] = p_head[k]
    BY <1>4, <1>1
  <2> QED  BY <2>1 DEF Range
<1> QED  BY <1>4, <1>5, <1>6

-----------------------------------------------------------------------------
(* The inductive invariant.                                                *)

(* The invariant holds after nrf_drv_clock_init.                           *)
THEOREM InitInv == Init => IInv
<1> SUFFICES ASSUME Init PROVE IInv
  OBVIOUS
<1>1. p_head \in Seq(Items) /\ IsInjective(p_head)
  BY DEF Init, IsInjective
<1>2. TypeOK
  <2>1. NoCall \in [pc : {"idle", "on", "count", "off"}, item : Items \cup {NULL}]
    BY DEF NoCall
  <2>2. NoCall \in [pc : {"idle", "int", "on", "dequeue", "store"}, item : Items \cup {NULL}]
    BY DEF NoCall
  <2>3. /\ call \in [Contexts -> [pc : {"idle", "on", "count", "off"}, item : Items \cup {NULL}]]
        /\ irq \in [pc : {"idle", "int", "on", "dequeue", "store"}, item : Items \cup {NULL}]
    BY <2>1, <2>2 DEF Init
  <2>4. requests \in 0 .. 2 * MaxHeld /\ held \in [Contexts -> 0 .. MaxHeld]
    BY ClockDriverAssumption DEF Init
  <2> QED  BY <1>1, <2>3, <2>4 DEF Init, TypeOK
<1>3. RequestsAreHeld
  BY DEF Init, RequestsAreHeld, Contexts
<1>4. RoomToHold
  BY DEF Init, RoomToHold, NoCall, Contexts
<1>5. /\ OnIsStable /\ StartIsNews /\ ListIsTheIrqs
      /\ RequestedRuns /\ OnMeansRunning
  BY DEF Init, RoomToHold, OnIsStable, StartIsNews, ListIsTheIrqs, RequestedRuns,
         OnMeansRunning, NoCall, Contexts
<1> QED  BY <1>2, <1>3, <1>4, <1>5 DEF IInv

USE DEF IInv, RoomToHold, RequestsAreHeld, OnIsStable, StartIsNews, ListIsTheIrqs, RequestedRuns,
        OnMeansRunning, Contexts, TypeOK

\* The oscillator starts.
LEMMA StartsKeepsInv == IInv /\ Starts => IInv'
  BY DEF Starts, m_clock_cb

\* A request begins with a look at the state of the clock.
LEMMA RequestKeepsInv ==
    ASSUME IInv, NEW c \in Contexts, NEW i \in Items \cup {NULL},
           nrf_drv_clock_request(c, i)
    PROVE  IInv'
  BY DEF nrf_drv_clock_request, At, Runs, IrqRuns, m_clock_cb, clock

\* A request that found the clock on calls its handler.
LEMMA RequestCallsKeepsInv ==
    ASSUME IInv, NEW c \in Contexts, RequestCalls(c)
    PROVE  IInv'
  BY DEF RequestCalls, Goes, At, Runs, IrqRuns, m_clock_cb, clock

\* It is counted afterwards.
LEMMA RequestCountsKeepsInv ==
    ASSUME IInv, NEW c \in Contexts, RequestCounts(c)
    PROVE  IInv'
<1>1. /\ call[c].pc = "count" /\ held[c] < MaxHeld
      /\ requests' = requests + 1 /\ held' = [held EXCEPT ![c] = @ + 1]
      /\ call' = [call EXCEPT ![c] = NoCall]
      /\ UNCHANGED <<on, p_head, hw, started, int, irq, due, late>>
  BY DEF RequestCounts, Counts, Returns, At, clock
<1>2. RequestsAreHeld' /\ held' \in [Contexts -> 0 .. MaxHeld]
  BY <1>1, ClockDriverAssumption
<1>3. requests' \in 0 .. 2 * MaxHeld /\ requests' > 0
  <2>1. requests \in Nat /\ requests' = requests + 1
    BY <1>1, ClockDriverAssumption
  <2>2. /\ requests' = held'["main"] + held'["high"]
        /\ held'["main"] \in 0 .. MaxHeld /\ held'["high"] \in 0 .. MaxHeld
    BY <1>2
  <2> HIDE DEF IInv
  <2> QED  BY <2>1, <2>2, ClockDriverAssumption
<1>4. call' \in [Contexts -> [pc : {"idle", "on", "count", "off"}, item : Items \cup {NULL}]]
  BY <1>1 DEF NoCall
<1>5. TypeOK'
  BY <1>1, <1>2, <1>3, <1>4
<1>6. RoomToHold'
  BY <1>1 DEF NoCall
<1>7. OnIsStable' /\ StartIsNews' /\ ListIsTheIrqs'
  BY <1>1 DEF RequestCounts, At, Runs, IrqRuns, NoCall
<1>8. RequestedRuns' /\ OnMeansRunning'
  BY <1>1, <1>3
<1> QED  BY <1>2, <1>5, <1>6, <1>7, <1>8

\* The steps of the interrupt that leave the list alone.
LEMMA IrqKeepsInv ==
    ASSUME IInv, IrqEnters \/ IrqDisables \/ IrqSetsOn \/ IrqLeaves
    PROVE  IInv'
<1>1. CASE IrqEnters
  BY <1>1 DEF IrqEnters, IrqRuns, m_clock_cb, clock
<1>2. CASE IrqDisables
  BY <1>2 DEF IrqDisables, IrqRuns, m_clock_cb, clock
<1>3. CASE IrqSetsOn
  BY <1>3 DEF IrqSetsOn, IrqRuns, m_clock_cb, clock
<1>4. CASE IrqLeaves
  BY <1>4 DEF IrqLeaves, IrqRuns, NoCall, m_clock_cb, clock
<1> QED  BY <1>1, <1>2, <1>3, <1>4

\* The interrupt reads the head of the list.
LEMMA IrqReadsHeadKeepsInv ==
    ASSUME IInv, IrqReadsHead
    PROVE  IInv'
  BY DEF IrqReadsHead, IrqRuns, m_clock_cb, clock

\* A request that found the clock off queues its handler and is counted.
LEMMA RequestStartsKeepsInv ==
    ASSUME IInv, NEW c \in Contexts, RequestStarts(c)
    PROVE  IInv'
<1> DEFINE i == call[c].item
<1>1. /\ i \in Items \cup {NULL} /\ p_head' = item_enqueue(i)
      /\ call[c].pc = "off" /\ held[c] < MaxHeld
  BY DEF RequestStarts, At
<1>2. p_head' \in Seq(Items) /\ IsInjective(p_head')
  BY <1>1, EnqueueKeepsList
<1>3. late' \subseteq Items
  <2>1. Range(p_head') \subseteq Items
    BY <1>2 DEF Range
  <2> QED  BY <2>1 DEF RequestStarts
<1>4. /\ requests' = requests + 1 /\ held' = [held EXCEPT ![c] = @ + 1]
      /\ call' = [call EXCEPT ![c] = NoCall]
      /\ UNCHANGED <<on, irq, due>>
  BY DEF RequestStarts, Counts, Returns
<1>5. IF requests = 0 THEN hw' = "starting" /\ started' = FALSE /\ int' = TRUE
                      ELSE hw' = hw /\ started' = started /\ int' = int
  BY DEF RequestStarts, clk_start, clock
<1>6. irq.pc \notin {"dequeue", "store"}
  BY <1>1 DEF RequestStarts, At, Runs, IrqRuns
<1>7. RequestsAreHeld' /\ RoomToHold' /\ held' \in [Contexts -> 0 .. MaxHeld]
  <2>1. held[c] + 1 \in 0 .. MaxHeld
    BY <1>1, ClockDriverAssumption
  <2>2. held' \in [Contexts -> 0 .. MaxHeld]
    BY <1>4, <2>1
  <2>3. RequestsAreHeld'
    BY <1>4
  <2>4. RoomToHold'
    BY <1>4 DEF NoCall
  <2> QED  BY <2>2, <2>3, <2>4
<1>8. requests' \in 0 .. 2 * MaxHeld /\ requests' > 0
  <2>1. requests \in Nat /\ requests' = requests + 1
    BY <1>4, ClockDriverAssumption
  <2>2. /\ requests' = held'["main"] + held'["high"]
        /\ held'["main"] \in 0 .. MaxHeld /\ held'["high"] \in 0 .. MaxHeld
    BY <1>7
  <2> HIDE DEF IInv
  <2> QED  BY <2>1, <2>2, ClockDriverAssumption
<1>9. NoCall \in [pc : {"idle", "on", "count", "off"}, item : Items \cup {NULL}]
  BY DEF NoCall
<1>10. TypeOK'
  BY <1>2, <1>3, <1>4, <1>5, <1>7, <1>8, <1>9
<1>11. OnIsStable' /\ StartIsNews' /\ ListIsTheIrqs'
  BY <1>4, <1>5, <1>6 DEF NoCall
<1>12. RequestedRuns' /\ OnMeansRunning'
  BY <1>4, <1>5, <1>8
<1> QED  BY <1>7, <1>10, <1>11, <1>12

\* A release is of a clock that is on; the last one stops it.
LEMMA ReleaseKeepsInv ==
    ASSUME IInv, Careful, NEW c \in Contexts, nrf_drv_clock_release(c)
    PROVE  IInv'
<1>1. /\ on /\ irq.pc = "idle" /\ \A d \in Contexts : call[d].pc = "idle"
      /\ held[c] > 0 /\ requests' = requests - 1
      /\ held' = [held EXCEPT ![c] = @ - 1]
      /\ UNCHANGED <<p_head, call, irq, due, late>>
  BY DEF nrf_drv_clock_release, IsCareful
<1>2. IF requests = 1 THEN hw' = "stopped" /\ on' = FALSE /\ started' = started /\ int' = int
                      ELSE hw' = hw /\ on' = on /\ started' = started /\ int' = int
  BY DEF nrf_drv_clock_release, clk_stop, clock
<1>3. RequestsAreHeld' /\ held' \in [Contexts -> 0 .. MaxHeld]
  BY <1>1, ClockDriverAssumption
<1>4. requests' \in 0 .. 2 * MaxHeld
  BY <1>1, <1>3, ClockDriverAssumption
<1>5. TypeOK'
  <2>1. on' \in BOOLEAN /\ hw' \in {"stopped", "starting", "running"}
    BY <1>2
  <2>2. started' \in BOOLEAN /\ int' \in BOOLEAN
    BY <1>2
  <2> QED  BY <1>1, <1>3, <1>4, <2>1, <2>2
<1>6. RequestedRuns' /\ OnMeansRunning'
  <2>1. requests \in Nat \ {0} /\ hw = "running"
    BY <1>1, ClockDriverAssumption
  <2>2. CASE requests = 1
    <3>1. requests' = 0
      BY <1>1, <2>2
    <3>2. hw' = "stopped"
      BY <1>2, <2>2
    <3>3. on' = FALSE
      BY <1>2, <2>2
    <3>4. RequestedRuns'
      BY <3>1, <3>2 DEF RequestedRuns
    <3>5. OnMeansRunning'
      BY <3>3 DEF OnMeansRunning
    <3> QED  BY <3>4, <3>5
  <2>3. CASE requests # 1
    <3>1. requests' > 0 /\ hw' = "running"
      BY <1>1, <1>2, <2>1, <2>3
    <3> QED  BY <3>1
  <2> QED  BY <2>2, <2>3
<1>7. OnIsStable' /\ StartIsNews' /\ ListIsTheIrqs' /\ RoomToHold'
  BY <1>1, <1>2
<1> QED  BY <1>3, <1>5, <1>6, <1>7

\* The interrupt takes the item it has read out of the list.
LEMMA IrqCallsKeepsInv ==
    ASSUME IInv, IrqCalls
    PROVE  IInv'
<1>1. /\ irq.pc = "store" /\ p_head # <<>> /\ irq.item = p_head[1]
      /\ irq' = [pc |-> "dequeue", item |-> NULL]
      /\ due' = due \ {irq.item} /\ late' = late \ {irq.item}
      /\ UNCHANGED <<on, requests, clock, call, held>>
  BY DEF IrqCalls
<1>2. p_head' \in Seq(Items) /\ IsInjective(p_head')
  <2> DEFINE t == SubSeq(p_head, 1 + CHOOSE k \in DOMAIN p_head : p_head[k] = irq.item,
                         Len(p_head))
  <2>1. p_head' = t
    BY DEF IrqCalls
  <2>2. t \in Seq(Items) /\ IsInjective(t)
    <3> HIDE DEF IInv, TypeOK
    <3>1. p_head \in Seq(Items) /\ IsInjective(p_head)
      BY DEF IInv, TypeOK
    <3> QED  BY <1>1, <3>1, DequeueKeepsList, Zenon
  <2> HIDE DEF t
  <2> QED  BY <2>1, <2>2
<1> QED  BY <1>1, <1>2 DEF clock

(* The invariant is kept by every step, if the users are careful.          *)
THEOREM StepKeepsInv == Careful /\ IInv /\ [Next]_vars => IInv'
<1> SUFFICES ASSUME Careful, IInv, [Next]_vars PROVE IInv'
  OBVIOUS
<1>1. ASSUME NEW c \in Contexts, NEW i \in Items \cup {NULL}, nrf_drv_clock_request(c, i)
      PROVE  IInv'
  BY <1>1, RequestKeepsInv, Zenon
<1>2. ASSUME NEW c \in Contexts, RequestGoesOn(c) PROVE IInv'
  BY <1>2, RequestCallsKeepsInv, RequestCountsKeepsInv, RequestStartsKeepsInv, Zenon
     DEF RequestGoesOn
<1>3. ASSUME NEW c \in Contexts, nrf_drv_clock_release(c) PROVE IInv'
  BY <1>3, ReleaseKeepsInv, Zenon
<1>4. CASE POWER_CLOCK_IRQHandler
  BY <1>4, IrqKeepsInv, IrqReadsHeadKeepsInv, IrqCallsKeepsInv, Zenon
     DEF POWER_CLOCK_IRQHandler
<1>5. CASE Starts
  BY <1>5, StartsKeepsInv, Zenon
<1>6. CASE UNCHANGED vars
  BY <1>6 DEF vars, m_clock_cb, clock
<1> QED
  BY <1>1, <1>2, <1>3, <1>4, <1>5, <1>6, Zenon DEF Next

HIDE DEF IInv, RoomToHold, RequestsAreHeld, OnIsStable, StartIsNews, ListIsTheIrqs, RequestedRuns,
        OnMeansRunning, Contexts, TypeOK

\* The inductive invariant holds for careful users.
THEOREM ClockInv == Careful /\ Spec => []IInv
<1> SUFFICES ASSUME Careful PROVE Spec => []IInv
  OBVIOUS
<1>1. Init => IInv
  BY InitInv
<1>2. IInv /\ [Next]_vars => IInv'
  BY StepKeepsInv
<1> QED  BY <1>1, <1>2, PTL DEF Spec

(* The variables of the driver keep their types; the list never holds an   *)
(* item twice (nrf_drv_clock.c:224).                                       *)
THEOREM ClockTypeOK == Careful /\ Spec => []TypeOK
<1>1. IInv => TypeOK
  BY DEF IInv
<1> QED  BY <1>1, ClockInv, PTL

(* The clock runs, or is about to, exactly while somebody requests it      *)
(* (nrf_drv_clock.c:273, 291).                                             *)
THEOREM ClockRequestedRuns == Careful /\ Spec => []RequestedRuns
<1>1. IInv => RequestedRuns
  BY DEF IInv
<1> QED  BY <1>1, ClockInv, PTL

(* The driver takes the clock for on only while it runs                    *)
(* (nrf_drv_clock.c:255).                                                  *)
THEOREM ClockOnMeansRunning == Careful /\ Spec => []OnMeansRunning
<1>1. IInv => OnMeansRunning
  BY DEF IInv
<1> QED  BY <1>1, ClockInv, PTL

-----------------------------------------------------------------------------
(* No handler is lost: the invariant that is inductive together with IInv. *)
(* A handler that is owed a call waits in the list, or in a request that   *)
(* has yet to put it there or to call it.                                  *)
Waits(i) == InList(i) \/ \E c \in Contexts : call[c].pc \in {"on", "off"} /\ call[c].item = i
OwedWait == \A i \in due : Waits(i)

USE DEF IInv, RoomToHold, RequestsAreHeld, OnIsStable, StartIsNews, ListIsTheIrqs, RequestedRuns,
        OnMeansRunning, Contexts, TypeOK

\* No step of a user loses a handler that is owed a call.
LEMMA RequestsKeepOwed ==
    ASSUME IInv, OwedWait, NEW c \in Contexts,
           \/ \E i \in Items \cup {NULL} : nrf_drv_clock_request(c, i)
           \/ RequestGoesOn(c)
           \/ nrf_drv_clock_release(c)
    PROVE  OwedWait'
<1>1. ASSUME NEW i \in Items \cup {NULL}, nrf_drv_clock_request(c, i)
      PROVE  OwedWait'
  BY <1>1 DEF OwedWait, Waits, InList, nrf_drv_clock_request, At, m_clock_cb
<1>2. CASE RequestCalls(c)
  BY <1>2 DEF OwedWait, Waits, InList, RequestCalls, Goes, At, m_clock_cb
<1>3. CASE RequestCounts(c)
  BY <1>3 DEF OwedWait, Waits, InList, RequestCounts, Counts, Returns, At
<1>4. CASE RequestStarts(c)
  <2> DEFINE i == call[c].item
  <2>1. /\ p_head' = item_enqueue(i) /\ due' = due /\ call' = [call EXCEPT ![c] = NoCall]
        /\ i \in Items \cup {NULL}
    BY <1>4 DEF RequestStarts, Counts, Returns
  <2>2. i \in Items => i \in Range(p_head')
    BY <2>1, EnqueueKeepsList
  <2>3. \A j \in Items : InList(j) => InList(j)'
    <3>1. \A j \in Range(p_head) : j \in Range(p_head')
      BY <2>1, EnqueueKeepsList
    <3> QED  BY <3>1 DEF InList
  <2>4. ASSUME NEW j \in due PROVE Waits(j)'
    <3>1. j \in Items
      OBVIOUS
    <3>2. CASE InList(j)
      BY <3>1, <3>2, <2>3 DEF Waits
    <3>3. CASE j = i
      BY <3>1, <3>3, <2>2 DEF Waits, InList
    <3>4. CASE ~InList(j) /\ j # i
      <4>1. PICK d \in Contexts : call[d].pc \in {"on", "off"} /\ call[d].item = j
        BY <3>4 DEF OwedWait, Waits
      <4>2. d # c /\ call'[d] = call[d]
        BY <4>1, <3>4, <2>1
      <4> QED  BY <4>1, <4>2 DEF Waits
    <3> QED  BY <3>2, <3>3, <3>4
  <2> QED  BY <2>1, <2>4 DEF OwedWait
<1>5. CASE nrf_drv_clock_release(c)
  BY <1>5 DEF OwedWait, Waits, InList, nrf_drv_clock_release
<1> QED  BY <1>1, <1>2, <1>3, <1>4, <1>5 DEF RequestGoesOn

\* No step of the interrupt does, except by calling it.
LEMMA IrqKeepsOwed ==
    ASSUME IInv, OwedWait, POWER_CLOCK_IRQHandler
    PROVE  OwedWait'
<1>1. CASE IrqCalls
  <2>1. /\ irq.pc = "store" /\ p_head # <<>> /\ irq.item = p_head[1]
        /\ due' = due \ {irq.item} /\ call' = call
    BY <1>1 DEF IrqCalls
  <2>2. \A j \in Range(p_head) : j = irq.item \/ j \in Range(p_head')
    <3>1. p_head \in Seq(Items) /\ IsInjective(p_head)
      OBVIOUS
    <3> QED  BY <1>1, <2>1, <3>1, DequeueKeepsList, Zenon DEF IrqCalls
  <2> QED  BY <2>1, <2>2 DEF OwedWait, Waits, InList
<1>2. CASE IrqEnters \/ IrqDisables \/ IrqSetsOn \/ IrqReadsHead \/ IrqLeaves
  BY <1>2 DEF OwedWait, Waits, InList, IrqEnters, IrqDisables, IrqSetsOn, IrqReadsHead,
              IrqLeaves, m_clock_cb
<1> QED  BY <1>1, <1>2 DEF POWER_CLOCK_IRQHandler

\* No step at all does.
LEMMA OwedKeepsWaiting == IInv /\ OwedWait /\ [Next]_vars => OwedWait'
<1> SUFFICES ASSUME IInv, OwedWait, [Next]_vars PROVE OwedWait'
  OBVIOUS
<1>1. CASE Starts
  BY <1>1 DEF Starts, m_clock_cb, OwedWait, Waits, InList
<1>2. CASE UNCHANGED vars
  BY <1>2 DEF vars, m_clock_cb, OwedWait, Waits, InList
<1>3. CASE POWER_CLOCK_IRQHandler
  BY <1>3, IrqKeepsOwed
<1>4. CASE \E c \in Contexts :
             \/ \E i \in Items \cup {NULL} : nrf_drv_clock_request(c, i)
             \/ RequestGoesOn(c)
             \/ nrf_drv_clock_release(c)
  BY <1>4, RequestsKeepOwed, Zenon
<1> QED  BY <1>1, <1>2, <1>3, <1>4, Zenon DEF Next

HIDE DEF IInv, RoomToHold, RequestsAreHeld, OnIsStable, StartIsNews, ListIsTheIrqs, RequestedRuns,
        OnMeansRunning, Contexts, TypeOK

(* No handler that is owed a call is lost: the interrupt takes the clock   *)
(* for on before it empties the list, so that with careful users nobody    *)
(* queues a handler between its two accesses to the head                   *)
(* (nrf_drv_clock.c:241, 530).                                             *)
THEOREM ClockNoHandlerIsLost == Careful /\ Spec => []NoHandlerIsLost
<1> SUFFICES ASSUME Careful PROVE Spec => []NoHandlerIsLost
  OBVIOUS
<1>1. Init => OwedWait
  BY DEF Init, OwedWait
<1>2. IInv /\ OwedWait /\ [Next]_vars => OwedWait'
  BY OwedKeepsWaiting
<1>3. OwedWait => NoHandlerIsLost
  BY DEF OwedWait, Waits, NoHandlerIsLost
<1>4. Spec => []IInv
  BY ClockInv
<1> QED  BY <1>1, <1>2, <1>3, <1>4, PTL DEF Spec

=============================================================================

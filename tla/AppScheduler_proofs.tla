------------------------ MODULE AppScheduler_proofs ------------------------
(***************************************************************************)
(* Proofs about AppScheduler for every queue size, every number of         *)
(* interrupt levels and every set of events, as long as the queue is       *)
(* smaller than the range of the uint8_t indices.  (Without that bound     *)
(* SpaceIsExact is false: the index wraps before the ring does.)           *)
(* The last part maps every step of the scheduler to one of EventQueue.    *)
(***************************************************************************)
EXTENDS AppScheduler, FiniteSetTheorems, SequenceTheorems, TLAPS

\* The ring has QueueSize + 1 slots, and an index must reach the last one.
IndexFits == QueueSize < IndexRange

-----------------------------------------------------------------------------
(* The index arithmetic.                                                   *)

\* next_index moves one slot forward round the ring of QueueSize + 1 slots.
LEMMA NextIndexWraps ==
    ASSUME IndexFits, NEW i \in Slots
    PROVE  /\ next_index(i) \in Slots
           /\ next_index(i) = IF i < QueueSize THEN i + 1 ELSE 0
<1>1. CASE i < QueueSize
  <2>1. i + 1 \in 0 .. (IndexRange - 1)
    BY <1>1, SchedulerAssumption DEF Slots, IndexFits
  <2>2. (i + 1) % IndexRange = i + 1
    BY <2>1, SchedulerAssumption
  <2> QED  BY <1>1, <2>2, SchedulerAssumption DEF next_index, Slots
<1>2. CASE ~(i < QueueSize)
  <2>1. 0 % IndexRange = 0
    BY SchedulerAssumption
  <2> QED  BY <1>2, <2>1, SchedulerAssumption DEF next_index, Slots
<1> QED  BY <1>1, <1>2

\* The occupation formula of the code counts the slots that are taken.
LEMMA UtilizationCounts ==
    ASSUME start \in Slots, end \in Slots
    PROVE  /\ Utilization(start, end) \in 0 .. QueueSize
           /\ Cardinality(Occupied) = Utilization(start, end)
<1> USE SchedulerAssumption
<1>1. CASE start <= end
  <2>1. Occupied = start .. (end - 1)
    BY <1>1 DEF Occupied, Slots
  <2>2. Cardinality(start .. (end - 1)) = end - start
    <3>1. start \in Int /\ end - 1 \in Int
      BY DEF Slots
    <3>2. Cardinality(start .. (end - 1)) =
            IF start > end - 1 THEN 0 ELSE (end - 1) - start + 1
      BY <3>1, FS_Interval
    <3> QED  BY <1>1, <3>1, <3>2 DEF Slots
  <2> QED  BY <1>1, <2>1, <2>2 DEF Utilization, Slots
<1>2. CASE ~(start <= end)
  <2>1. Occupied = (0 .. QueueSize) \ (end .. (start - 1))
    BY <1>2 DEF Occupied, Slots
  <2>2. /\ IsFiniteSet(0 .. QueueSize)
        /\ Cardinality(0 .. QueueSize) = QueueSize + 1
    BY FS_Interval
  <2>3. /\ IsFiniteSet(end .. (start - 1))
        /\ Cardinality(end .. (start - 1)) = start - end
    BY <1>2, FS_Interval DEF Slots
  <2>4. (0 .. QueueSize) \cap (end .. (start - 1)) = end .. (start - 1)
    BY <1>2 DEF Slots
  <2>5. Cardinality(Occupied) = (QueueSize + 1) - (start - end)
    <3>1. Cardinality(Occupied) = Cardinality(0 .. QueueSize)
            - Cardinality((0 .. QueueSize) \cap (end .. (start - 1)))
      BY <2>1, <2>2, <2>3, FS_Difference
    <3> QED  BY <2>2, <2>3, <2>4, <3>1
  <2> QED  BY <1>2, <2>5 DEF Utilization, Slots
<1> QED  BY <1>1, <1>2

\* The ring is full exactly when QueueSize of its slots are taken.
LEMMA FullMeansQueueSize ==
    ASSUME IndexFits, start \in Slots, end \in Slots
    PROVE  QueueFull <=> Utilization(start, end) = QueueSize
BY NextIndexWraps, SchedulerAssumption DEF QueueFull, Utilization, Slots

-----------------------------------------------------------------------------
(* The inductive invariant: besides the types, a handler works on the head *)
(* of the ring, and the slots being filled are taken, are not the one the  *)
(* handler reads, and differ from one another.                             *)

HandlerHoldsHead == exec.pc = "handler" => exec.index = start /\ start # end

HighWater == utilization >= Utilization(start, end)

IInv == TypeOK /\ HandlerHoldsHead /\ SlotsAreExclusive /\ HighWater

LEMMA InitIInv == Init => IInv
<1> SUFFICES ASSUME Init PROVE IInv
  OBVIOUS
<1> USE SchedulerAssumption
<1>1. TypeOK
  BY DEF Init, TypeOK, Slots, PutStates, ExecStates
<1>2. HandlerHoldsHead
  BY DEF Init, HandlerHoldsHead, ExecIdle
<1>3. SlotsAreExclusive
  BY DEF Init, SlotsAreExclusive, PutIdle
<1>4. HighWater
  BY DEF Init, HighWater, Utilization
<1> QED  BY <1>1, <1>2, <1>3, <1>4 DEF IInv

\* The head of the ring moves only when no put is in progress: a context that
\* executes is at the lowest level and not inside a put of its own.
LEMMA MainRunsAlone ==
    ASSUME Calls(0) PROVE \A c \in Contexts : put[c].pc = "idle"
BY SchedulerAssumption DEF Calls, Runs, Contexts

LEMMA ReservePreserves ==
    ASSUME IndexFits, IInv, NEW c \in Contexts, NEW e \in Events, Reserve(c, e)
    PROVE  IInv'
<1> USE SchedulerAssumption
<1>1. /\ TypeOK /\ HandlerHoldsHead /\ SlotsAreExclusive /\ HighWater
      /\ start \in Slots /\ end \in Slots
  BY DEF IInv, TypeOK
<1>2. /\ end' = next_index(end) /\ end' # start /\ start' = start
      /\ end' \in Slots /\ end' = IF end < QueueSize THEN end + 1 ELSE 0
  BY <1>1, NextIndexWraps DEF Reserve, QueueFull
<1>3. /\ exec' = exec
      /\ put' = [put EXCEPT ![c] = [pc |-> "reserved", index |-> end, event |-> e]]
  BY DEF Reserve
<1>4. put \in [Contexts -> PutStates]
  BY <1>1 DEF TypeOK
<1>5. Occupied' = Occupied \cup {end} /\ end \notin Occupied
  BY <1>1, <1>2 DEF Occupied, Slots
<1>6. TypeOK'
  <2>1. put' \in [Contexts -> PutStates]
    BY <1>1, <1>3, <1>4 DEF PutStates
  <2>2. Utilization(start, end') \in 0 .. QueueSize
    BY <1>1, <1>2 DEF Utilization, Slots
  <2> QED  BY <1>1, <1>2, <1>3, <2>1, <2>2 DEF TypeOK, Reserve
<1>7. HandlerHoldsHead'
  BY <1>1, <1>2, <1>3 DEF HandlerHoldsHead
<1>8. SlotsAreExclusive'
  <2> SUFFICES ASSUME NEW b \in Contexts, put'[b].pc # "idle"
               PROVE  /\ put'[b].index \in Occupied'
                      /\ exec'.pc = "handler" => put'[b].index # exec'.index
                      /\ \A d \in Contexts :
                            put'[d].pc # "idle" /\ put'[d].index = put'[b].index => d = b
    BY DEF SlotsAreExclusive, Filling
  <2>1. CASE b = c
    BY <1>1, <1>3, <1>4, <1>5, <2>1 DEF SlotsAreExclusive, Filling, HandlerHoldsHead
  <2>2. CASE b # c
    BY <1>1, <1>3, <1>4, <1>5, <2>2 DEF SlotsAreExclusive, Filling
  <2> QED  BY <2>1, <2>2
<1>9. HighWater'
  BY <1>1, <1>2, <1>6 DEF HighWater, Reserve, TypeOK, Utilization, Slots
<1> QED  BY <1>6, <1>7, <1>8, <1>9 DEF IInv

\* Filling a slot changes neither the indices nor who fills which slot.
LEMMA FillPreserves ==
    ASSUME IInv, NEW c \in Contexts, WriteHandler(c) \/ WriteData(c)
    PROVE  IInv'
<1> USE SchedulerAssumption
<1>1. TypeOK /\ HandlerHoldsHead /\ SlotsAreExclusive /\ HighWater
  BY DEF IInv
<1>2. put \in [Contexts -> PutStates] /\ put[c] \in PutStates /\ put[c].pc # "idle"
  BY <1>1 DEF TypeOK, WriteHandler, WriteData
<1>3. put[c].index \in Slots /\ put[c].event \in Events
  BY <1>2 DEF PutStates, PutIdle
<1>4. \A d \in Contexts : put'[d].pc # "idle" =>
         put[d].pc # "idle" /\ put'[d].index = put[d].index
  BY <1>2 DEF WriteHandler, WriteData, PutStates, PutIdle
<1>5. UNCHANGED <<start, end, exec, utilization>>
  BY DEF WriteHandler, WriteData
<1>6. TypeOK'
  <2>1. put' \in [Contexts -> PutStates]
    <3>1. CASE WriteHandler(c)
      <4>1. [put[c] EXCEPT !.pc = "handler_written"] \in PutStates
        BY <1>2, <1>3 DEF PutStates, PutIdle
      <4> QED  BY <1>2, <3>1, <4>1 DEF WriteHandler
    <3>2. CASE WriteData(c)
      BY <1>2, <3>2 DEF WriteData, PutStates
    <3> QED  BY <3>1, <3>2
  <2>2. /\ handlerOf' \in [Slots -> Handlers \cup {Unset}]
        /\ dataOf' \in [Slots -> Data \cup {Unset}]
    BY <1>1, <1>3 DEF TypeOK, WriteHandler, WriteData, Events
  <2> QED  BY <1>1, <1>5, <2>1, <2>2 DEF TypeOK, WriteHandler, WriteData
<1>7. HandlerHoldsHead' /\ HighWater'
  BY <1>1, <1>5 DEF HandlerHoldsHead, HighWater
<1>8. SlotsAreExclusive'
  BY <1>1, <1>4, <1>5 DEF SlotsAreExclusive, Filling, Occupied
<1> QED  BY <1>6, <1>7, <1>8 DEF IInv

LEMMA ExecuteFetchPreserves ==
    ASSUME IInv, ExecuteFetch
    PROVE  IInv'
<1>1. \A c \in Contexts : put[c].pc = "idle"
  BY MainRunsAlone DEF ExecuteFetch
<1>2. TypeOK'
  BY DEF IInv, TypeOK, ExecuteFetch, ExecStates
<1>3. HandlerHoldsHead' /\ HighWater'
  BY DEF IInv, HandlerHoldsHead, HighWater, ExecuteFetch, QueueEmpty
<1>4. SlotsAreExclusive'
  BY <1>1 DEF SlotsAreExclusive, ExecuteFetch
<1> QED  BY <1>2, <1>3, <1>4 DEF IInv

LEMMA ExecuteDonePreserves ==
    ASSUME IndexFits, IInv, ExecuteDone
    PROVE  IInv'
<1>1. \A c \in Contexts : put[c].pc = "idle"
  BY MainRunsAlone DEF ExecuteDone
<1>2. start' \in Slots /\ start' = IF start < QueueSize THEN start + 1 ELSE 0
  BY NextIndexWraps DEF IInv, TypeOK, ExecuteDone
<1>3. TypeOK'
  BY <1>2 DEF IInv, TypeOK, ExecuteDone, ExecStates
<1>4. HandlerHoldsHead'
  BY DEF HandlerHoldsHead, ExecuteDone, ExecIdle
<1>5. HighWater'
  <2>1. start # end /\ end' = end /\ utilization' = utilization
    BY DEF IInv, HandlerHoldsHead, ExecuteDone
  <2> QED  BY <1>2, <2>1, SchedulerAssumption
           DEF IInv, TypeOK, HighWater, Utilization, Slots
<1>6. SlotsAreExclusive'
  BY <1>1 DEF SlotsAreExclusive, ExecuteDone
<1> QED  BY <1>3, <1>4, <1>5, <1>6 DEF IInv

\* The steps that touch only ret or the pause counter, and stuttering.
LEMMA OtherStepsPreserve ==
    ASSUME IInv,
           \/ UNCHANGED vars
           \/ \E c \in Contexts : \/ RejectLength(c) \/ Refuse(c)
                                  \/ app_sched_pause(c) \/ app_sched_resume(c)
    PROVE  IInv'
<1> USE SchedulerAssumption
<1>1. UNCHANGED <<start, end, handlerOf, dataOf, utilization, put, exec>>
  BY DEF RejectLength, Refuse, app_sched_pause, app_sched_resume, vars
<1>2. TypeOK'
  BY DEF IInv, TypeOK, RejectLength, Refuse, app_sched_pause, app_sched_resume, vars
<1>3. HandlerHoldsHead' /\ HighWater' /\ SlotsAreExclusive'
  BY <1>1 DEF IInv, HandlerHoldsHead, HighWater, SlotsAreExclusive, Filling, Occupied
<1> QED  BY <1>2, <1>3 DEF IInv

LEMMA NextPreservesIInv ==
    ASSUME IndexFits PROVE IInv /\ [Next]_vars => IInv'
<1> SUFFICES ASSUME IInv, [Next]_vars PROVE IInv'
  OBVIOUS
<1>1. CASE \E c \in Contexts, e \in Events : Reserve(c, e)
  BY <1>1, ReservePreserves
<1>2. CASE \E c \in Contexts : WriteHandler(c) \/ WriteData(c)
  BY <1>2, FillPreserves
<1>3. CASE ExecuteFetch
  BY <1>3, ExecuteFetchPreserves
<1>4. CASE ExecuteDone
  BY <1>4, ExecuteDonePreserves
<1>5. CASE \/ UNCHANGED vars
           \/ \E c \in Contexts : \/ RejectLength(c) \/ Refuse(c)
                                  \/ app_sched_pause(c) \/ app_sched_resume(c)
  BY <1>5, OtherStepsPreserve
<1> QED  BY <1>1, <1>2, <1>3, <1>4, <1>5 DEF Next

LEMMA InductiveInvariant ==
    ASSUME IndexFits PROVE Spec => []IInv
BY InitIInv, NextPreservesIInv, PTL DEF Spec

-----------------------------------------------------------------------------
\* The variables keep their types: in particular both indices stay in the ring.
THEOREM SchedulerTypeOK ==
    ASSUME IndexFits PROVE Spec => []TypeOK
<1>1. IInv => TypeOK
  BY DEF IInv
<1> QED  BY <1>1, InductiveInvariant, PTL

\* Puts that interrupt one another in the unprotected half of
\* app_sched_event_put never touch each other's slot or the handler's.
THEOREM SchedulerSlotsAreExclusive ==
    ASSUME IndexFits PROVE Spec => []SlotsAreExclusive
<1>1. IInv => SlotsAreExclusive
  BY DEF IInv
<1> QED  BY <1>1, InductiveInvariant, PTL

\* app_sched_queue_space_get, the full test and the high-water mark agree with
\* the number of slots taken.
THEOREM SchedulerSpaceIsExact ==
    ASSUME IndexFits PROVE Spec => []SpaceIsExact
<1>1. IInv => SpaceIsExact
  BY UtilizationCounts, FullMeansQueueSize, SchedulerAssumption
     DEF IInv, TypeOK, HighWater, SpaceIsExact, app_sched_queue_space_get
<1> QED  BY <1>1, InductiveInvariant, PTL

-----------------------------------------------------------------------------
(* The ring implements EventQueue.  What the mapping needs beside IInv: a  *)
(* put that has written the handler has written its own; a slot that is    *)
(* taken holds an event, or its put does; and so does the slot a handler   *)
(* reads.                                                                  *)

\* The record that stands for "no handler runs" is not itself an event.
NoneIsNoEvent == None \notin Events

HandlerWritten ==
    \A c \in Contexts : put[c].pc = "handler_written" =>
        handlerOf[put[c].index] = put[c].event.handler

SlotsHoldEvents ==
    \A i \in Occupied : (\A c \in Contexts : ~Filling(c, i)) =>
        handlerOf[i] \in Handlers /\ dataOf[i] \in Data

RunsAnEvent == exec.pc = "handler" => exec.handler \in Handlers /\ dataOf[start] \in Data

QInv == IInv /\ HandlerWritten /\ SlotsHoldEvents /\ RunsAnEvent

\* A slot that one put fills stands for the event of that put.
LEMMA FillerIsUnique ==
    ASSUME NEW p, NEW i, NEW c \in Contexts, p[c].pc # "idle", p[c].index = i,
           \A d \in Contexts : p[d].pc # "idle" /\ p[d].index = i => d = c
    PROVE  (CHOOSE d \in Contexts : p[d].pc # "idle" /\ p[d].index = i) = c
OBVIOUS

LEMMA EventOfFilledSlot ==
    ASSUME SlotsAreExclusive, NEW c \in Contexts, put[c].pc # "idle"
    PROVE  EventAt(put[c].index) = put[c].event
<1>1. \A d \in Contexts : put[d].pc # "idle" /\ put[d].index = put[c].index => d = c
  BY DEF SlotsAreExclusive, Filling
<1>2. (CHOOSE d \in Contexts : put[d].pc # "idle" /\ put[d].index = put[c].index) = c
  BY <1>1, FillerIsUnique
<1> QED  BY <1>2 DEF EventAt, Filling

\* A slot that nobody fills stands for what it holds.
LEMMA EventOfQuietSlot ==
    ASSUME NEW i, \A c \in Contexts : ~Filling(c, i)
    PROVE  EventAt(i) = [handler |-> handlerOf[i], data |-> dataOf[i]]
BY DEF EventAt

\* Every slot that is taken stands for an event.
LEMMA SlotsStandForEvents ==
    ASSUME QInv, NEW i \in Occupied PROVE EventAt(i) \in Events
<1>1. CASE \E c \in Contexts : Filling(c, i)
  <2>1. PICK c \in Contexts : put[c].pc # "idle" /\ put[c].index = i
    BY <1>1 DEF Filling
  <2>2. put[c].event \in Events
    BY <2>1 DEF QInv, IInv, TypeOK, PutStates, PutIdle
  <2> QED  BY <2>1, <2>2, EventOfFilledSlot DEF QInv, IInv
<1>2. CASE \A c \in Contexts : ~Filling(c, i)
  BY <1>2, EventOfQuietSlot DEF QInv, SlotsHoldEvents, Events
<1> QED  BY <1>1, <1>2

-----------------------------------------------------------------------------
(* Positions of the queue and slots of the ring.                           *)

LEMMA PositionsAreSlots ==
    ASSUME start \in Slots, end \in Slots, NEW k \in 1 .. Utilization(start, end)
    PROVE  SlotAt(k) \in Occupied
BY SchedulerAssumption DEF SlotAt, Occupied, Utilization, Slots

LEMMA NextPositionIsEnd ==
    ASSUME start \in Slots, end \in Slots
    PROVE  SlotAt(Utilization(start, end) + 1) = end
BY SchedulerAssumption DEF SlotAt, Utilization, Slots

LEMMA OccupiedIsEmptyAtStart ==
    ASSUME start \in Slots, end \in Slots
    PROVE  /\ Utilization(start, end) \in 0 .. QueueSize
           /\ start = end <=> Utilization(start, end) = 0
           /\ SlotAt(1) = start
           /\ start # end => start \in Occupied
BY SchedulerAssumption DEF SlotAt, Utilization, Occupied, Slots

\* A function on 1 .. n is a sequence; what Append and Tail do to one.
LEMMA FunctionIsSequence ==
    ASSUME NEW n \in Nat, NEW S, NEW f \in [1 .. n -> S]
    PROVE  f \in Seq(S) /\ Len(f) = n
<1>1. f \in Seq(S)
  BY SeqDef
<1>2. Len(f) \in Nat /\ DOMAIN f = 1 .. Len(f)
  BY <1>1, LenProperties
<1> QED  BY <1>1, <1>2

LEMMA AppendIsFunction ==
    ASSUME NEW n \in Nat, NEW S, NEW f \in [1 .. n -> S], NEW e \in S,
           NEW g \in [1 .. n + 1 -> S],
           \A k \in 1 .. n : g[k] = f[k], g[n + 1] = e
    PROVE  g = Append(f, e)
<1>1. f \in Seq(S) /\ Len(f) = n /\ g \in Seq(S) /\ Len(g) = n + 1
  BY FunctionIsSequence
<1> QED  BY <1>1, AppendProperties, SeqEqual

LEMMA TailIsFunction ==
    ASSUME NEW n \in Nat \ {0}, NEW S, NEW f \in [1 .. n -> S],
           NEW g \in [1 .. n - 1 -> S], \A k \in 1 .. n - 1 : g[k] = f[k + 1]
    PROVE  g = Tail(f)
<1>1. f \in Seq(S) /\ Len(f) = n /\ g \in Seq(S) /\ Len(g) = n - 1 /\ f # <<>>
  BY FunctionIsSequence
<1> QED  BY <1>1, HeadTailProperties, SeqEqual

\* In a ring whose slots stand for events the mapping is a sequence of them.
QueueIsARing ==
    /\ Utilization(start, end) \in 0 .. QueueSize
    /\ QueueBar \in [1 .. Utilization(start, end) -> Events]
    /\ QueueBar \in Seq(Events)
    /\ Len(QueueBar) = Utilization(start, end)

LEMMA QueueIsSequence == QInv => QueueIsARing
<1> SUFFICES ASSUME QInv PROVE QueueIsARing
  OBVIOUS
<1>1. start \in Slots /\ end \in Slots
  BY DEF QInv, IInv, TypeOK
<1>2. Utilization(start, end) \in 0 .. QueueSize
  BY <1>1, OccupiedIsEmptyAtStart
<1>3. QueueBar \in [1 .. Utilization(start, end) -> Events]
  BY <1>1, PositionsAreSlots, SlotsStandForEvents DEF QueueBar
<1> QED  BY <1>2, <1>3, FunctionIsSequence, SchedulerAssumption DEF QueueIsARing

LEMMA QueueIsSequenceAfter == QInv' => QueueIsARing'
BY QueueIsSequence, PTL

-----------------------------------------------------------------------------
(* QInv is an invariant.                                                   *)

LEMMA InitQInv == Init => QInv
<1> SUFFICES ASSUME Init PROVE QInv
  OBVIOUS
<1>1. IInv
  BY InitIInv
<1>2. Occupied = {}
  BY SchedulerAssumption DEF Init, Occupied, Slots
<1>3. HandlerWritten /\ SlotsHoldEvents /\ RunsAnEvent
  BY <1>2 DEF Init, HandlerWritten, SlotsHoldEvents, RunsAnEvent, PutIdle, ExecIdle
<1> QED  BY <1>1, <1>3 DEF QInv

\* A put takes the slot at the end of the ring and stands for its event from
\* then on; the slots taken before stand for the events they stood for.
LEMMA ReservePreservesQInv ==
    ASSUME IndexFits, QInv, NEW c \in Contexts, NEW e \in Events, Reserve(c, e)
    PROVE  /\ QInv'
           /\ Occupied' = Occupied \cup {end} /\ end \notin Occupied
           /\ \A i \in Occupied : EventAt(i)' = EventAt(i)
           /\ \A i \in Slots : i = end => EventAt(i)' = e
<1>1. IInv /\ IInv' /\ SlotsAreExclusive /\ SlotsAreExclusive'
  BY ReservePreserves DEF QInv, IInv
<1>2. /\ start' = start /\ end' = next_index(end) /\ end' # start
      /\ start \in Slots /\ end \in Slots
      /\ end' \in Slots /\ end' = IF end < QueueSize THEN end + 1 ELSE 0
  BY <1>1, NextIndexWraps DEF Reserve, QueueFull, IInv, TypeOK
<1>3. Occupied' = Occupied \cup {end} /\ end \notin Occupied
  BY <1>2, SchedulerAssumption DEF Occupied, Slots
<1>4. /\ UNCHANGED <<handlerOf, dataOf, exec>>
      /\ put[c].pc = "idle"
      /\ put' = [put EXCEPT ![c] = [pc |-> "reserved", index |-> end, event |-> e]]
      /\ put \in [Contexts -> PutStates]
  BY <1>1 DEF Reserve, Calls, IInv, TypeOK
<1>5. /\ \A i \in Occupied, d \in Contexts :
            (put'[d].pc # "idle" /\ put'[d].index = i) <=> (put[d].pc # "idle" /\ put[d].index = i)
      /\ \A i \in Occupied, d \in Contexts :
            put[d].pc # "idle" /\ put[d].index = i => put'[d].event = put[d].event
  BY <1>3, <1>4
<1>6. \A i \in Occupied : EventAt(i)' = EventAt(i)
  <2> SUFFICES ASSUME NEW i \in Occupied PROVE EventAt(i)' = EventAt(i)
    OBVIOUS
  <2>1. CASE \E d \in Contexts : put[d].pc # "idle" /\ put[d].index = i
    <3>1. PICK d \in Contexts : put[d].pc # "idle" /\ put[d].index = i
      BY <2>1
    <3>2. EventAt(i) = put[d].event
      BY <3>1, <1>1, EventOfFilledSlot
    <3>3. put'[d].pc # "idle" /\ put'[d].index = i /\ put'[d].event = put[d].event
      BY <3>1, <1>5
    <3>4. \A b \in Contexts : put'[b].pc # "idle" /\ put'[b].index = i => b = d
      BY <3>1, <1>1, <1>5 DEF SlotsAreExclusive, Filling
    <3>5. (CHOOSE b \in Contexts : put'[b].pc # "idle" /\ put'[b].index = i) = d
      BY <3>3, <3>4, FillerIsUnique
    <3> QED  BY <3>2, <3>3, <3>5 DEF EventAt, Filling
  <2>2. CASE ~\E d \in Contexts : put[d].pc # "idle" /\ put[d].index = i
    BY <2>2, <1>4, <1>5 DEF EventAt, Filling
  <2> QED  BY <2>1, <2>2
<1>7. ASSUME NEW i \in Slots, i = end PROVE EventAt(i)' = e
  <2>1. put'[c].pc # "idle" /\ put'[c].index = i /\ put'[c].event = e
    BY <1>4, <1>7
  <2>2. \A b \in Contexts : put'[b].pc # "idle" /\ put'[b].index = i => b = c
    BY <1>1, <2>1 DEF SlotsAreExclusive, Filling
  <2>3. (CHOOSE b \in Contexts : put'[b].pc # "idle" /\ put'[b].index = i) = c
    BY <2>1, <2>2, FillerIsUnique
  <2> QED  BY <2>1, <2>3 DEF EventAt, Filling
<1>8. HandlerWritten'
  BY <1>4 DEF HandlerWritten, QInv
<1>9. SlotsHoldEvents'
  BY <1>3, <1>4, <1>5 DEF QInv, SlotsHoldEvents, Filling
<1>10. RunsAnEvent'
  BY <1>2, <1>4 DEF QInv, RunsAnEvent
<1> QED  BY <1>1, <1>3, <1>6, <1>7, <1>8, <1>9, <1>10 DEF QInv


\* Writing the handler into a slot shows nothing: its put stands for the event.
LEMMA WriteHandlerPreservesQInv ==
    ASSUME QInv, NEW c \in Contexts, WriteHandler(c)
    PROVE  /\ QInv' /\ Occupied' = Occupied
           /\ \A i \in Occupied : EventAt(i)' = EventAt(i)
<1>1. IInv /\ IInv' /\ SlotsAreExclusive /\ SlotsAreExclusive'
  BY FillPreserves DEF QInv, IInv
<1>2. /\ UNCHANGED <<start, end, dataOf, exec>> /\ Occupied' = Occupied
      /\ put[c].pc = "reserved"
      /\ put' = [put EXCEPT ![c] = [put[c] EXCEPT !.pc = "handler_written"]]
      /\ handlerOf' = [handlerOf EXCEPT ![put[c].index] = put[c].event.handler]
  BY DEF WriteHandler, Occupied
<1>3. /\ put \in [Contexts -> PutStates] /\ handlerOf \in [Slots -> Handlers \cup {Unset}]
      /\ put[c] \in [pc : {"reserved", "handler_written"}, index : Slots, event : Events]
  BY <1>1, <1>2 DEF IInv, TypeOK, PutStates, PutIdle
<1>4. \A d \in Contexts : /\ put'[d].pc = "idle" <=> put[d].pc = "idle"
                          /\ put'[d].index = put[d].index
                          /\ put'[d].event = put[d].event
  BY <1>2, <1>3
<1>5. \A i \in Occupied, d \in Contexts : Filling(d, i)' <=> Filling(d, i)
  BY <1>4 DEF Filling
<1>6. \A i \in Occupied : EventAt(i)' = EventAt(i)
  <2> SUFFICES ASSUME NEW i \in Occupied PROVE EventAt(i)' = EventAt(i)
    OBVIOUS
  <2>1. CASE \E d \in Contexts : put[d].pc # "idle" /\ put[d].index = i
    <3>1. PICK d \in Contexts : put[d].pc # "idle" /\ put[d].index = i
      BY <2>1
    <3>2. EventAt(i) = put[d].event
      BY <3>1, <1>1, EventOfFilledSlot
    <3>3. put'[d].pc # "idle" /\ put'[d].index = i /\ put'[d].event = put[d].event
      BY <3>1, <1>4
    <3>4. \A b \in Contexts : put'[b].pc # "idle" /\ put'[b].index = i => b = d
      BY <3>1, <3>3, <1>1 DEF SlotsAreExclusive, Filling
    <3>5. (CHOOSE b \in Contexts : put'[b].pc # "idle" /\ put'[b].index = i) = d
      BY <3>3, <3>4, FillerIsUnique
    <3> QED  BY <3>2, <3>3, <3>5 DEF EventAt, Filling
  <2>2. CASE ~\E d \in Contexts : put[d].pc # "idle" /\ put[d].index = i
    BY <2>2, <1>2, <1>3, <1>4 DEF EventAt, Filling, Occupied
  <2> QED  BY <2>1, <2>2
<1>7. HandlerWritten'
  <2> SUFFICES ASSUME NEW d \in Contexts, put'[d].pc = "handler_written"
               PROVE  handlerOf'[put'[d].index] = put'[d].event.handler
    BY DEF HandlerWritten
  <2>1. CASE d = c
    BY <2>1, <1>2, <1>3
  <2>2. CASE d # c
    <3>1. put'[d] = put[d] /\ put[d].pc # "idle" /\ put[d].index # put[c].index
      BY <2>2, <1>1, <1>2, <1>3 DEF SlotsAreExclusive, Filling
    <3>2. put[d].index \in Slots
      BY <3>1, <1>3 DEF PutStates, PutIdle
    <3> QED  BY <3>1, <3>2, <1>2, <1>3 DEF QInv, HandlerWritten
  <2> QED  BY <2>1, <2>2
<1>8. SlotsHoldEvents'
  <2>1. \A i \in Occupied : ~Filling(c, i) => i # put[c].index
    BY <1>2 DEF Filling
  <2> QED  BY <1>2, <1>3, <1>5, <2>1 DEF QInv, SlotsHoldEvents, Occupied
<1>9. RunsAnEvent'
  BY <1>2 DEF QInv, RunsAnEvent
<1> QED  BY <1>1, <1>2, <1>6, <1>7, <1>8, <1>9 DEF QInv

\* Writing the data ends the put: the slot now holds the event itself, and it
\* is not the slot a handler reads.
LEMMA WriteDataPreservesQInv ==
    ASSUME QInv, NEW c \in Contexts, WriteData(c)
    PROVE  /\ QInv' /\ Occupied' = Occupied
           /\ \A i \in Occupied : EventAt(i)' = EventAt(i)
           /\ exec.pc = "handler" => dataOf'[exec.index] = dataOf[exec.index]
<1>1. IInv /\ IInv' /\ SlotsAreExclusive /\ SlotsAreExclusive'
  BY FillPreserves DEF QInv, IInv
<1>2. /\ UNCHANGED <<start, end, handlerOf, exec>> /\ Occupied' = Occupied
      /\ put[c].pc = "handler_written"
      /\ put' = [put EXCEPT ![c] = PutIdle]
      /\ dataOf' = [dataOf EXCEPT ![put[c].index] = put[c].event.data]
  BY DEF WriteData, Occupied
<1>3. /\ put \in [Contexts -> PutStates] /\ dataOf \in [Slots -> Data \cup {Unset}]
      /\ put[c] \in [pc : {"reserved", "handler_written"}, index : Slots, event : Events]
  BY <1>1, <1>2 DEF IInv, TypeOK, PutStates, PutIdle
<1>4. /\ put'[c].pc = "idle"
      /\ \A d \in Contexts : d # c => put'[d] = put[d]
      /\ \A d \in Contexts : d # c /\ put[d].pc # "idle" => put[d].index # put[c].index
  BY <1>1, <1>2, <1>3 DEF SlotsAreExclusive, Filling, PutIdle
<1>5. handlerOf[put[c].index] = put[c].event.handler
  BY <1>2 DEF QInv, HandlerWritten
<1>6. \A i \in Occupied : EventAt(i)' = EventAt(i)
  <2> SUFFICES ASSUME NEW i \in Occupied PROVE EventAt(i)' = EventAt(i)
    OBVIOUS
  <2>1. CASE i = put[c].index
    <3>1. EventAt(i) = put[c].event
      BY <1>1, <1>2, <2>1, EventOfFilledSlot
    <3>2. \A d \in Contexts : ~(put'[d].pc # "idle" /\ put'[d].index = i)
      BY <1>4, <2>1
    <3>3. EventAt(i)' = [handler |-> handlerOf'[i], data |-> dataOf'[i]]
      BY <3>2 DEF EventAt, Filling
    <3>4. /\ handlerOf'[i] = put[c].event.handler /\ dataOf'[i] = put[c].event.data
      BY <1>2, <1>3, <1>5, <2>1
    <3> QED  BY <3>1, <3>3, <3>4, <1>3 DEF Events
  <2>2. CASE i # put[c].index /\ \E d \in Contexts : put[d].pc # "idle" /\ put[d].index = i
    <3>1. PICK d \in Contexts : put[d].pc # "idle" /\ put[d].index = i
      BY <2>2
    <3>2. EventAt(i) = put[d].event
      BY <3>1, <1>1, EventOfFilledSlot
    <3>3. put'[d].pc # "idle" /\ put'[d].index = i /\ put'[d].event = put[d].event
      BY <2>2, <3>1, <1>4
    <3>4. \A b \in Contexts : put'[b].pc # "idle" /\ put'[b].index = i => b = d
      BY <3>1, <3>3, <1>1 DEF SlotsAreExclusive, Filling
    <3>5. (CHOOSE b \in Contexts : put'[b].pc # "idle" /\ put'[b].index = i) = d
      BY <3>3, <3>4, FillerIsUnique
    <3> QED  BY <3>2, <3>3, <3>5 DEF EventAt, Filling
  <2>3. CASE ~\E d \in Contexts : put[d].pc # "idle" /\ put[d].index = i
    <3>1. \A d \in Contexts : ~(put'[d].pc # "idle" /\ put'[d].index = i)
      BY <1>4, <2>3
    <3>2. i \in Slots /\ i # put[c].index
      BY <1>2, <2>3 DEF Occupied
    <3>3. dataOf'[i] = dataOf[i]
      BY <3>2, <1>2, <1>3
    <3> QED  BY <3>1, <3>3, <2>3, <1>2 DEF EventAt, Filling
  <2> QED  BY <2>1, <2>2, <2>3
<1>7. exec.pc = "handler" => dataOf'[exec.index] = dataOf[exec.index] /\ exec.index = start
  <2> SUFFICES ASSUME exec.pc = "handler"
               PROVE  dataOf'[exec.index] = dataOf[exec.index] /\ exec.index = start
    OBVIOUS
  <2>1. exec.index # put[c].index /\ exec.index = start /\ start \in Slots
    BY <1>1, <1>2 DEF IInv, TypeOK, HandlerHoldsHead, SlotsAreExclusive
  <2> QED  BY <2>1, <1>2, <1>3
<1>8. HandlerWritten'
  BY <1>2, <1>3, <1>4 DEF QInv, HandlerWritten, PutIdle
<1>9. SlotsHoldEvents'
  <2> SUFFICES ASSUME NEW i \in Occupied, \A d \in Contexts : ~Filling(d, i)'
               PROVE  handlerOf'[i] \in Handlers /\ dataOf'[i] \in Data
    BY <1>2 DEF SlotsHoldEvents
  <2>1. CASE i = put[c].index
    BY <2>1, <1>2, <1>3, <1>5 DEF Events
  <2>2. CASE i # put[c].index
    <3>1. \A d \in Contexts : ~Filling(d, i)
      BY <2>2, <1>4 DEF Filling
    <3> QED  BY <2>2, <3>1, <1>2, <1>3 DEF QInv, SlotsHoldEvents, Occupied
  <2> QED  BY <2>1, <2>2
<1>10. RunsAnEvent'
  BY <1>2, <1>7 DEF QInv, RunsAnEvent
<1> QED  BY <1>1, <1>2, <1>6, <1>7, <1>8, <1>9, <1>10 DEF QInv

\* The main loop reads a slot no put is filling.
LEMMA ExecuteFetchPreservesQInv ==
    ASSUME QInv, ExecuteFetch
    PROVE  /\ QInv' /\ RunningBar' = EventAt(start)
<1>1. IInv /\ IInv'
  BY ExecuteFetchPreserves DEF QInv
<1>2. \A c \in Contexts : put[c].pc = "idle"
  BY MainRunsAlone DEF ExecuteFetch
<1>3. /\ UNCHANGED <<start, end, handlerOf, dataOf, put>> /\ Occupied' = Occupied
      /\ exec' = [pc |-> "handler", index |-> start, handler |-> handlerOf[start]]
      /\ start # end
  BY DEF ExecuteFetch, QueueEmpty, Occupied
<1>4. start \in Occupied
  BY <1>1, <1>3, OccupiedIsEmptyAtStart DEF IInv, TypeOK
<1>5. HandlerWritten' /\ SlotsHoldEvents'
  BY <1>3 DEF QInv, HandlerWritten, SlotsHoldEvents, Filling
<1>6. RunsAnEvent'
  BY <1>2, <1>3, <1>4 DEF QInv, RunsAnEvent, SlotsHoldEvents, Filling
<1>7. RunningBar' = [handler |-> handlerOf[start], data |-> dataOf[start]]
  BY <1>3 DEF RunningBar
<1>8. EventAt(start) = [handler |-> handlerOf[start], data |-> dataOf[start]]
  BY <1>2, EventOfQuietSlot DEF Filling
<1> QED  BY <1>1, <1>5, <1>6, <1>7, <1>8 DEF QInv

\* The slot given back is the head; the others stay as they are.
LEMMA ExecuteDonePreservesQInv ==
    ASSUME IndexFits, QInv, ExecuteDone
    PROVE  /\ QInv' /\ RunningBar' = None
           /\ Utilization(start', end') = Utilization(start, end) - 1
           /\ \A k \in 1 .. Utilization(start', end') : SlotAt(k)' = SlotAt(k + 1)
           /\ \A i \in Occupied : EventAt(i)' = EventAt(i)
<1>1. IInv /\ IInv'
  BY ExecuteDonePreserves DEF QInv
<1>2. \A c \in Contexts : put[c].pc = "idle"
  BY MainRunsAlone DEF ExecuteDone
<1>3. /\ UNCHANGED <<end, handlerOf, dataOf, put>>
      /\ start' = next_index(start) /\ exec' = ExecIdle /\ exec.pc = "handler"
  BY DEF ExecuteDone
<1>4. /\ start \in Slots /\ end \in Slots /\ start # end
      /\ start' = IF start < QueueSize THEN start + 1 ELSE 0
  BY <1>1, <1>3, NextIndexWraps DEF IInv, TypeOK, HandlerHoldsHead
<1>5. Occupied' \subseteq Occupied
  BY <1>3, <1>4, SchedulerAssumption DEF Occupied, Slots
<1>6. /\ Utilization(start', end') = Utilization(start, end) - 1
      /\ \A k \in 1 .. Utilization(start', end') : SlotAt(k)' = SlotAt(k + 1)
  BY <1>3, <1>4, SchedulerAssumption DEF Utilization, SlotAt, Slots
<1>7. \A i \in Occupied : EventAt(i)' = EventAt(i)
  BY <1>2, <1>3 DEF EventAt, Filling
<1>8. HandlerWritten' /\ SlotsHoldEvents' /\ RunsAnEvent' /\ RunningBar' = None
  BY <1>2, <1>3, <1>5
     DEF QInv, HandlerWritten, SlotsHoldEvents, RunsAnEvent, RunningBar, ExecIdle, Filling
<1> QED  BY <1>1, <1>6, <1>7, <1>8 DEF QInv

\* The other steps leave ring and handler alone.
OtherStep ==
    \/ UNCHANGED vars
    \/ \E c \in Contexts : \/ RejectLength(c) \/ Refuse(c)
                           \/ app_sched_pause(c) \/ app_sched_resume(c)

LEMMA OtherStepsPreserveQInv ==
    ASSUME QInv, OtherStep
    PROVE  QInv' /\ UNCHANGED <<QueueBar, RunningBar>>
<1>1. UNCHANGED <<start, end, handlerOf, dataOf, put, exec>>
  BY DEF OtherStep, RejectLength, Refuse, app_sched_pause, app_sched_resume, vars
<1>2. IInv'
  BY OtherStepsPreserve DEF OtherStep, QInv
<1>3. HandlerWritten' /\ SlotsHoldEvents' /\ RunsAnEvent'
  BY <1>1 DEF QInv, HandlerWritten, SlotsHoldEvents, RunsAnEvent, Filling, Occupied
<1>4. UNCHANGED <<QueueBar, RunningBar>>
  BY <1>1 DEF QueueBar, RunningBar, EventAt, SlotAt, Filling, Utilization
<1> QED  BY <1>2, <1>3, <1>4 DEF QInv


-----------------------------------------------------------------------------
(* Every step of the ring is a step of the queue, or changes nothing of it. *)

\* The slots that stay taken, at the positions they had, make an equal queue.
LEMMA SameRingSameQueue ==
    ASSUME QInv, UNCHANGED <<start, end>>, \A i \in Occupied : EventAt(i)' = EventAt(i)
    PROVE  UNCHANGED QueueBar
<1>1. start \in Slots /\ end \in Slots
  BY DEF QInv, IInv, TypeOK
<1>2. \A k \in 1 .. Utilization(start, end) :
         SlotAt(k) \in Occupied /\ EventAt(SlotAt(k))' = EventAt(SlotAt(k))
  <2> SUFFICES ASSUME NEW k \in 1 .. Utilization(start, end)
               PROVE  SlotAt(k) \in Occupied /\ EventAt(SlotAt(k))' = EventAt(SlotAt(k))
    OBVIOUS
  <2>1. SlotAt(k) \in Occupied
    BY <1>1, PositionsAreSlots
  <2>2. SlotAt(k)' = SlotAt(k)
    BY DEF SlotAt
  <2>3. PICK i \in Occupied : i = SlotAt(k)
    BY <2>1
  <2>4. EventAt(SlotAt(k))' = EventAt(i)'
    BY <2>2, <2>3 DEF EventAt, Filling
  <2> QED  BY <2>1, <2>3, <2>4
<1> QED  BY <1>2 DEF QueueBar, Utilization

\* An accepted put appends its event.
LEMMA ReserveAccepts ==
    ASSUME IndexFits, QInv, NEW c \in Contexts, NEW e \in Events, Reserve(c, e)
    PROVE  Queue!Accept(e)
<1> USE SchedulerAssumption
<1>1. /\ QInv' /\ \A i \in Occupied : EventAt(i)' = EventAt(i)
      /\ \A i \in Slots : i = end => EventAt(i)' = e
  BY ReservePreservesQInv
<1>2. /\ start \in Slots /\ end \in Slots /\ start' = start /\ end' = next_index(end)
      /\ end' # start /\ end' = IF end < QueueSize THEN end + 1 ELSE 0
      /\ UNCHANGED <<dataOf, exec>>
  BY NextIndexWraps DEF QInv, IInv, TypeOK, Reserve, QueueFull
<1>3. QueueIsARing /\ QueueIsARing'
  BY <1>1, QueueIsSequence, QueueIsSequenceAfter
<1>4. PICK n \in Nat : /\ n = Utilization(start, end) /\ n < QueueSize
                       /\ Utilization(start', end') = n + 1
  BY <1>2 DEF Utilization, Slots
<1>5. /\ QueueBar \in [1 .. n -> Events] /\ Len(QueueBar) = n
      /\ QueueBar' \in [1 .. n + 1 -> Events]
  BY <1>3, <1>4 DEF QueueIsARing
<1>6. \A k \in 1 .. n + 1 : SlotAt(k)' = SlotAt(k)
  BY <1>2 DEF SlotAt
<1>7. ASSUME NEW k \in 1 .. n PROVE QueueBar'[k] = QueueBar[k]
  <2>1. PICK i \in Occupied : i = SlotAt(k)
    BY <1>2, <1>4, PositionsAreSlots
  <2>2. k \in 1 .. n + 1 /\ SlotAt(k)' = i
    BY <1>4, <1>6, <2>1
  <2>3. QueueBar'[k] = EventAt(i)'
    BY <1>4, <2>2 DEF QueueBar, EventAt, Filling
  <2>4. QueueBar[k] = EventAt(i)
    BY <1>4, <2>1 DEF QueueBar
  <2> QED  BY <1>1, <2>3, <2>4
<1>8. QueueBar'[n + 1] = e
  <2>1. PICK i \in Slots : i = end
    BY <1>2
  <2>2. n + 1 \in 1 .. n + 1 /\ SlotAt(n + 1)' = i
    BY <1>2, <1>4, <1>6, <2>1, NextPositionIsEnd
  <2>3. QueueBar'[n + 1] = EventAt(i)'
    BY <1>4, <2>2 DEF QueueBar, EventAt, Filling
  <2> QED  BY <1>1, <2>1, <2>3
<1>9. QueueBar' = Append(QueueBar, e)
  BY <1>4, <1>5, <1>7, <1>8, AppendIsFunction
<1>10. UNCHANGED RunningBar
  BY <1>2 DEF RunningBar
<1> QED  BY <1>4, <1>5, <1>9, <1>10 DEF Queue!Accept

\* Filling a slot is invisible.
LEMMA FillStutters ==
    ASSUME QInv, NEW c \in Contexts, WriteHandler(c) \/ WriteData(c)
    PROVE  UNCHANGED <<QueueBar, RunningBar>>
<1>1. /\ \A i \in Occupied : EventAt(i)' = EventAt(i)
      /\ exec.pc = "handler" => dataOf'[exec.index] = dataOf[exec.index]
  <2>1. CASE WriteHandler(c)
    BY <2>1, WriteHandlerPreservesQInv DEF WriteHandler
  <2>2. CASE WriteData(c)
    BY <2>2, WriteDataPreservesQInv
  <2> QED  BY <2>1, <2>2
<1>2. UNCHANGED <<start, end, exec>>
  BY DEF WriteHandler, WriteData
<1>3. exec.pc = "handler" \/ exec.pc = "loop"
  BY DEF QInv, IInv, TypeOK, ExecStates, ExecIdle
<1>4. UNCHANGED QueueBar
  BY <1>1, <1>2, SameRingSameQueue
<1> QED  BY <1>1, <1>2, <1>3, <1>4 DEF RunningBar

\* The handler that is called is that of the oldest event, with its data.
LEMMA FetchStarts ==
    ASSUME QInv, ExecuteFetch PROVE Queue!Start
<1>1. QInv' /\ RunningBar' = EventAt(start)
  BY ExecuteFetchPreservesQInv
<1>2. /\ start \in Slots /\ end \in Slots /\ start # end /\ exec.pc = "loop"
      /\ UNCHANGED <<start, end, handlerOf, dataOf, put>>
  BY DEF QInv, IInv, TypeOK, ExecuteFetch, QueueEmpty
<1>3. QueueIsARing
  BY QueueIsSequence
<1>4. /\ Utilization(start, end) \in 1 .. QueueSize /\ SlotAt(1) = start
  BY <1>2, OccupiedIsEmptyAtStart, SchedulerAssumption
<1>5. QueueBar[1] = EventAt(start)
  BY <1>4 DEF QueueBar
<1>6. QueueBar # <<>> /\ Head(QueueBar) = QueueBar[1]
  BY <1>3, <1>4, HeadTailProperties DEF QueueIsARing
<1>7. UNCHANGED QueueBar
  BY <1>2 DEF QueueBar, EventAt, SlotAt, Filling, Utilization
<1>8. RunningBar = None
  BY <1>2 DEF RunningBar
<1> QED  BY <1>1, <1>5, <1>6, <1>7, <1>8 DEF Queue!Start

\* The place in the queue is free when the handler has returned.
LEMMA DoneFinishes ==
    ASSUME NoneIsNoEvent, IndexFits, QInv, ExecuteDone PROVE Queue!Finish
<1> USE SchedulerAssumption
<1> DEFINE n == Utilization(start, end)
<1>1. /\ QInv' /\ RunningBar' = None /\ Utilization(start', end') = n - 1
      /\ \A k \in 1 .. Utilization(start', end') : SlotAt(k)' = SlotAt(k + 1)
      /\ \A i \in Occupied : EventAt(i)' = EventAt(i)
  BY ExecuteDonePreservesQInv
<1>2. /\ start \in Slots /\ end \in Slots /\ start # end
      /\ exec.pc = "handler" /\ exec.index = start
  BY DEF QInv, IInv, TypeOK, HandlerHoldsHead, ExecuteDone
<1>3. QueueIsARing /\ QueueIsARing'
  BY <1>1, QueueIsSequence, QueueIsSequenceAfter
<1>4. n \in Nat \ {0}
  BY <1>2, OccupiedIsEmptyAtStart
<1>5. /\ QueueBar \in [1 .. n -> Events] /\ QueueBar' \in [1 .. n - 1 -> Events]
  BY <1>1, <1>3 DEF QueueIsARing
<1>6. ASSUME NEW k \in 1 .. n - 1 PROVE QueueBar'[k] = QueueBar[k + 1]
  <2>1. k + 1 \in 1 .. n
    BY <1>4
  <2>2. PICK i \in Occupied : i = SlotAt(k + 1)
    BY <1>2, <2>1, PositionsAreSlots
  <2>3. k \in 1 .. Utilization(start', end') /\ SlotAt(k)' = i
    BY <1>1, <2>2
  <2>4. QueueBar'[k] = EventAt(i)'
    BY <2>3 DEF QueueBar, EventAt, Filling
  <2>5. QueueBar[k + 1] = EventAt(i)
    BY <2>1, <2>2 DEF QueueBar
  <2> QED  BY <1>1, <2>4, <2>5
<1>7. QueueBar' = Tail(QueueBar)
  <2> HIDE DEF n
  <2> QED  BY <1>4, <1>5, <1>6, TailIsFunction
<1>8. RunningBar # None
  <2>1. RunningBar \in Events
    BY <1>2 DEF QInv, RunsAnEvent, RunningBar, Events
  <2> QED  BY <2>1 DEF NoneIsNoEvent
<1> QED  BY <1>1, <1>7, <1>8 DEF Queue!Finish

LEMMA NextPreservesQInv ==
    ASSUME IndexFits PROVE QInv /\ [Next]_vars => QInv'
<1> SUFFICES ASSUME QInv, [Next]_vars PROVE QInv'
  OBVIOUS
<1>1. CASE \E c \in Contexts, e \in Events : Reserve(c, e)
  BY <1>1, ReservePreservesQInv
<1>2. CASE \E c \in Contexts : WriteHandler(c)
  BY <1>2, WriteHandlerPreservesQInv
<1>3. CASE \E c \in Contexts : WriteData(c)
  BY <1>3, WriteDataPreservesQInv
<1>4. CASE ExecuteFetch
  BY <1>4, ExecuteFetchPreservesQInv
<1>5. CASE ExecuteDone
  BY <1>5, ExecuteDonePreservesQInv
<1>6. CASE OtherStep
  BY <1>6, OtherStepsPreserveQInv
<1> QED  BY <1>1, <1>2, <1>3, <1>4, <1>5, <1>6 DEF Next, OtherStep

LEMMA InitMapsToInit == Init => Queue!Init
<1> SUFFICES ASSUME Init PROVE Queue!Init
  OBVIOUS
<1>1. Utilization(start, end) = 0 /\ RunningBar = None
  BY DEF Init, Utilization, RunningBar, ExecIdle
<1>2. QueueBar = <<>>
  BY <1>1, InitQInv, QueueIsSequence, EmptySeq DEF QueueIsARing
<1> QED  BY <1>1, <1>2 DEF Queue!Init

\* Every step of the scheduler is a step of the queue, or leaves it alone.
LEMMA StepMapsToStep ==
    ASSUME NoneIsNoEvent, IndexFits
    PROVE  QInv /\ [Next]_vars => [Queue!Next]_(Queue!vars)
<1> SUFFICES ASSUME QInv, [Next]_vars PROVE [Queue!Next]_(Queue!vars)
  OBVIOUS
<1>1. CASE \E c \in Contexts, e \in Events : Reserve(c, e)
  BY <1>1, ReserveAccepts DEF Queue!Next
<1>2. CASE \E c \in Contexts : WriteHandler(c) \/ WriteData(c)
  BY <1>2, FillStutters DEF Queue!vars
<1>3. CASE ExecuteFetch
  BY <1>3, FetchStarts DEF Queue!Next
<1>4. CASE ExecuteDone
  BY <1>4, DoneFinishes DEF Queue!Next
<1>5. CASE OtherStep
  BY <1>5, OtherStepsPreserveQInv DEF Queue!vars
<1> QED  BY <1>1, <1>2, <1>3, <1>4, <1>5 DEF Next, OtherStep

\* The ring with its unprotected fillings is the first-in first-out queue that
\* app_scheduler.h promises: no event is lost, repeated, torn or overtaken,
\* whatever interrupts whatever.
THEOREM SchedulerImplementsQueue ==
    ASSUME NoneIsNoEvent, IndexFits PROVE Spec => ImplementsQueue
<1>1. Init => QInv
  BY InitQInv
<1>2. QInv /\ [Next]_vars => QInv'
  BY NextPreservesQInv
<1>3. Init => Queue!Init
  BY InitMapsToInit
<1>4. QInv /\ [Next]_vars => [Queue!Next]_(Queue!vars)
  BY StepMapsToStep
<1> HIDE DEF QInv, Init, Next, vars
<1> QED  BY <1>1, <1>2, <1>3, <1>4, PTL DEF Spec, ImplementsQueue, Queue!Spec

=============================================================================

--------------------------- MODULE SensorBus_proofs ---------------------------
(***************************************************************************)
(* Proofs about SensorBus for any number of settings and any sensors that  *)
(* may fail to acknowledge: the two contexts that share the flag and the   *)
(* bus, and the interrupt of the driver, never get into each other's way.  *)
(***************************************************************************)
EXTENDS SensorBus, TLAPS

(* The operations of the programs.                                         *)
Ops == [op : {"clear", "tx", "rx"}, dev : {"none", "VL6180X", "LPS22HB"},
        effect : {"none", "start_als", "start_range", "clear"},
        until : {"none", "als_ready", "range_ready", "range_idle"}]

(* A poll goes back to the operation before it: there is one.              *)
Programs == {p \in Seq(Ops) : Len(p) > 0 /\ p[1].until = "none"}

(* What the registers and the flags of the driver say in each phase of a   *)
(* transfer, from its start to the last interrupt.                         *)
PhaseInv ==
    /\ busy <=> bus.phase # "idle" \/ events # {}
    /\ bus.phase = "running" => events = {} /\ int_mask = {"STOPPED", "ERROR"}
    /\ bus.phase = "halted" => events = {"ERROR"} /\ int_mask = {"STOPPED", "ERROR"}
    /\ bus.phase = "stopping" => events = {} /\ int_mask = {"STOPPED"}
    /\ bus.phase = "idle" =>
          \/ events = {}
          \/ events = {"STOPPED"} /\ "STOPPED" \in int_mask

(* A transfer in progress, or one that ended and was not noticed yet, is   *)
(* awaited by the context that runs.                                       *)
AwaitedInv ==
    /\ busy \/ m_xfer_done => timer.waiting \/ (setup.waiting /\ Done(timer, Sample))
    /\ ~(busy /\ m_xfer_done)

(* A context that is past its program waits for nothing; the setup is      *)
(* preempted only when it is over or spins for ever.                       *)
ContextInv ==
    /\ Done(timer, Sample) => ~timer.waiting
    /\ Done(setup, Setup) => ~setup.waiting
    /\ ~Done(timer, Sample) => Done(setup, Setup) \/ setup.waiting

IInv == TypeOK /\ PhaseInv /\ AwaitedInv /\ ContextInv /\ NoTransferRefused

-----------------------------------------------------------------------------
(* The programs.                                                           *)

\* A sequence of operations that begins with no poll, and whatever follows.
LEMMA AppendKeepsProgram ==
    ASSUME NEW p \in Programs, NEW q \in Seq(Ops)
    PROVE  p \o q \in Programs
<1>1. p \in Seq(Ops) /\ Len(p) > 0 /\ p[1].until = "none"
  BY DEF Programs
<1> DEFINE r == p \o q
<1>2. r \in Seq(Ops) /\ Len(r) > 0 /\ r[1] = p[1]
  BY <1>1
<1> HIDE DEF r
<1>3. r \in Programs
  BY <1>1, <1>2 DEF Programs
<1> QED  BY <1>3 DEF r

\* The pieces the functions of i2c.h are put together from.
LEMMA PiecesArePrograms ==
    /\ \A d \in {"VL6180X", "LPS22HB"} : Read(d) \in Programs /\ <<Tx(d)>> \in Programs
    /\ \A e \in {"none", "start_als", "start_range", "clear"} : <<Write(e)>> \in Programs
    /\ \A u \in {"als_ready", "range_ready", "range_idle"} : Poll(u) \in Programs
    /\ <<Clear>> \in Programs
    /\ <<Clear, Tx("LPS22HB")>> \in Programs
    /\ <<Clear, Tx("LPS22HB"), Tx("LPS22HB")>> \in Programs
    /\ \A n \in Nat \ {0} : Times(n, Tx("VL6180X")) \in Programs
<1>1. Clear \in Ops /\ Clear.until = "none"
  BY DEF Clear, Ops
<1>2. \A d \in {"VL6180X", "LPS22HB"} : Tx(d) \in Ops /\ Tx(d).until = "none" /\ Rx(d) \in Ops
  BY DEF Tx, Rx, Ops
<1>3. \A e \in {"none", "start_als", "start_range", "clear"} :
          Write(e) \in Ops /\ Write(e).until = "none"
  BY DEF Write, Tx, Ops
<1>4. ASSUME NEW u \in {"als_ready", "range_ready", "range_idle"}
      PROVE  [Rx("VL6180X") EXCEPT !.until = u] \in Ops
  BY DEF Rx, Ops
<1>5. ASSUME NEW n \in Nat \ {0} PROVE Times(n, Tx("VL6180X")) \in Programs
  <2>1. Times(n, Tx("VL6180X")) \in Seq(Ops) /\ Len(Times(n, Tx("VL6180X"))) = n
    BY <1>2 DEF Times
  <2>2. Times(n, Tx("VL6180X"))[1] = Tx("VL6180X")
    BY DEF Times
  <2> QED  BY <2>1, <2>2, <1>2 DEF Programs
<1>6. ASSUME NEW o \in Ops, o.until = "none", NEW q \in Ops, NEW r \in Ops
      PROVE  <<o>> \in Programs /\ <<o, q>> \in Programs /\ <<o, q, r>> \in Programs
  BY <1>6 DEF Programs
<1> QED  BY <1>1, <1>2, <1>3, <1>4, <1>5, <1>6 DEF Read, Poll

\* Both contexts run programs.
LEMMA SetupAndSample == Setup \in Programs /\ Sample \in Programs
<1> USE DEF Programs
<1>1. ASSUME NEW p \in Programs, NEW q \in Programs PROVE p \o q \in Programs
  BY AppendKeepsProgram
<1> HIDE DEF Programs
<1>2. lps22hb_setup \in Programs
  BY <1>1, PiecesArePrograms DEF lps22hb_setup
<1>3. vl6180x_load_settings \in Programs
  BY <1>1, PiecesArePrograms, SensorBusAssumption DEF vl6180x_load_settings
<1>4. read_lux \in Programs
  <2>1. Times(4, Tx("VL6180X")) \in Programs
    BY PiecesArePrograms
  <2> QED  BY <1>1, <2>1, PiecesArePrograms DEF read_lux
<1>5. read_range \in Programs
  BY <1>1, PiecesArePrograms DEF read_range
<1>6. status \in Programs
  BY <1>1, PiecesArePrograms DEF status
<1>7. read_pressure \in Programs
  BY <1>1, <1>6, PiecesArePrograms DEF read_pressure
<1>8. read_temperature \in Programs
  BY <1>1, <1>6, PiecesArePrograms DEF read_temperature
<1> QED  BY <1>1, <1>2, <1>3, <1>4, <1>5, <1>7, <1>8 DEF Setup, Sample

-----------------------------------------------------------------------------
(* A context takes a step.                                                 *)

\* The values of a context that runs p.
ContextType(p) == [at : 1 .. Len(p) + 1, waiting : BOOLEAN]

\* Those of the flag, the driver and the peripheral, ERRORSRC apart.
DriverType ==
    /\ m_xfer_done \in BOOLEAN /\ busy \in BOOLEAN
    /\ int_mask \subseteq {"STOPPED", "ERROR"} /\ events \subseteq {"STOPPED", "ERROR"}
    /\ bus \in [phase : {"idle", "running", "halted", "stopping"},
                dev : {"none", "VL6180X", "LPS22HB"},
                effect : {"none", "start_als", "start_range", "clear"}]

\* The operation after, or the one before, is one of the program or its end.
LEMMA AfterStays ==
    ASSUME NEW p \in Programs, NEW c \in ContextType(p), ~Done(c, p)
    PROVE  After(c, p) \in 1 .. Len(p) + 1
<1>1. c.at \in 1 .. Len(p) /\ Len(p) \in Nat
  BY DEF Programs, ContextType, Done
<1>2. CASE c.at = 1
  <2>1. Says(p[c.at].until)
    BY <1>2 DEF Programs, Says
  <2> QED  BY <1>1, <2>1 DEF After
<1>3. CASE c.at # 1
  BY <1>1, <1>3 DEF After
<1> QED  BY <1>2, <1>3

\* Whichever context it is, its transfer is not refused, and it waits for it.
LEMMA StepOfContext ==
    ASSUME NEW p \in Programs, NEW c \in ContextType(p), NEW c1,
           DriverType, PhaseInv, ~refused, ~Done(c, p), ~(busy /\ m_xfer_done),
           busy \/ m_xfer_done => c.waiting,
           Step(c, p, c1)
    PROVE  /\ c1 \in ContextType(p) /\ (Done(c1, p) => ~c1.waiting)
           /\ DriverType' /\ PhaseInv' /\ refused' = FALSE
           /\ ~(busy' /\ m_xfer_done') /\ (busy' \/ m_xfer_done' => c1.waiting)
           /\ errorsrc' = errorsrc
<1>1. c.at \in 1 .. Len(p) /\ Len(p) \in Nat /\ p[c.at] \in Ops /\ c.waiting \in BOOLEAN
  BY DEF Programs, ContextType, Done
<1>2. CASE ~c.waiting /\ p[c.at].op = "clear"
  <2>1. m_xfer_done' = FALSE /\ c1 = [c EXCEPT !.at = @ + 1] /\ UNCHANGED <<driver, twim, refused>>
    BY <1>2 DEF Step, Wait
  <2>2. c1.at = c.at + 1 /\ c1.waiting = FALSE /\ c1 \in ContextType(p)
    BY <1>1, <1>2, <2>1 DEF ContextType
  <2>3. DriverType' /\ PhaseInv'
    BY <2>1 DEF DriverType, PhaseInv, driver, twim
  <2>4. refused' = FALSE /\ ~busy' /\ ~m_xfer_done' /\ errorsrc' = errorsrc
    BY <1>2, <2>1 DEF driver, twim
  <2> QED  BY <2>2, <2>3, <2>4
<1>3. CASE ~c.waiting /\ p[c.at].op \in {"tx", "rx"}
  <2>1. twim_xfer(p[c.at]) /\ c1 = [c EXCEPT !.waiting = TRUE] /\ UNCHANGED m_xfer_done
    BY <1>3 DEF Step, Wait
  <2>2. c1.at = c.at /\ c1.waiting = TRUE /\ c1 \in ContextType(p)
    BY <1>1, <2>1 DEF ContextType
  <2>3. ~Done(c1, p)
    BY <2>2 DEF Done
  <2>4. ~busy /\ ~m_xfer_done
    BY <1>3
  <2>5. /\ busy' = TRUE /\ int_mask' = {"STOPPED", "ERROR"} /\ events' = {}
        /\ bus' = [phase |-> "running", dev |-> p[c.at].dev, effect |-> p[c.at].effect]
        /\ errorsrc' = errorsrc /\ refused' = refused
    BY <2>1, <2>4 DEF twim_xfer
  <2>6. DriverType' /\ PhaseInv'
    BY <1>1, <2>1, <2>5 DEF DriverType, PhaseInv, Ops
  <2> QED  BY <2>1, <2>2, <2>3, <2>4, <2>5, <2>6
<1>4. CASE Wait(c) /\ c.waiting
  <2>1. /\ m_xfer_done /\ m_xfer_done' = FALSE
        /\ c1 = [at |-> After(c, p), waiting |-> FALSE] /\ UNCHANGED <<driver, twim, refused>>
    BY <1>4 DEF Step, Wait
  <2>2. c1 \in ContextType(p) /\ c1.waiting = FALSE
    BY <2>1, AfterStays DEF ContextType
  <2>3. DriverType' /\ PhaseInv'
    BY <2>1 DEF DriverType, PhaseInv, driver, twim
  <2>4. refused' = FALSE /\ ~busy' /\ ~m_xfer_done' /\ errorsrc' = errorsrc
    BY <2>1 DEF driver, twim
  <2> QED  BY <2>2, <2>3, <2>4
<1> QED  BY <1>1, <1>2, <1>3, <1>4 DEF Step, Wait

-----------------------------------------------------------------------------
(* The inductive invariant.                                                *)

\* Nobody has made a transfer yet.
LEMMA InitKeepsInv == Init => IInv
<1> SUFFICES ASSUME Init PROVE IInv
  OBVIOUS
<1>1. Len(Setup) \in Nat /\ Len(Sample) \in Nat /\ Len(Setup) > 0
  BY SetupAndSample DEF Programs
<1>2. TypeOK
  <2>1. /\ setup \in [at : 1 .. Len(Setup) + 1, waiting : BOOLEAN]
        /\ timer \in [at : 1 .. Len(Sample) + 1, waiting : BOOLEAN]
    BY <1>1 DEF Init, Start, Past
  <2>2. sensor \in [als : {"off", "measuring", "ready", "last"},
                      range : {"off", "measuring", "ready"}]
    BY DEF Init
  <2>3. bus \in [phase : {"idle", "running", "halted", "stopping"},
                dev : {"none", "VL6180X", "LPS22HB"},
                effect : {"none", "start_als", "start_range", "clear"}]
    BY DEF Init
  <2> QED  BY <2>1, <2>2, <2>3 DEF Init, TypeOK
<1>3. Done(timer, Sample) /\ ~timer.waiting /\ ~Done(setup, Setup)
  BY <1>1 DEF Init, Start, Past, Done
<1> QED
  BY <1>2, <1>3 DEF Init, IInv, PhaseInv, AwaitedInv, ContextInv, NoTransferRefused

\* main runs only while the timer interrupt does not.
LEMMA MainKeepsInv == IInv /\ main => IInv'
<1> SUFFICES ASSUME IInv, main PROVE IInv'
  OBVIOUS
<1>1. /\ Setup \in Programs /\ setup \in ContextType(Setup) /\ DriverType /\ PhaseInv
      /\ ~refused /\ ~Done(setup, Setup) /\ Done(timer, Sample)
      /\ ~(busy /\ m_xfer_done) /\ (busy \/ m_xfer_done => setup.waiting)
      /\ Step(setup, Setup, setup') /\ timer' = timer /\ sensor' = sensor
  BY SetupAndSample
     DEF IInv, main, TypeOK, ContextType, DriverType, AwaitedInv, ContextInv
<1>2. /\ setup' \in ContextType(Setup) /\ (Done(setup', Setup) => ~setup'.waiting)
      /\ DriverType' /\ PhaseInv' /\ refused' = FALSE
      /\ ~(busy' /\ m_xfer_done') /\ (busy' \/ m_xfer_done' => setup'.waiting)
      /\ errorsrc' = errorsrc
  BY <1>1, StepOfContext
<1>3. TypeOK'
  BY <1>1, <1>2 DEF IInv, TypeOK, ContextType, DriverType
<1> QED
  BY <1>1, <1>2, <1>3 DEF IInv, AwaitedInv, ContextInv, NoTransferRefused, Done

\* The handler of the timer starts when main has no transfer to wait for.
LEMMA ExpiresKeepsInv == IInv /\ timer_expires => IInv'
<1> SUFFICES ASSUME IInv, timer_expires PROVE IInv'
  OBVIOUS
<1>1. Len(Sample) \in Nat /\ Len(Sample) > 0
  BY SetupAndSample DEF Programs
<1>2. timer' = [at |-> 1, waiting |-> FALSE]
  BY DEF timer_expires, Start
<1>3. UNCHANGED <<m_xfer_done, setup, busy, int_mask, events, errorsrc, bus, sensor, refused>>
  BY DEF timer_expires, driver, twim
<1>4. ~busy /\ ~m_xfer_done /\ (Done(setup, Setup) \/ setup.waiting)
  BY DEF IInv, AwaitedInv, ContextInv, timer_expires, Stuck
<1>5. TypeOK'
  BY <1>1, <1>2, <1>3 DEF IInv, TypeOK
<1>6. ~Done(timer', Sample)
  BY <1>1, <1>2 DEF Done
<1>7. PhaseInv' /\ NoTransferRefused'
  BY <1>3 DEF IInv, PhaseInv, NoTransferRefused
<1>8. AwaitedInv' /\ ContextInv'
  BY <1>2, <1>3, <1>4, <1>6 DEF IInv, AwaitedInv, ContextInv, Done
<1> QED  BY <1>5, <1>7, <1>8 DEF IInv

\* While it runs, main does not.
LEMMA TimerKeepsInv == IInv /\ timer_a_handler => IInv'
<1> SUFFICES ASSUME IInv, timer_a_handler PROVE IInv'
  OBVIOUS
<1>1. /\ Sample \in Programs /\ timer \in ContextType(Sample) /\ DriverType /\ PhaseInv
      /\ ~refused /\ ~Done(timer, Sample)
      /\ ~(busy /\ m_xfer_done) /\ (busy \/ m_xfer_done => timer.waiting)
      /\ Step(timer, Sample, timer') /\ setup' = setup /\ sensor' = sensor
  BY SetupAndSample
     DEF IInv, timer_a_handler, TypeOK, ContextType, DriverType, AwaitedInv, ContextInv
<1>2. /\ timer' \in ContextType(Sample) /\ (Done(timer', Sample) => ~timer'.waiting)
      /\ DriverType' /\ PhaseInv' /\ refused' = FALSE
      /\ ~(busy' /\ m_xfer_done') /\ (busy' \/ m_xfer_done' => timer'.waiting)
      /\ errorsrc' = errorsrc
  BY <1>1, StepOfContext
<1>3. TypeOK'
  BY <1>1, <1>2 DEF IInv, TypeOK, ContextType, DriverType
<1> QED
  BY <1>1, <1>2, <1>3 DEF IInv, AwaitedInv, ContextInv, NoTransferRefused, Done

\* The interrupt frees the driver in the step that raises the flag.
LEMMA IrqKeepsInv == IInv /\ irq_handler_twim => IInv'
<1> SUFFICES ASSUME IInv, irq_handler_twim PROVE IInv'
  OBVIOUS
<1>1. setup' = setup /\ timer' = timer /\ sensor' = sensor /\ refused' = refused
  BY DEF irq_handler_twim, contexts
<1>2. CASE irq_error
  <2>1. bus.phase = "halted" /\ events = {"ERROR"}
    BY <1>2 DEF IInv, TypeOK, PhaseInv, irq_error
  <2>2. /\ events' = {} /\ int_mask' = {"STOPPED"} /\ bus' = [bus EXCEPT !.phase = "stopping"]
        /\ UNCHANGED <<m_xfer_done, busy, errorsrc>>
    BY <1>2, <2>1 DEF irq_error
  <2>3. bus'.phase = "stopping"
    BY <2>2 DEF IInv, TypeOK
  <2>4. TypeOK' /\ PhaseInv'
    BY <1>1, <2>1, <2>2, <2>3 DEF IInv, TypeOK, PhaseInv
  <2> QED
    BY <1>1, <2>2, <2>4 DEF IInv, AwaitedInv, ContextInv, NoTransferRefused, Done
<1>3. CASE irq_stopped
  <2>1. bus.phase = "idle" /\ busy
    BY <1>3 DEF IInv, TypeOK, PhaseInv, irq_stopped
  <2>2. /\ events' = {} /\ int_mask' = {} /\ errorsrc' = FALSE /\ busy' = FALSE /\ bus' = bus
        /\ m_xfer_done' \in BOOLEAN
    BY <1>3 DEF IInv, TypeOK, irq_stopped, twi_handler
  <2>3. TypeOK' /\ PhaseInv'
    BY <1>1, <2>1, <2>2 DEF IInv, TypeOK, PhaseInv
  <2> QED
    BY <1>1, <2>1, <2>2, <2>3 DEF IInv, AwaitedInv, ContextInv, NoTransferRefused, Done
<1> QED  BY <1>2, <1>3 DEF irq_handler_twim

\* The peripheral and the sensors change neither the contexts nor the flag.
LEMMA HardwareKeepsInv == IInv /\ Hardware => IInv'
<1> SUFFICES ASSUME IInv, Hardware PROVE IInv'
  OBVIOUS
<1>1. UNCHANGED <<m_xfer_done, setup, timer, busy, int_mask, refused>>
  BY DEF Hardware, TransferEnds, TransferNacked, TransferStops, MeasurementReady,
         contexts, driver
<1>2. AwaitedInv' /\ ContextInv' /\ NoTransferRefused'
  BY <1>1 DEF IInv, AwaitedInv, ContextInv, NoTransferRefused, Done
<1>3. TypeOK' /\ PhaseInv'
  <2>1. CASE TransferEnds
    <3>1. Effect(bus.effect) \in [als : {"off", "measuring", "ready", "last"},
                                  range : {"off", "measuring", "ready"}]
      BY DEF IInv, TypeOK, Effect, Toggled, Cleared
    <3>2. bus'.phase = "idle" /\ events' = {"STOPPED"} /\ bus' = [bus EXCEPT !.phase = "idle"]
      BY <2>1 DEF TransferEnds, IInv, TypeOK, PhaseInv
    <3> QED  BY <1>1, <2>1, <3>1, <3>2 DEF TransferEnds, IInv, TypeOK, PhaseInv
  <2>2. CASE TransferNacked
    <3>1. bus'.phase = "halted" /\ events' = {"ERROR"} /\ bus' = [bus EXCEPT !.phase = "halted"]
      BY <2>2 DEF TransferNacked, IInv, TypeOK, PhaseInv
    <3> QED  BY <1>1, <2>2, <3>1 DEF TransferNacked, IInv, TypeOK, PhaseInv
  <2>3. CASE TransferStops
    <3>1. bus'.phase = "idle" /\ events' = {"STOPPED"} /\ bus' = [bus EXCEPT !.phase = "idle"]
      BY <2>3 DEF TransferStops, IInv, TypeOK, PhaseInv
    <3> QED  BY <1>1, <2>3, <3>1 DEF TransferStops, IInv, TypeOK, PhaseInv
  <2>4. CASE \E m \in {"als", "range"} : MeasurementReady(m)
    <3>1. CASE MeasurementReady("als")
      BY <1>1, <3>1 DEF MeasurementReady, twim, IInv, TypeOK, PhaseInv
    <3>2. CASE MeasurementReady("range")
      BY <1>1, <3>2 DEF MeasurementReady, twim, IInv, TypeOK, PhaseInv
    <3> QED  BY <2>4, <3>1, <3>2
  <2> QED  BY <2>1, <2>2, <2>3, <2>4 DEF Hardware
<1> QED  BY <1>2, <1>3 DEF IInv

\* Every behaviour keeps the invariant.
LEMMA InvAlways == Spec => []IInv
<1>1. IInv /\ [Next]_vars => IInv'
  <2> SUFFICES ASSUME IInv, [Next]_vars PROVE IInv'
    OBVIOUS
  <2>1. CASE UNCHANGED vars
    BY <2>1 DEF vars, contexts, driver, twim, IInv, TypeOK, PhaseInv, AwaitedInv, ContextInv,
               NoTransferRefused, Done
  <2> QED
    BY <2>1, MainKeepsInv, ExpiresKeepsInv, TimerKeepsInv, IrqKeepsInv, HardwareKeepsInv
       DEF Next
<1> QED  BY <1>1, InitKeepsInv, PTL DEF Spec

-----------------------------------------------------------------------------
(* The variables of the contexts, the driver and the peripheral keep their *)
(* types: no context leaves its program.                                   *)
THEOREM SensorTypeOK == Spec => []TypeOK
<1>1. IInv => TypeOK
  BY DEF IInv
<1> QED  BY <1>1, InvAlways, PTL

(* No transfer is started while another is in progress, although both      *)
(* contexts make them: every APP_ERROR_CHECK on one passes                 *)
(* (nrf_drv_twi.c:986).                                                    *)
THEOREM SensorNoTransferRefused == Spec => []NoTransferRefused
<1>1. IInv => NoTransferRefused
  BY DEF IInv
<1> QED  BY <1>1, InvAlways, PTL

(* The flag is up only between the end of a transfer and the step of the   *)
(* context that waits for it (i2c.h:118).                                  *)
THEOREM SensorDoneIsFresh == Spec => []DoneIsFresh
<1>1. IInv => DoneIsFresh
  BY DEF IInv, AwaitedInv, DoneIsFresh
<1> QED  BY <1>1, InvAlways, PTL

(* While the peripheral works the driver is busy and will be interrupted,  *)
(* after an error as well (nrf_drv_twi.c:1079).                            *)
THEOREM SensorDriverFollowsBus == Spec => []DriverFollowsBus
<1>1. IInv => DriverFollowsBus
  BY DEF IInv, TypeOK, PhaseInv, DriverFollowsBus
<1> QED  BY <1>1, InvAlways, PTL

=============================================================================

------------------------------- MODULE SensorBus -------------------------------
(***************************************************************************)
(* The two sensors of with_sensors/i2c.h on their I2C bus, and the part of *)
(* nrf_drv_twi.c (the EasyDMA flavour, event-driven) they are driven with. *)
(*                                                                         *)
(* Two contexts make transfers.  main configures both sensors before it    *)
(* enters its loop; timer_a_handler, in the interrupt of RTC1, takes one   *)
(* sample of everything.  Each transfer is started and then awaited by     *)
(* spinning on m_xfer_done, a flag both contexts share and the driver's    *)
(* interrupt sets through twi_handler.                                     *)
(*                                                                         *)
(* A context runs a program: the sequence of bus operations its functions  *)
(* make.  What is written to and read from the registers is abstracted to  *)
(* the three things the control flow depends on: a measurement is started, *)
(* it is ready, its interrupt is cleared.                                  *)
(***************************************************************************)
EXTENDS Naturals, Sequences

CONSTANTS
    NumSettings,  \* rows of the table set of vl6180x_load_settings (40)
    Nacks         \* the sensors that may fail to acknowledge a transfer

ASSUME SensorBusAssumption ==
    /\ NumSettings \in Nat \ {0}
    /\ Nacks \subseteq {"VL6180X", "LPS22HB"}

VARIABLES
    m_xfer_done,  \* the flag of i2c.h
    setup, timer, \* the two contexts: [at, waiting]
    busy,         \* m_cb.busy
    int_mask,     \* m_cb.int_mask, the events that raise the interrupt
    events,       \* the event registers of the TWIM peripheral
    errorsrc,     \* its ERRORSRC register: a NACK was seen
    bus,          \* what the peripheral does: [phase, dev, effect]
    sensor,       \* the measurements of VL6180X: [als, range]
    refused       \* a transfer was refused: APP_ERROR_CHECK stops the node

contexts == <<setup, timer>>
driver == <<busy, int_mask>>
twim == <<events, errorsrc, bus>>
vars == <<m_xfer_done, contexts, driver, twim, sensor, refused>>

-----------------------------------------------------------------------------
(* The operations of a program.                                            *)
Clear == [op |-> "clear", dev |-> "none", effect |-> "none", until |-> "none"]
Tx(d) == [op |-> "tx", dev |-> d, effect |-> "none", until |-> "none"]
Rx(d) == [op |-> "rx", dev |-> d, effect |-> "none", until |-> "none"]
Write(effect) == [Tx("VL6180X") EXCEPT !.effect = effect]
(* A register is selected and read, over and over until it says so.        *)
Poll(until) == <<Tx("VL6180X"), [Rx("VL6180X") EXCEPT !.until = until]>>
Read(d) == <<Tx(d), Rx(d)>>
Times(n, op) == [i \in 1 .. n |-> op]

lps22hb_setup == <<Clear, Tx("LPS22HB"), Tx("LPS22HB")>> \o Read("LPS22HB")

vl6180x_load_settings ==
    <<Clear>> \o Read("VL6180X") \o Times(NumSettings, Tx("VL6180X"))

\* Fault: the pending interrupts are cleared between start and poll.
read_lux_EarlyClear ==
    Read("VL6180X") \o Times(4, Tx("VL6180X")) \o <<Write("start_als")>>
        \o <<Write("clear")>> \o Poll("als_ready") \o Read("VL6180X")

read_lux ==
    Read("VL6180X") \o Times(4, Tx("VL6180X")) \o <<Write("start_als")>>
        \o Poll("als_ready") \o Read("VL6180X") \o <<Write("clear")>>

read_range ==
    Poll("range_idle") \o <<Write("start_range")>>
        \o Poll("range_ready") \o Read("VL6180X") \o <<Write("clear")>>

(* status makes one round: the byte it tests is the constant 0xff.         *)
status == <<Clear>> \o Read("LPS22HB")

read_pressure ==
    <<Clear, Tx("LPS22HB")>> \o status
        \o Read("LPS22HB") \o Read("LPS22HB") \o Read("LPS22HB")

read_temperature ==
    <<Clear, Tx("LPS22HB")>> \o status \o Read("LPS22HB") \o Read("LPS22HB")

Setup == lps22hb_setup \o vl6180x_load_settings
Sample == read_lux \o read_range \o read_pressure \o read_temperature

(* A context is at the operation at of its program, or past its end.       *)
Start == [at |-> 1, waiting |-> FALSE]
Past(p) == [at |-> Len(p) + 1, waiting |-> FALSE]
Done(c, p) == c.at > Len(p)

Init ==
    /\ m_xfer_done = FALSE
    /\ setup = Start /\ timer = Past(Sample)
    /\ busy = FALSE /\ int_mask = {}
    /\ events = {} /\ errorsrc = FALSE
    /\ bus = [phase |-> "idle", dev |-> "none", effect |-> "none"]
    /\ sensor = [als |-> "off", range |-> "off"]
    /\ refused = FALSE

-----------------------------------------------------------------------------
(* Starts a transfer, with the interrupts of the peripheral disabled; one  *)
(* that finds the driver busy is refused.                                  *)
twim_xfer(o) ==
    \/ /\ busy
       /\ refused' = TRUE
       /\ UNCHANGED <<driver, twim>>
    \/ /\ ~busy
       /\ busy' = TRUE
       /\ int_mask' = {"STOPPED", "ERROR"}
       /\ events' = {} /\ UNCHANGED errorsrc
       /\ bus' = [phase |-> "running", dev |-> o.dev, effect |-> o.effect]
       /\ UNCHANGED refused

(* What the register that was polled says once the transfer is over.  The  *)
(* light flag stays up when the measurements are halted.                   *)
Says(until) ==
    CASE until = "als_ready"   -> sensor.als \in {"ready", "last"}
      [] until = "range_ready" -> sensor.range = "ready"
      [] until = "range_idle"  -> sensor.range # "measuring"
      [] until = "none"        -> TRUE

\* Fault: the flag is not cleared after the wait.
Wait_KeepsFlag(c) ==
    /\ c.waiting /\ m_xfer_done
    /\ UNCHANGED m_xfer_done

(* while (m_xfer_done == false); m_xfer_done = false;                      *)
Wait(c) ==
    /\ c.waiting /\ m_xfer_done
    /\ m_xfer_done' = FALSE

\* Fault: the transfer after a read that is no poll is skipped.
After_SkipsOne(c, p) ==
    IF ~Says(p[c.at].until) THEN c.at - 1
    ELSE IF p[c.at].op = "rx" /\ p[c.at].until = "none" THEN c.at + 2 ELSE c.at + 1

(* The end of an operation: a poll that is not satisfied begins again.     *)
After(c, p) == IF Says(p[c.at].until) THEN c.at + 1 ELSE c.at - 1

(* The context c takes its next step through the program p to c1.          *)
Step(c, p, c1) ==
    \/ /\ ~c.waiting /\ p[c.at].op = "clear"
       /\ m_xfer_done' = FALSE
       /\ c1 = [c EXCEPT !.at = @ + 1]
       /\ UNCHANGED <<driver, twim, refused>>
    \/ /\ ~c.waiting /\ p[c.at].op \in {"tx", "rx"}
       /\ twim_xfer(p[c.at])
       /\ c1 = [c EXCEPT !.waiting = TRUE]
       /\ UNCHANGED m_xfer_done
    \/ /\ Wait(c)
       /\ c1 = [at |-> After(c, p), waiting |-> FALSE]
       /\ UNCHANGED <<driver, twim, refused>>

(* A context that spins on a flag nobody is going to set.                  *)
Stuck(c) == c.waiting /\ ~m_xfer_done /\ ~busy

main ==
    /\ Done(timer, Sample) /\ ~refused
    /\ ~Done(setup, Setup)
    /\ Step(setup, Setup, setup')
    /\ UNCHANGED <<timer, sensor>>

(* The timer was started before the sensors are set up, one second ahead:  *)
(* the setup, some twenty milliseconds, is over when it expires or will    *)
(* never be.  A second is also longer than the period of the light         *)
(* measurements, 500 ms by the settings (i2c.h:68).                        *)
timer_expires ==
    /\ Done(timer, Sample) /\ ~refused
    /\ Done(setup, Setup) \/ Stuck(setup)
    /\ sensor.als # "measuring"
    /\ timer' = Start
    /\ UNCHANGED <<m_xfer_done, setup, driver, twim, sensor, refused>>

timer_a_handler ==
    /\ ~Done(timer, Sample) /\ ~refused
    /\ Step(timer, Sample, timer')
    /\ UNCHANGED <<setup, sensor>>

-----------------------------------------------------------------------------
(* The peripheral and the sensors.  SYSALS_START is written with 0x03      *)
(* (0x01 | gain, i2c.h:301): bit 1 asks for continuous measurements, which *)
(* bit 0 starts when they are halted and halts when they go on.  A flag is *)
(* up when the light is "ready", or measured for the "last" time; clearing *)
(* it lets the next measurement begin.  A range is measured once.          *)
Toggled ==
    CASE sensor.als = "off"       -> "measuring"
      [] sensor.als = "measuring" -> "off"
      [] sensor.als = "ready"     -> "last"
      [] sensor.als = "last"      -> "ready"

Cleared ==
    [als   |-> CASE sensor.als = "ready" -> "measuring"
                 [] sensor.als = "last"  -> "off"
                 [] OTHER                -> sensor.als,
     range |-> IF sensor.range = "ready" THEN "off" ELSE sensor.range]

Effect(e) ==
    CASE e = "start_als"   -> [sensor EXCEPT !.als = Toggled]
      [] e = "start_range" -> [sensor EXCEPT !.range = "measuring"]
      [] e = "clear"       -> Cleared
      [] e = "none"        -> sensor

TransferEnds ==
    /\ bus.phase = "running"
    /\ bus' = [bus EXCEPT !.phase = "idle"]
    /\ events' = events \cup {"STOPPED"}
    /\ sensor' = Effect(bus.effect)
    /\ UNCHANGED <<m_xfer_done, contexts, driver, errorsrc, refused>>

TransferNacked ==
    /\ bus.phase = "running" /\ bus.dev \in Nacks
    /\ bus' = [bus EXCEPT !.phase = "halted"]
    /\ events' = events \cup {"ERROR"} /\ errorsrc' = TRUE
    /\ UNCHANGED <<m_xfer_done, contexts, driver, sensor, refused>>

TransferStops ==
    /\ bus.phase = "stopping"
    /\ bus' = [bus EXCEPT !.phase = "idle"]
    /\ events' = events \cup {"STOPPED"}
    /\ UNCHANGED <<m_xfer_done, contexts, driver, errorsrc, sensor, refused>>

MeasurementReady(m) ==
    /\ sensor[m] = "measuring"
    /\ sensor' = [sensor EXCEPT ![m] = "ready"]
    /\ UNCHANGED <<m_xfer_done, contexts, driver, twim, refused>>

(* The event handler of i2c.h: a NACK is logged and nothing else.          *)
twi_handler(type) ==
    m_xfer_done' = (m_xfer_done \/ type = "DONE")

\* Fault: the end of a transfer is reported before the driver is free.
irq_stopped_KeepsBusy ==
    /\ "ERROR" \notin events /\ "STOPPED" \in events
    /\ events' = {}
    /\ int_mask' = {}
    /\ errorsrc' = FALSE
    /\ twi_handler(IF errorsrc THEN "NACK" ELSE "DONE")
    /\ UNCHANGED <<busy, bus>>

(* irq_handler_twim, at the end of a transfer.                             *)
irq_stopped ==
    /\ "ERROR" \notin events /\ "STOPPED" \in events
    /\ events' = {}
    /\ int_mask' = {}
    /\ errorsrc' = FALSE
    /\ busy' = FALSE
    /\ twi_handler(IF errorsrc THEN "NACK" ELSE "DONE")
    /\ UNCHANGED bus

\* Fault: every interrupt stays disabled while the bus stops.
irq_error_MasksStopped ==
    /\ "ERROR" \in events
    /\ events' = events \ {"ERROR"}
    /\ int_mask' = {}
    /\ bus' = [bus EXCEPT !.phase = "stopping"]
    /\ UNCHANGED <<m_xfer_done, busy, errorsrc>>

(* irq_handler_twim, at an error: the bus is told to stop.                 *)
irq_error ==
    /\ "ERROR" \in events
    /\ events' = events \ {"ERROR"}
    /\ int_mask' = {"STOPPED"}
    /\ bus' = [bus EXCEPT !.phase = "stopping"]
    /\ UNCHANGED <<m_xfer_done, busy, errorsrc>>

irq_handler_twim ==
    /\ int_mask \cap events # {}
    /\ irq_error \/ irq_stopped
    /\ UNCHANGED <<contexts, sensor, refused>>

-----------------------------------------------------------------------------
Hardware ==
    \/ TransferEnds
    \/ TransferNacked
    \/ TransferStops
    \/ \E m \in {"als", "range"} : MeasurementReady(m)

Next == main \/ timer_expires \/ timer_a_handler \/ irq_handler_twim \/ Hardware

Spec == Init /\ [][Next]_vars

(* The processor goes on in the context of the highest priority that is    *)
(* active, a transfer ends or fails, a measurement gets ready.             *)
FairSpec ==
    /\ Spec
    /\ WF_vars(main) /\ WF_vars(timer_expires) /\ WF_vars(timer_a_handler)
    /\ WF_vars(irq_handler_twim)
    /\ WF_vars(TransferEnds) /\ WF_vars(TransferStops)
    /\ \A m \in {"als", "range"} : WF_vars(MeasurementReady(m))

-----------------------------------------------------------------------------
(* The values of the variables.                                            *)
TypeOK ==
    /\ m_xfer_done \in BOOLEAN /\ busy \in BOOLEAN
    /\ errorsrc \in BOOLEAN /\ refused \in BOOLEAN
    /\ setup \in [at : 1 .. Len(Setup) + 1, waiting : BOOLEAN]
    /\ timer \in [at : 1 .. Len(Sample) + 1, waiting : BOOLEAN]
    /\ int_mask \subseteq {"STOPPED", "ERROR"}
    /\ events \subseteq {"STOPPED", "ERROR"}
    /\ bus \in [phase : {"idle", "running", "halted", "stopping"},
                dev : {"none", "VL6180X", "LPS22HB"},
                effect : {"none", "start_als", "start_range", "clear"}]
    /\ sensor \in [als : {"off", "measuring", "ready", "last"},
                   range : {"off", "measuring", "ready"}]

(* Every APP_ERROR_CHECK on a transfer passes: although two contexts share *)
(* the bus and read_lux and read_range do not reset m_xfer_done before     *)
(* they begin, no transfer is started while another is in progress.        *)
NoTransferRefused == ~refused

(* The flag is up only between the end of a transfer and the step of the   *)
(* context that waits for it: nobody goes on with the data of a transfer   *)
(* that is still in progress, or leaves a stale flag to the next wait.     *)
DoneIsFresh ==
    m_xfer_done => ~busy /\ (timer.waiting \/ (setup.waiting /\ Done(timer, Sample)))

(* The peripheral does not work on its own: while it does, the driver is   *)
(* busy and will be interrupted.                                           *)
DriverFollowsBus ==
    bus.phase # "idle" \/ events # {} => busy /\ int_mask # {}

(* If every transfer is acknowledged, main gets to its loop and every      *)
(* sample is completed: each of the unbounded polls sees the measurement   *)
(* it waits for, although every other write to SYSALS_START halts those of *)
(* the light: by then a flag is up that nobody has cleared.                *)
SamplesComplete ==
    []~errorsrc => <>Done(setup, Setup) /\ []<>Done(timer, Sample)

(* i2c.h:6: m_xfer_done "Indicates if operation on TWI has ended": it is   *)
(* up when the operation a context waits for has ended.                    *)
EndedMeansDone == ~Stuck(setup) /\ ~Stuck(timer)
=============================================================================

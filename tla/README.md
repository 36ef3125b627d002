# A verification project for meng_2018

`meng_2018` is a Thread sensor node: an nRF52840 program
(`sdk/examples/thread/experimental/with_sensors`) that attaches to a Thread mesh,
resolves the address of a cloud host through DNS, samples a light/range sensor
(VL6180X) and a pressure/temperature sensor (LPS22HB) over I2C once a second and
posts the four values with CoAP. The rest of the repository is the Nordic SDK the
program is built from, most of which it does not link, the variant
`without_sensors`, and `messenger.py`, a script that polls one value from the cloud.

Paths below are relative to `src/`; `LIB` is `sdk/components/libraries`, `DRV` is
`sdk/components/drivers_nrf`, `EX` is `sdk/examples/thread/experimental`.

## The system

What is linked is fixed by `EX/with_sensors/pca10056/blank/armgcc/Makefile`, how it
is configured by the `sdk_config.h` beside it. There is one core, a main loop, and
interrupts: RTC1, SWI0, GPIOTE and CLOCK share the lowest priority, TWI0 is above
them. OpenThread is linked as a library and runs in the main loop.

| component | state | operations | talks to |
|---|---|---|---|
| Cloud client, `EX/with_sensors/main.c` | `m_app`: the state IDLE / HOSTNAME_RESOLVING / RUNNING, the address of the cloud | `state_changed_callback`, `dns_response_handler` (main loop), `timer_a_handler` (RTC1 interrupt) | OpenThread: queries, answers, roles, messages; the timer; the sensors |
| Sensors, `EX/with_sensors/i2c.h` | `m_xfer_done`, `m_sample`, the last values | setup of both sensors (main), one sample (RTC1 interrupt), `twi_handler` (TWI0 interrupt) | the TWI driver, waited for by spinning |
| TWI master driver, `DRV/twi_master/nrf_drv_twi.c` | `m_cb`: `busy`, `int_mask`, the transfer | `twim_xfer`, `irq_handler_twim` | the TWIM peripheral; `twi_handler` |
| Application timer, `LIB/timer/app_timer.c` | the queue of operations, the list of timers, RTC1 and its compare register | start, stop, stop all; RTC1 and SWI0 interrupts | `timer_a_handler`, buttons, board support |
| Event scheduler, `LIB/scheduler/app_scheduler.c` | a ring of events, its two indices | put (any context), execute (main loop), pause, resume | linked, not initialised by `main` |
| Buttons, `LIB/button/app_button.c` | pin states, pins in transition, one detection timer | the GPIOTE event, the timeout, enable, disable | timer, GPIOTE driver |
| Board support, `LIB/bsp/bsp.c`, `bsp/experimental/bsp_thread.c` | `m_stable_state`, the LEDs, `m_connection_state`, the ping counter, the long-push timer | role changes and pings (main loop), LED timeouts (RTC1 interrupt), button events | timer, buttons, OpenThread |
| GPIOTE driver, `DRV/gpiote/nrf_drv_gpiote.c` | the SENSE registers, the slots of low-power pins and their handlers | initialise, enable, disable, uninitialise a pin; the PORT interrupt | buttons |
| Clock driver, `DRV/clock/nrf_drv_clock.c` | a counter of requests and a list of handlers for each clock | request, release, the interrupt | `main`, OpenThread's platform |

What is hard here:

* *Preemption.* `timer_a_handler` runs in an interrupt and shares `m_app`,
  OpenThread, `m_xfer_done` and the bus with the main loop, without a lock. The
  timer module splits its work between calls and two interrupts, and time goes on
  in between. The scheduler's puts nest.
  A pin changes its level between any two looks at it; an LED timer comes between an
  LED and the variable that says what it shows.
* *Order.* Answers to queries come late, for an attachment that is over; callbacks
  coalesce; operations of the timer wait in a queue while their timer expires.
* *Failure.* A query, an answer, a buffer, a transmission, the acknowledgement of a
  sensor, a full queue: most failures are only logged.
* *Boundaries.* A 24-bit counter that wraps and must be compared with a register
  some ticks ahead; a ring whose capacity is one less than its slots; indices of
  eight bits.

`PROJECT.json` lists these one by one, with their lines, under `hazards`, and with
the properties that would catch them going wrong.

What makes each component correct: the cloud client knows an address only while it
is attached, ends up knowing it when it stays attached, never loses or frees a
message it must not. The sensors never disturb each other's transfers and nobody
reads a sample before its transfer ended. A timer's handler runs when its timeout
has passed, not before, not much later and not after it was stopped. The scheduler
is a bounded FIFO queue. No edge of a pin is lost, no handler is called for another
pin, and once the pins have settled the user of the buttons knows their levels. A
clock runs exactly while it is requested, and each handler that came with a request
is called. The LEDs show the role of the node once they have stopped blinking.

## The modules

| module | models |
|---|---|
| `EventQueue` | what `app_scheduler.h` promises: a bounded FIFO queue whose events stay put until handled |
| `AppScheduler` | `app_scheduler.c`; refines `EventQueue` |
| `AppScheduler_proofs` | theorems about `AppScheduler` |
| `TimerService` | what `app_timer.h` promises: requests in order, timeouts in time; no counter, no list |
| `AppTimer` | `app_timer.c` on RTC1; refines `TimerService` |
| `AppTimer_proofs` | theorems about `AppTimer` |
| `CloudClient` | the application state of `main.c`, its callbacks and its timer handler, between OpenThread's events |
| `CloudClient_proofs` | theorems about `CloudClient` |
| `SensorBus` | the transfers of `i2c.h`, composed with the part of `nrf_drv_twi.c` they use and with the two sensors |
| `SensorBus_proofs` | theorems about `SensorBus` |
| `SensorConversions` | what `i2c.h` makes of the registers, with theorems |
| `Gpiote` | the low-power inputs of `nrf_drv_gpiote.c` and their interrupt |
| `AppButton` | `app_button.c`; extends `Gpiote` and says what the handlers do |
| `AppButton_proofs` | theorems about the driver under the buttons, and about what the buttons report |
| `ClockDriver` | `nrf_drv_clock.c`, one of its two clocks |
| `ClockDriver_proofs` | theorems about `ClockDriver` |
| `BspThread` | `bsp_thread.c` on the part of `bsp.c` it uses, with its two LEDs |
| `BspThread_proofs` | theorems about `BspThread` |
| `MC...` | the instances TLC checks |

Definitions have the names of the functions they model; each one's source lines are
in `PROJECT.json` under `map`. Operators called `<definition>_<Fault>` are the
definition with a plausible bug: for each property of a passing run, TLC finds the
property violated when the definition is replaced by one of them. They are not part
of any specification.

**AppScheduler.** Contexts are priority levels, 0 the main loop. A put is three
steps, as its interruptions can tell them apart: the critical region that reserves
a slot (`Reserve`, `Refuse`), the handler (`WriteHandler`), the data (`WriteData`). A
context moves only when no higher one is inside a put. `app_sched_execute` is a
fetch and, when the handler has returned, the release of the slot; puts can come in
between, also from the handler itself.

**AppTimer.** A call appends an operation and pends SWI0. That is one step: a start does it
within its critical region. A stop clears `is_running` before the region
(`app_timer.c:1025` and 874), which is still one step for callers at the priority of the module:
nobody but the counter comes in between, and a stop does not read it. All stops of this
program are such (`app_button.c:105` and `bsp.c:151`, in interrupt handlers); a stop by `main`
that is preempted there is not in the model. Each turn of a loop in the RTC1 and SWI0 handlers is an action, so
that ticks fall between any two. The linked list with its relative ticks is a
sequence with the same relative ticks; the two-entry queue of elapsed ticks is one
entry, which is all that can be unread. `Tick` is the hardware: the counter moves
and may reach the compare register. `due` and the age of an operation are history:
when a handler should run, whatever the module does. `lag` counts the ticks since interrupt work
is outstanding, at most `MaxLatency`, and a handler that spins uses them up: how late the
others may then be called is `Jitter`, a definition and not a choice. The
header (`app_timer.h:187-188`) gives three ticks, for timeouts close to one another and with no word of
the latency; the bound here is for every timeout and every latency.
The guards of `app_timer_start` and `MayCall` state how this program uses the
module: no caller above its priority, and never a start half the counter's range
(256 s) after the last timeout. They are assumptions, and each is needed: without either one
`TimersKeepTheirTime` is false.
`Usage` lets the application make three more kinds of call: a stop after a start that is
ignored, a stop that finds the queue full, and a start
that gives a timer whose stop is still queued less time than it had (`RestartsSooner`).
This program makes no such call: the queue has ten entries; nothing calls `stop_all`; the only
timer that is stopped and started again is the detection timer of the buttons
(`app_button.c:105`), always with the stop first and always with the same timeout.

**CloudClient.** The main loop takes one OpenThread event at a time, `timer_a_handler`
preempts it anywhere. A structure assignment of an address is two stores
(`BeginCopy`, `EndCopy`), and the interrupt can come between them. `cloud_data_send`
is its four calls, each of which may fail if `Failures` says so. OpenThread itself
(the role, the queries in flight, the message pool) is external and modelled from
the calls. Each call of OpenThread is one step, although the interrupt can really
come in the middle of one: what it would find there is not in this repository.

**SensorBus.** Each function is the sequence of its bus operations; a poll that is not
satisfied goes back to its selection of a register. Each operation starts a transfer
(`twim_xfer`) and waits for `m_xfer_done` (`Wait`). A transfer ends, or is not
acknowledged and is stopped by the driver's first interrupt before the second one
reports it. The two measurements of VL6180X get ready after they were started, and
their flags stay until they are cleared. The light is measured as `i2c.h:301` asks for it: the byte is
`0x01 | gain`, which is `0x03`, so that each write starts continuous measurements or
halts them (`Toggled`). Every other sample therefore halts them and returns the light that was measured
last, up to a second ago; that the poll ends all the same needs a measurement to be ready by
then, which the period set at `i2c.h:68`, 500 ms, gives between two samples (a guard of
`timer_expires`). `status` makes a single round, as the byte
it tests is the constant `0xff`.
That the first sample comes after the setup, or finds it stuck, is an assumption on
time (about 20 ms against one second): `main.c:441` starts the timer before the
sensors are set up. `NoTransferRefused` and `DoneIsFresh` say nothing of a setup that takes longer.

**SensorConversions.** Pure functions of a register, in the widths of the code's variables;
they have theorems and no runs. The products with `double` and `float` constants are
written with whole numbers: the fractional part that is dropped is the same.

**Gpiote.** A pin that senses a level raises DETECT while it is at that level; the one
event PORT is set when DETECT rises. So two things must never happen: a pin that stays
at the level it senses, and one that is turned around without its edge having been
seen. `Flip` is the world: a level changes between any two steps. `main` runs
when the interrupt does not, and gives or takes a slot store by store. The interrupt is
one slot per step; it hands a call over in `calling` and waits until the user of the
driver has taken it out.

**AppButton.** `StopRefused`, `FirstEdge` and `SecondEdge` are the three ways through
`gpiote_event_handler`, `detection_delay_timeout_handler` reports. Interrupts of one priority do not preempt
one another, but RTC1 runs its handlers one after the other, so a pin can change between
the expiry (`RtcEnters`) and the report. `known` is history: the level the user was last
told of, the level at the enable to begin with. `disturbed` is history too: a button is
in it when an event of the environment spoils the count of its edges, which the code
cannot repair before the next report: the timer's queue was full, the level the handler
read was no edge (`Glitch`), or the buttons were disabled during a delay. `stopped` has the buttons
whose delay another one stopped. `PendingIsTimed`, `SettledIsKnown` and `HeldIsReported` say that nothing
else goes wrong; they do not cover the buttons they leave out. What happens to those is what
`BouncesAreSettled` (the glitches) and `DelayRuns` (the stopped delays) are about, which leave out
nothing of the kind and which the code violates. Without marking the transitions that `DisableTimer`
leaves behind, TLC refutes the first two.

**ClockDriver.** A request is a look at the state, then a critical region (`RequestStarts`), or the
handler's call and another region. Three contexts: `main`, the driver's interrupt above
it, and a user above both. `item_dequeue` reads the head of the list and stores its
successor in two steps. `due` and `late` are history: the handlers that are owed a
call, and those that were queued when the interrupt had already been. `Careful` is the
assumption that a clock is released only when it is on and never inside somebody else's
request; this image requests LFCLK once and never releases it. The interrupt empties the list without
a critical region, and yet `NoHandlerIsLost`: it takes the clock for on before it looks
at the list, so that a request which preempts it queues nothing. The mutant that forgets
this loses a handler. Without `Careful` the clock may be released and requested again meanwhile, and
the property is false.

**BspThread.** A context is the list of accesses it still has to make, so that each
function of `bsp.c` and `bsp_thread.c` is written as what it does and the interrupt comes
between any two. The two timers are single-shot timers of `TimerService` without
their time. `MaxExpiries` bounds how often the ping timer (200 ms) expires within one call
of the main loop; `Patient` says that a last blink (100 ms) ends before
a role that does not blink follows another one.

## The runs

| run | shows | bounds |
|---|---|---|
| `scheduler` | `ImplementsQueue`, `SlotsAreExclusive`, `SpaceIsExact`, `EveryEventIsHandled` | a queue of 2 (3 slots) under the main loop and 2 nested interrupts, so that every slot can be in the making at once; events with and without data, one too long; one level of pause |
| `timer` | `TimersKeepTheirTime`, `CompareIsSet`, `ListIsSound`, `DistancesTellTheTime` | a repeated timer of 4 ticks, a single-shot one started with 1 or 4, of which 1 is no longer than the latency; 2 queued operations; a counter of 12 values, which wraps every few timeouts, a compare offset of 1 (3 in the code, against timeouts of 5 and more); 1 tick of interrupt latency; `Jitter` is then 4 |
| `cloud` | `StateFollowsRole`, `DetachedForgets`, `AddressStays`, `NoMessageIsLost`, `SentMessagesStay`, `AttachedResolves` | 2 addresses, 2 queries in flight (a current one and a late one), 2 messages for 4 values, so that the pool runs out; everything may fail |
| `cloud_torn` | violation of `AddressesAreWhole` | nothing fails |
| `sensors` | `NoTransferRefused`, `DoneIsFresh`, `DriverFollowsBus`, `SamplesComplete` | the code's own: 40 rows of settings; any transfer may be refused by its sensor |
| `sensors_nack` | violation of `EndedMeansDone` | the same |
| `buttons` | `EdgesAreSeen`, `HandlersAreLive`, `SlotsMatchPins`, `PendingIsTimed`, `SettledIsKnown`, `HeldIsReported` | 1 button and 2 other pins on 2 slots, so that the other pins take each other's slot; stops and starts of the timer may be refused |
| `buttons_two` | violation of `DelayRuns` | 2 buttons, nothing refused |
| `buttons_bounce` | violation of `BouncesAreSettled` | 1 button, nothing refused |
| `clock` | `RequestedRuns`, `OnMeansRunning`, `NoHandlerIsLost`, `QueuedIsCalled` | 2 handler items, 2 requests held by each of 2 contexts; `Careful` |
| `leds` | `BlinkingIsTimed`, `QuietShowsRole`, `RoleIsShown` | 4 toggles (8 in the code), 2 expiries within a call; `Patient` |
| `leds_race` | violation of `QuietShowsRole` | the same, not `Patient` |

Why the bounds are enough. The scheduler's indices are compared only for equality and
order round the ring, which three slots exercise in every position. The timer's
counter is used modulo its range; with 12 values each of the two comparisons of
`ticks_to_expire` goes both ways and every state is reached before and after the
wrap; two timeouts of one timer let a start give it less time than another one did.
`Jitter` is 4 for this instance (TLC finds no handler more than 3 late). The latency
of one tick is enough for a timeout to pass unseen; that a longer one changes nothing but `Jitter` is
proved. No run of the cloud
client can tell three addresses, or a third outstanding query, from two. Two pins beside
the button are what it takes for a slot to change hands under the interrupt and for
two pins to hold DETECT at once; that more pins, slots and buttons behave alike is
proved. Two items make a list with an order; a context that holds two requests makes
a release that is not the last. Toggles matter at their end only; two expiries are the
most that leave the counter of four above zero, as eight allow six.

The violations are what the code does against what the repository says of it. The timer interrupt can read an
address of which the main loop has stored a half. After a NACK the flag that
"indicates if operation on TWI has ended" stays down and the waiting loop never ends.
With two buttons, the second edge of one stops the delay the other waits for, and nobody
starts it again. A bounce that comes before the handler reads the pin makes it pair the edges
wrongly, and a button that is held from then on is not reported. A blink that ends between an LED and the store of `m_stable_state`
shows the previous role, and no timer is left to correct it; storing `m_stable_state`
before the LED is set would do.

What the assumptions exclude is excluded because it fails: TLC refutes

* `TimersKeepTheirTime`, when the restrictions of `AppTimer` are dropped one at a time: a
  stop clears `is_running` at once, so that a start of the running timer that is queued before it
  inserts the timer a second time (`Usage`), although `app_timer.h:189-190` says "the second start
  operation is ignored"; a
  timer that was the first of the list, is stopped (by `stop_all`, or behind one that
  was just inserted) and started again with less time, all in one batch, is first
  again when the batch ends, so that CC[0] is not set (`app_timer.c:663` compares
  the pointers) and the handler is late (`Usage`); a start half
  the counter range after the last timeout fires at once; a start from above the
  module's priority, between the handling of an empty list and the clear of the
  counter, is late by the counter's last value; a stop that finds the queue full (`Usage`)
  has stopped the timer all the same, until its next timeout;
* `RequestedRuns`, `OnMeansRunning` and `NoHandlerIsLost` without `Careful`: a clock
  released after it has started and before its interrupt was taken is marked on when it is stopped already; an item queued
  while the interrupt is taking out the head, by a context that has released and requested the clock
  meanwhile, is lost with the head;
* `QueuedIsCalled` without `late`: a handler that is queued just after the interrupt has emptied the list
  is not called, although the clock runs and stays requested.

Some hazards of these files are not in `PROJECT.json`, because nothing in this image meets
them:

* `stop_all` and a timer restarted sooner (`app_timer.c:596` and 663) and the clear of the counter (line 712), as above;
* `channel_port_alloc` without a critical region (`nrf_drv_gpiote.c:198`): one context
  initialises pins;
* rounds of the GPIOTE interrupt that go on as long as pins keep changing (line 802): no
  pin changes faster than the loop goes round;
* the long push and its one static pin number (`bsp.c:129`): no button is given a long push;
* a start of the blink that is refused (`bsp.c:315`): the queue of ten would have to be full;
* `app_button_disable`, which keeps transitions (`app_button.c:205`): nobody calls it. It is
  modelled all the same, and so is a detection delay that is not started
  (`app_button.c:127`): the buttons concerned are `disturbed`;
* the end of a ping in the interrupt, which reads `m_connection_state` while main may
  be about to set it (`bsp_thread.c:136`): main then shows the new one itself, and `leds`
  checks that it does.

**Fairness.** Handlers that were entered go on (weak fairness): nothing blocks an
interrupt of the lowest priority for ever. The main loop's steps are disabled
whenever an interrupt is active, again and again, so they need strong fairness: that
a sample takes less than the period of the timer and that the other interrupts are
rare justifies it. OpenThread answers each query, if only with a timeout
(`sdk/external/openthread/include/openthread/dns.h`). A transfer ends and a
measurement gets ready. A pending GPIOTE interrupt is taken and goes on (weak); the
detection timer expires if it runs again and again (strong: edges of other pins put
it off, and only for as long as they come). The oscillator starts (weak), and the
clock's interrupt and a request of main go on although they are preempted (strong). The LED
timers expire, and main's calls go on between them (strong). `AppTimer` has no liveness property of its own: a service whose ticks may not
pass over a handler that is late already says that handlers run, as long as time
goes on.

## The proofs

`AppScheduler_proofs` proves, for every queue size below the range of the indices, any
number of interrupt levels and any events: `SchedulerTypeOK`,
`SchedulerSlotsAreExclusive`, `SchedulerSpaceIsExact`. They assume
`IndexFits`: the size of the queue is below the range of an eight-bit index. The
inductive invariant is the conjunction of the type, of `HandlerHoldsHead` (while a
handler runs, the ring is not empty and the head is its slot: the start moves only
afterwards), of `SlotsAreExclusive`, which needs it to tell the slot a put reserves from
the one being read, and of the lower bound of the high-water mark.
`UtilizationCounts` relates the code's formula for the occupation
to the cardinality of the set of taken slots, `NextIndexWraps` the eight-bit index to
the ring.

`SchedulerImplementsQueue` is the refinement: every step of the scheduler is one of
`EventQueue`, or leaves it alone. It assumes, besides `IndexFits`, that the value for "no
event" is not an event (`NoneIsNoEvent`). The ring between the two indices is shown to be
the queue: moving `end` appends (`Reserve`), moving `start` takes the head
(`ExecuteDone`), and a store into a slot changes the one entry that is still in the
making. The invariant grows by three parts for it: a put that has come to its data has
written the handler, a slot holds an event of those that were put, and what a running
handler was given is an event.

`AppTimer_proofs` proves, for any finite set of timers, any timeouts, any range of the counter
and any latency: `AppTimerTypeOK`, `TimerListIsSound`, `TimerDistancesTellTheTime`,
`TimerCompareIsSet`, and `TimersImplementService`, the refinement of `TimerService`.
It assumes that the application is careful (`Usage = {}`) and, of the constants,
`TimesFit`, which TLC evaluates for the instance:

* a repeated timeout is longer than it can be late: more than `Late(1)` and the latency;
* the longest, the latency and `Late(1)` fit in half the range of the counter (256 seconds), which has
  three values or more;
* there are finitely many timers.

A single-shot timeout may be as short as one likes, also shorter than the latency, and the lateness
of all is bounded by `Jitter`, which is `Late(1)` and the latency twice: once for the interrupt, once for
the ticks a start waited in the queue. For this image that is not idle: `timer_a_handler` runs in
the interrupt of RTC1 and spins there through a measurement of the light (100 ms,
`i2c.h:282-321`), one of the range and some forty transfers, so that the button's delay (50 ms) and the blinks
(100 and 200 ms) expire while it does. Four timers are ever started, the sampling one (32768 ticks) and three
single-shot ones (detection, LED, ping); with `CompareOffset` 3 the assumption holds for latencies up to
6551 ticks, which is 200 ms. The theorems then bound how late a button or an LED may be, and
say that no timer is lost or early for it.

`Late` is what the proof found out about the code. Setting CC[0] for a timer that is overdue
puts the compare event `CompareOffset` ticks ahead of the counter. If that timer is then
stopped, the next in the list inherits the delay and, when CC[0] is set for it, may be
delayed again; so the lateness grows with the number of timers, and the i-th of the list may
be late by one such `Delay` for itself and one for each timer that is not before
it. `Bounded` says this of a compare value, and it is inductive because the timers behind one
that leaves move up one place.

No property of the run is inductive. The invariant `IInv` has fifteen parts, in four groups.
*The list and what is due*: `RunningInv` ties `is_running`, which calls and the RTC1 handler
change, to the list, which only the software interrupt changes, and to what is due; where
they differ, it names the reason: the walk has passed the timer, its expired ticks wait,
it waits to be started again, or the first operation queued for it is a stop.
*Time*: `DistInv` says that the sum of the distances up to a timer, less the ticks since
`m_ticks_latest`, is what is left of it; `RestartInv` and `StartsInv` say the same of timers
on their way into the list, `WalkInv` of the ticks that the walk has counted but the
list has not. *The counter*: `ClockInv` says that it runs while there are timers
and never comes round to `m_ticks_latest`. *The compare register*: `WaitInv` between batches,
`HeadInv` and `UpdateInv` within one that does not, or does, set CC[0] at its end; `HeadInv`
holds only because a careful application does not restart the first timer sooner.
The remaining parts are types and ranges. The distances are summed by a recursive function
(`After`). What an insertion, a removal and an expiry do to the sums is proved from its defining
equation, which determines it (`AfterUnique`), so the induction over the list is done once, on a set
of numbers (`SetInduction`).

`CloudClient_proofs` proves, for any sets of addresses, queries and messages, any number
of values and any failures: `CloudTypeOK`, `CloudStateFollowsRole`,
`CloudDetachedForgets`, `CloudAddressStays`, `CloudNoMessageIsLost`,
`CloudSentMessagesStay`. `StateFollowsRole` is inductive together
with the type. The others are not. Those about the address need `CopyInv`: what a copy
under way is going to store, and that without one the address is the unspecified one in
every state but RUNNING. Those about messages need `MailInv`: where the handler is when it
owns a message, that a handler which just began owns none, that it owns at most one, and
that what it is about to free is its own.

`SensorBus_proofs` proves, for any number of settings and any sensors that may not
acknowledge: `SensorTypeOK`, `SensorNoTransferRefused`, `SensorDoneIsFresh`,
`SensorDriverFollowsBus`. The invariant says what the registers are in each phase of a transfer
(`PhaseInv`); that a transfer under way, or ended and not noticed yet, is awaited by the
context that runs (`AwaitedInv`), from which follows that no other one is started; and that
a sample begins only when the setup is over or spins for ever (`ContextInv`). The lemmas about
programs show that a poll always has an operation to go back to, so that no program
counter leaves its program.

`SensorConversions` proves for which registers the values are right: the illuminance up to
655 lux and not above (the product wraps in sixteen bits), the temperature from freezing
upward and 655.36 degrees too high below, the pressure over the whole range of the
sensor.

`ClockDriver_proofs` proves, for any handlers and any number of requests, with
`Careful`: `ClockTypeOK`, `ClockRequestedRuns`, `ClockOnMeansRunning`, `ClockNoHandlerIsLost`. `RequestsAreHeld` relates
the driver's counter to what each context holds; `StartIsNews` says that a start event,
and the interrupt it raised, mean a clock that runs and was not taken for on yet, which
is what a hasty release breaks; `ListIsTheIrqs` that nobody queues while the interrupt
empties the list, since the clock is on by then. `NoHandlerIsLost` needs one
more part, `OwedWait`, proved on top of them.

`AppButton_proofs` proves, for any finite set of pins, any number of slots and any
buttons: `ButtonsTypeOK`, `ButtonsEdgesAreSeen`, `ButtonsHandlersAreLive`,
`ButtonsSlotsMatchPins`. `MovingInv` says what main has stored so far of the slot it is giving or
taking, `SlotInv` that all other slots and pins name each other and that a pin which
senses has a slot wholly its own, so that the interrupt finds its handler.
`RoundInv` is the argument for the rounds: every pin that senses is to be checked; those in
slots that were passed do not match what was read; and while no sense was turned in
this round and no event is pending, DETECT is high only if it was when the pins were read. At
the end of the last round nothing has changed since, so no pin matches and DETECT is low.

It also proves `ButtonsSettledIsKnown` and `ButtonsPendingIsTimed`, for any number of
buttons that share the detection timer. The invariant of the first is
`ParityInv`: for each button that is not disturbed, the sense that waits for the next edge is the
opposite of the level stored at the first edge, or, with no edge pending, of the level the
user knows, and it is one edge ahead only while the handler is being called. Then a
settled button cannot be at the level it senses (`EdgesAreSeen`), so it is at the one known.

`BspThread_proofs` proves, for any number of toggles and any number of expiries within a
call: `BspThreadTypeOK`, `BlinkingStaysTimed` and, with `Patient`, `QuietLedsShowRole`. What
a context has still to do is one of two dozen lists of accesses, so the invariant does not
speak of lists but of three things read off them: the indication that is being shown
(`Show`), what is being done for a ping (`Phase`), and the accesses at which something
is about to change (`Stage`). `ProgramsOK` says that no context is ever outside
those lists. `PingInv` is about the count of toggles, which main and the interrupt both
load, decrement and store: the interrupt counts only what it owns, and main began with
`NumToggles`, of which the expiries of one call are too few to use up (`MainCounts`);
therefore neither passes zero, and a count above zero has a timer, or somebody about to
start it. `BlinkIsTimed` is the same for the indication that blinks. With `Patient`,
`RoleInv` says which indication may still come from the leds timer (`Old`): the one of the
role, or, as long as main has not stored it, a blink; and `LedInv` that each LED is right or
that somebody is still going to set it.

Only model-checked: liveness (`EveryEventIsHandled`, `AttachedResolves`, `SamplesComplete`,
`HeldIsReported`, `QueuedIsCalled`, `RoleIsShown`), which the prover cannot do under
fairness. Every other property of a passing run is a theorem.

## Not modelled

OpenThread, which is binary: what a call of the interrupt finds inside it cannot be told from this
repository. Formatting and logging. Of the drivers, what this image does not use: the
blocking and combined transfers and the driver without EasyDMA; channels of their own,
outputs and tasks of GPIOTE; the calibration of the RC oscillator and the SoftDevice.
Of board support, the indications, the alert and the long push nobody asks for. The
variant `without_sensors`, which is the main-loop part of `CloudClient` without a timer: it resolves the
name and posts nothing. `messenger.py`, which keeps no state. The SDK that is not linked
(Bluetooth, serialization, crypto, file systems, other drivers): it is nearly all of the
repository's lines and no part of this program.

## Plan

1. Done: scheduler, timer, cloud client, sensor bus, conversions, GPIOTE driver, buttons,
   clock driver, LEDs; theorems for every safety property the passing runs check; the
   refinements of the scheduler and of the timer.
2. Worth adding: that the timers as the buttons and LEDs use them (stop, start, expiry, without
   their time) are what `TimerService` allows; action properties of the conversions' callers.

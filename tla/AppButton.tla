------------------------------ MODULE AppButton ------------------------------
(***************************************************************************)
(* app_button.c on top of the GPIOTE driver: buttons are debounced by one  *)
(* detection timer that they share.  An edge starts the timer; the button  *)
(* is reported if its pin is still at the level it had after the edge when *)
(* the timer expires.                                                      *)
(*                                                                         *)
(* The interrupts of GPIOTE, RTC1 and the software interrupt of app_timer  *)
(* have the same priority in this image, so none preempts another; of two  *)
(* that are pending GPIOTE, which has the lower number, comes first.       *)
(* RTC1 runs the handlers of all timers that expired at one go, so that a  *)
(* pin may change between its entry and the handler of the detection timer.*)
(* The timer is what TimerService promises of a single-shot timer, without *)
(* its time: while it runs, it may expire.                                 *)
(***************************************************************************)
EXTENDS Gpiote

CONSTANTS
    Buttons,   \* the pins app_button_init was given
    Refusals   \* calls of the timer that may be refused: "stop", "start"

ASSUME AppButtonAssumption ==
    Buttons \subseteq Pins /\ Refusals \subseteq {"stop", "start"}

VARIABLES
    m_pin_state,       \* the buttons whose pin was high after the last edge
    m_pin_transition,  \* the buttons that wait for the detection delay
    delay,             \* does the timer m_detection_delay_timer_id run?
    rtc,               \* is RTC1_IRQHandler about to call the timeout handler?
    known,             \* history: the level of each button its user knows of
    disturbed,         \* history: buttons whose edges were miscounted
    stopped            \* history: those whose delay another button stopped

button == <<m_pin_state, m_pin_transition, delay, rtc>>
history == <<known, disturbed, stopped>>
vars == <<gpioteVars, button, history>>

Enabled(b) == sense[b] # "none"

(* After app_button_init: each button has its slot and detects nothing.    *)
Init ==
    /\ level \in [Pins -> BOOLEAN]
    /\ sense = [p \in Pins |-> "none"] /\ port_event = FALSE
    /\ handlers \in [Slots -> Buttons \cup {NONE}]
    /\ \A s \in Slots : handlers[s] # NONE <=> s <= Cardinality(Buttons)
    /\ \A b \in Buttons : \E s \in Slots : \A t \in Slots : handlers[t] = b <=> t = s
    /\ pin_assignments = [p \in Pins |->
          IF p \in Buttons THEN CHOOSE s \in Slots : handlers[s] = p ELSE NONE]
    /\ port_handlers_pins = [s \in Slots |->
          IF handlers[s] = NONE THEN NotUsed
                                ELSE [pin |-> handlers[s], polarity |-> "toggle"]]
    /\ main = MainIdle /\ irq = IrqIdle /\ calling = NoCall
    /\ m_pin_state = {} /\ m_pin_transition = {} /\ delay = FALSE /\ rtc = FALSE
    /\ known = [b \in Buttons |-> level[b]] /\ disturbed = {} /\ stopped = {}

-----------------------------------------------------------------------------
(* main: app_button_enable and app_button_disable, button by button, and   *)
(* the calls it makes for other pins.                                      *)
MainMay == MainRuns /\ ~rtc

app_button_enable(b) ==
    /\ MainMay /\ MainCalls /\ ~Enabled(b)
    /\ nrf_drv_gpiote_in_event_enable(b)
    /\ known' = [known EXCEPT ![b] = level[b]]
    /\ UNCHANGED <<button, disturbed, stopped>>

app_button_disable ==
    /\ MainMay /\ MainCalls
    /\ main' = [MainIdle EXCEPT !.op = "disable_buttons"]
    /\ UNCHANGED <<hardware, m_cb, irq, calling, button, history>>

DisableButton(b) ==
    /\ MainMay /\ main.op = "disable_buttons" /\ Enabled(b)
    /\ nrf_drv_gpiote_in_event_disable(b)
    /\ UNCHANGED <<main, button, history>>

(* The timer is stopped last.  A transition that waited for it stays.      *)
DisableTimer ==
    /\ MainMay /\ main.op = "disable_buttons"
    /\ \A b \in Buttons : ~Enabled(b)
    /\ main' = MainIdle /\ delay' = FALSE
    /\ disturbed' = disturbed \cup m_pin_transition
    /\ UNCHANGED <<hardware, m_cb, irq, calling>>
    /\ UNCHANGED <<m_pin_state, m_pin_transition, rtc, known, stopped>>

OtherPins ==
    /\ MainMay
    /\ \/ InitHandler \/ InitPort \/ InitSense \/ EnableSense
       \/ FreeHandler \/ FreePort \/ FreePin
       \/ \E p \in Pins \ Buttons :
             \/ nrf_drv_gpiote_in_init(p)
             \/ nrf_drv_gpiote_in_uninit(p)
             \/ MainCalls /\ nrf_drv_gpiote_in_event_enable(p)
             \/ MainCalls /\ nrf_drv_gpiote_in_event_disable(p) /\ UNCHANGED main
    /\ UNCHANGED <<button, history>>

-----------------------------------------------------------------------------
(* gpiote_event_handler, called by the interrupt for a button.  The level  *)
(* is read from the pin, not from what the interrupt saw: a level that has *)
(* no event yet, or will get none, is a glitch.                            *)
Glitch(b) == sense[b] # Opposite(level[b])

(* The stop is refused: nothing else is done.  The refused stop has        *)
(* stopped the timer all the same (app_timer.c:1025).                      *)
StopRefused(b) ==
    /\ "stop" \in Refusals
    /\ delay' = FALSE
    /\ disturbed' = disturbed \cup {b} \cup m_pin_transition
    /\ UNCHANGED <<m_pin_state, m_pin_transition, stopped>>

\* Fault: the detection delay is not started.
FirstEdge_NoStart(b) ==
    /\ b \notin m_pin_transition
    /\ m_pin_state' = IF level[b] THEN m_pin_state \cup {b} ELSE m_pin_state \ {b}
    /\ m_pin_transition' = m_pin_transition \cup {b}
    /\ delay' = FALSE
    /\ UNCHANGED <<disturbed, stopped>>

\* Fault: the level after the edge is not kept.
FirstEdge_StaleState(b) ==
    /\ b \notin m_pin_transition
    /\ m_pin_transition' = m_pin_transition \cup {b}
    /\ \E refused \in {FALSE} \cup {"start" \in Refusals} :
          /\ delay' = ~refused
          /\ disturbed' = IF refused \/ Glitch(b) THEN disturbed \cup {b} ELSE disturbed
          /\ stopped' = IF refused THEN m_pin_transition ELSE {}
    /\ UNCHANGED m_pin_state

(* The first edge: the level is kept and the delay is started, for all     *)
(* that wait.  If the start is refused, the stop has been made.            *)
FirstEdge(b) ==
    /\ b \notin m_pin_transition
    /\ m_pin_state' = IF level[b] THEN m_pin_state \cup {b} ELSE m_pin_state \ {b}
    /\ m_pin_transition' = m_pin_transition \cup {b}
    /\ \E refused \in {FALSE} \cup {"start" \in Refusals} :
          /\ delay' = ~refused
          /\ disturbed' = IF refused \/ Glitch(b) THEN disturbed \cup {b} ELSE disturbed
          /\ stopped' = IF refused THEN m_pin_transition ELSE {}

(* The second edge within the delay undoes the first.  The delay has been  *)
(* stopped for the other buttons too.                                      *)
SecondEdge(b) ==
    /\ b \in m_pin_transition
    /\ m_pin_transition' = m_pin_transition \ {b}
    /\ delay' = FALSE
    /\ stopped' = m_pin_transition \ {b}
    /\ UNCHANGED <<m_pin_state, disturbed>>

gpiote_event_handler ==
    /\ calling.handler \in Buttons
    /\ \/ StopRefused(calling.pin)
       \/ FirstEdge(calling.pin)
       \/ SecondEdge(calling.pin)
    /\ calling' = NoCall
    /\ UNCHANGED <<hardware, m_cb, main, irq, rtc, known>>

(* The handler of another pin does nothing the buttons see.                *)
OtherHandler ==
    /\ calling # NoCall /\ calling.handler \notin Buttons
    /\ calling' = NoCall
    /\ UNCHANGED <<hardware, m_cb, main, irq, button, history>>

GPIOTE_IRQHandler ==
    \/ ~rtc /\ IrqEnters /\ UNCHANGED <<button, history>>
    \/ IrqStep /\ UNCHANGED <<button, history>>
    \/ gpiote_event_handler
    \/ OtherHandler

-----------------------------------------------------------------------------
(* RTC1_IRQHandler with the detection timer among those that expired.      *)
RtcEnters ==
    /\ irq.pc = "idle" /\ ~port_event /\ ~rtc /\ delay
    /\ rtc' = TRUE /\ delay' = FALSE
    /\ UNCHANGED <<gpioteVars, m_pin_state, m_pin_transition, history>>

(* The buttons that are reported, with the level they are read at.         *)
Reported == {b \in m_pin_transition : level[b] = (b \in m_pin_state)}

(* A report of a level that is no glitch puts the button back in step.     *)
detection_delay_timeout_handler ==
    /\ rtc
    /\ rtc' = FALSE
    /\ m_pin_transition' = {} /\ stopped' = {}
    /\ known' = [b \in Buttons |-> IF b \in Reported THEN level[b] ELSE known[b]]
    /\ disturbed' = (disturbed \cup {b \in m_pin_transition : Glitch(b)})
                        \ {b \in Reported : ~Glitch(b)}
    /\ UNCHANGED <<gpioteVars, m_pin_state, delay>>

-----------------------------------------------------------------------------
Main ==
    \/ \E b \in Buttons : app_button_enable(b) \/ DisableButton(b)
    \/ app_button_disable
    \/ DisableTimer
    \/ OtherPins

Next ==
    \/ \E p \in Pins : Flip(p) /\ UNCHANGED <<button, history>>
    \/ Main
    \/ GPIOTE_IRQHandler
    \/ RtcEnters
    \/ detection_delay_timeout_handler

(* A pending interrupt is taken and its handler goes on, and a timer that  *)
(* runs expires.  The detection timer is not restarted forever by edges    *)
(* where a property assumes that the pin has settled.                      *)
Spec ==
    /\ Init /\ [][Next]_vars
    /\ WF_vars(GPIOTE_IRQHandler)
    /\ SF_vars(RtcEnters)
    /\ WF_vars(detection_delay_timeout_handler)

-----------------------------------------------------------------------------
(* The values of the variables.                                            *)
TypeOK ==
    /\ GpioteTypeOK
    /\ m_pin_state \subseteq Buttons /\ m_pin_transition \subseteq Buttons
    /\ delay \in BOOLEAN /\ rtc \in BOOLEAN
    /\ known \in [Buttons -> BOOLEAN]
    /\ disturbed \subseteq Buttons /\ stopped \subseteq Buttons

Quiet == irq.pc = "idle" /\ ~port_event /\ ~rtc

(* A button that waits for the detection delay has it running, unless the  *)
(* delay was stopped on behalf of another button or the button is          *)
(* disturbed: nothing else, no order of edges, expiries and enables,       *)
(* leaves it waiting for nothing (app_button.c:99-134).                    *)
PendingIsTimed ==
    Quiet => \A b \in m_pin_transition \ disturbed : delay \/ b \in stopped

(* A button that waits for the detection delay has it running, whatever    *)
(* other buttons do (app_button.c:101, "Start detection timer. If timer is *)
(* already running, the detection period is restarted").  The code does    *)
(* not provide this with two buttons.                                      *)
DelayRuns ==
    Quiet => \A b \in m_pin_transition \ disturbed : delay

(* With nothing under way, the user knows the level of each button that    *)
(* detects and waits for no delay, disturbed buttons apart: a glitch, a    *)
(* refused call of the timer, and a disable are the only things that get   *)
(* edges and reports out of step (app_button.c:105-143).                   *)
SettledIsKnown ==
    Quiet /\ main.op # "enable" =>
        \A b \in Buttons \ disturbed :
            Enabled(b) /\ b \notin m_pin_transition => known[b] = level[b]

(* With nothing under way, the user knows the level of each button that    *)
(* detects and waits for no delay, however it bounced (app_button.h:49-51, *)
(* "To handle debouncing, it will start a timer in the GPIOTE event        *)
(* handler").  The code does not provide this: a bounce before the handler *)
(* reads the pin (app_button.c:115) pairs the edges wrongly.               *)
BouncesAreSettled ==
    Quiet /\ main.op # "enable" =>
        \A b \in Buttons :
            Enabled(b) /\ b \notin m_pin_transition => known[b] = level[b]

(* Once the pins have settled, the user comes to know the level of every   *)
(* button that detects and is not disturbed: it is reported, or was        *)
(* already.                                                                *)
HeldIsReported ==
    \A lv \in [Pins -> BOOLEAN] : \A b \in Buttons :
        <>[](level = lv /\ Enabled(b) /\ b \notin disturbed)
            => <>[](known[b] = lv[b])
=============================================================================

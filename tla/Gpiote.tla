------------------------------- MODULE Gpiote -------------------------------
(***************************************************************************)
(* The low-power part of nrf_drv_gpiote.c: pins whose SENSE mechanism      *)
(* raises one common event, PORT, and an interrupt that finds out which    *)
(* pins it was for.  Every pin is configured to toggle, as app_button.c    *)
(* does with GPIOTE_CONFIG_IN_SENSE_TOGGLE: the interrupt turns the sense  *)
(* of a pin that matched around, to see its next edge.                     *)
(*                                                                         *)
(* Three parties act: the pins, whose levels change at any instant; main,  *)
(* which initialises, enables and uninitialises pins store by store; and   *)
(* the interrupt, which main does not preempt.  A user of the driver says  *)
(* what its handlers do: the interrupt puts the call in calling, and goes  *)
(* on when the user has taken it out.                                      *)
(***************************************************************************)
EXTENDS FiniteSets, Naturals

CONSTANTS
    Pins,      \* the pins
    NumSlots,  \* GPIOTE_CONFIG_NUM_OF_LOW_POWER_EVENTS
    NONE       \* no pin: PIN_NOT_USED, FORBIDDEN_HANDLER_ADDRESS

ASSUME GpioteAssumption ==
    /\ NumSlots \in Nat \ {0}
    /\ NONE \notin Pins \cup (1 .. NumSlots) /\ IsFiniteSet(Pins)

VARIABLES
    level,               \* of each pin: is it high?
    sense,               \* the SENSE field of each PIN_CNF register
    port_event,          \* the event register NRF_GPIOTE_EVENTS_PORT
    pin_assignments,     \* m_cb.pin_assignments: the slot of each pin
    handlers,            \* m_cb.handlers: the pin a handler was given for
    port_handlers_pins,  \* m_cb.port_handlers_pins: [pin, polarity]
    main,                \* the call main is in
    irq,                 \* GPIOTE_IRQHandler: program counter and locals
    calling              \* the handler being called: [pin, handler]

hardware == <<level, sense, port_event>>
m_cb == <<pin_assignments, handlers, port_handlers_pins>>
gpioteVars == <<hardware, m_cb, main, irq, calling>>

Slots == 1 .. NumSlots
NotUsed == [pin |-> NONE, polarity |-> "none"]
NoCall == [pin |-> NONE, handler |-> NONE]
MainIdle == [op |-> "none", pin |-> NONE, high |-> FALSE]
IrqIdle == [pc |-> "idle", slot |-> 1, input |-> {}, toggle_mask |-> {},
            pins_to_check |-> {}, repeat |-> FALSE]

pin_in_use_by_gpiote(p) == pin_assignments[p] \in Slots

-----------------------------------------------------------------------------
(* The DETECT signal is high while some pin is at the level it senses; the *)
(* event is set when the signal rises.                                     *)
Matches(se, high) == se = IF high THEN "high" ELSE "low"
Detect(lv, se) == \E p \in Pins : Matches(se[p], lv[p])

(* The registers become lv and se.                                         *)
SetPins(lv, se) ==
    /\ level' = lv /\ sense' = se
    /\ port_event' = (port_event \/ (~Detect(level, sense) /\ Detect(lv, se)))

Flip(p) ==
    /\ SetPins([level EXCEPT ![p] = ~@], sense)
    /\ UNCHANGED <<m_cb, main, irq, calling>>

SetSense(p, se) == SetPins(level, [sense EXCEPT ![p] = se])

Opposite(high) == IF high THEN "low" ELSE "high"

-----------------------------------------------------------------------------
(* main.  The search for a free slot, and the first store.                 *)
MainRuns == irq.pc = "idle"
MainCalls == MainRuns /\ main = MainIdle

FreeSlots == {s \in Slots : handlers[s] = NONE}

nrf_drv_gpiote_in_init(p) ==
    /\ MainCalls /\ ~pin_in_use_by_gpiote(p)
    /\ \E s \in FreeSlots :
          /\ \A t \in FreeSlots : s <= t
          /\ pin_assignments' = [pin_assignments EXCEPT ![p] = s]
    /\ main' = [MainIdle EXCEPT !.op = "init_handler", !.pin = p]
    /\ UNCHANGED <<hardware, handlers, port_handlers_pins, irq, calling>>

InitHandler ==
    /\ MainRuns /\ main.op = "init_handler"
    /\ handlers' = [handlers EXCEPT ![pin_assignments[main.pin]] = main.pin]
    /\ main' = [main EXCEPT !.op = "init_port"]
    /\ UNCHANGED <<hardware, pin_assignments, port_handlers_pins, irq, calling>>

InitPort ==
    /\ MainRuns /\ main.op = "init_port"
    /\ port_handlers_pins' =
          [port_handlers_pins EXCEPT ![pin_assignments[main.pin]] =
              [pin |-> main.pin, polarity |-> "none"]]
    /\ main' = [main EXCEPT !.op = "init_sense"]
    /\ UNCHANGED <<hardware, pin_assignments, handlers, irq, calling>>

(* The pin becomes an input that senses nothing yet.                       *)
InitSense ==
    /\ MainRuns /\ main.op = "init_sense"
    /\ SetSense(main.pin, "none")
    /\ port_handlers_pins' =
          [port_handlers_pins EXCEPT ![pin_assignments[main.pin]].polarity = "toggle"]
    /\ main' = MainIdle
    /\ UNCHANGED <<pin_assignments, handlers, irq, calling>>

(* nrf_drv_gpiote_in_event_enable reads the pin, then sets its sense.      *)
nrf_drv_gpiote_in_event_enable(p) ==
    /\ MainRuns /\ pin_in_use_by_gpiote(p)
    /\ main' = [op |-> "enable", pin |-> p, high |-> level[p]]
    /\ UNCHANGED <<hardware, m_cb, irq, calling>>

\* Fault: the sense that matches now is set.
EnableSense_Same ==
    /\ MainRuns /\ main.op = "enable"
    /\ SetSense(main.pin, Opposite(~main.high))
    /\ main' = MainIdle
    /\ UNCHANGED <<m_cb, irq, calling>>

\* Fault: the polarity is stored as the sense.
EnableSense_Polarity ==
    /\ MainRuns /\ main.op = "enable"
    /\ SetSense(main.pin, port_handlers_pins[pin_assignments[main.pin]].polarity)
    /\ main' = MainIdle
    /\ UNCHANGED <<m_cb, irq, calling>>

EnableSense ==
    /\ MainRuns /\ main.op = "enable"
    /\ SetSense(main.pin, Opposite(main.high))
    /\ main' = MainIdle
    /\ UNCHANGED <<m_cb, irq, calling>>

nrf_drv_gpiote_in_event_disable(p) ==
    /\ MainRuns /\ pin_in_use_by_gpiote(p)
    /\ SetSense(p, "none")
    /\ UNCHANGED <<m_cb, irq, calling>>

\* Fault: the slot is freed while the pin still senses.
nrf_drv_gpiote_in_uninit_KeepsSense(p) ==
    /\ MainCalls /\ pin_in_use_by_gpiote(p)
    /\ main' = [MainIdle EXCEPT !.op = "free_handler", !.pin = p]
    /\ UNCHANGED <<hardware, m_cb, irq, calling>>

(* nrf_drv_gpiote_in_uninit begins by disabling the event of the pin.      *)
nrf_drv_gpiote_in_uninit(p) ==
    /\ MainCalls
    /\ nrf_drv_gpiote_in_event_disable(p)
    /\ main' = [MainIdle EXCEPT !.op = "free_handler", !.pin = p]

(* channel_free makes two stores, pin_in_use_clear the last.               *)
FreeHandler ==
    /\ MainRuns /\ main.op = "free_handler"
    /\ handlers' = [handlers EXCEPT ![pin_assignments[main.pin]] = NONE]
    /\ main' = [main EXCEPT !.op = "free_port"]
    /\ UNCHANGED <<hardware, pin_assignments, port_handlers_pins, irq, calling>>

\* Fault: the slot keeps the pin.
FreePort_Keeps ==
    /\ MainRuns /\ main.op = "free_port"
    /\ main' = [main EXCEPT !.op = "free_pin"]
    /\ UNCHANGED <<hardware, m_cb, irq, calling>>

FreePort ==
    /\ MainRuns /\ main.op = "free_port"
    /\ port_handlers_pins' =
          [port_handlers_pins EXCEPT ![pin_assignments[main.pin]] = NotUsed]
    /\ main' = [main EXCEPT !.op = "free_pin"]
    /\ UNCHANGED <<hardware, pin_assignments, handlers, irq, calling>>

FreePin ==
    /\ MainRuns /\ main.op = "free_pin"
    /\ pin_assignments' = [pin_assignments EXCEPT ![main.pin] = NONE]
    /\ main' = MainIdle
    /\ UNCHANGED <<hardware, handlers, port_handlers_pins, irq, calling>>

-----------------------------------------------------------------------------
(* GPIOTE_IRQHandler.  The event is cleared, then the pins are read.       *)
High == {p \in Pins : level[p]}

IrqEnters ==
    /\ irq.pc = "idle" /\ port_event
    /\ port_event' = FALSE
    /\ irq' = [IrqIdle EXCEPT !.pc = "read"]
    /\ UNCHANGED <<level, sense, m_cb, main, calling>>

IrqReads ==
    /\ irq.pc = "read"
    /\ irq' = [irq EXCEPT !.pc = "check", !.input = High, !.pins_to_check = Pins]
    /\ UNCHANGED <<hardware, m_cb, main, calling>>

(* One round over the slots.  A slot is passed over when it is not used or *)
(* its pin is not to be checked again.                                     *)
AtSlot == irq.pc = "check" /\ calling = NoCall /\ irq.slot \in Slots
Checked == port_handlers_pins[irq.slot]
IsChecked == Checked # NotUsed /\ Checked.pin \in irq.pins_to_check
IsToggle == Checked.polarity = "toggle"
Senses == Matches(sense[Checked.pin], Checked.pin \in irq.input)

ToggleMask == irq.toggle_mask \cup (IF IsToggle THEN {Checked.pin} ELSE {})

CheckSkips ==
    /\ AtSlot /\ ~IsChecked
    /\ irq' = [irq EXCEPT !.slot = @ + 1]
    /\ UNCHANGED <<hardware, m_cb, main, calling>>

CheckNoMatch ==
    /\ AtSlot /\ IsChecked /\ ~Senses
    /\ irq' = [irq EXCEPT !.slot = @ + 1, !.toggle_mask = ToggleMask]
    /\ UNCHANGED <<hardware, m_cb, main, calling>>

(* The handler is looked up through the pin, which names a slot.           *)
Call == [pin |-> Checked.pin, handler |-> handlers[pin_assignments[Checked.pin]]]

\* Fault: the rounds are not repeated.
CheckMatch_OneRound ==
    /\ AtSlot /\ IsChecked /\ Senses
    /\ irq' = [irq EXCEPT !.slot = @ + 1, !.toggle_mask = ToggleMask]
    /\ SetSense(Checked.pin, Opposite(Checked.pin \in irq.input))
    /\ calling' = Call
    /\ UNCHANGED <<m_cb, main>>

CheckMatch ==
    /\ AtSlot /\ IsChecked /\ Senses
    /\ irq' = [irq EXCEPT !.slot = @ + 1, !.toggle_mask = ToggleMask,
                          !.repeat = @ \/ IsToggle]
    /\ IF IsToggle THEN SetSense(Checked.pin, Opposite(Checked.pin \in irq.input))
                   ELSE UNCHANGED hardware
    /\ calling' = Call
    /\ UNCHANGED <<m_cb, main>>

(* The end of a round: another one if a sense was turned around and the    *)
(* pins have changed since they were read.                                 *)
RoundEnds == irq.pc = "check" /\ calling = NoCall /\ irq.slot \notin Slots

IrqRepeats ==
    /\ RoundEnds /\ irq.repeat /\ High # irq.input
    /\ irq' = [irq EXCEPT !.slot = 1, !.repeat = FALSE, !.input = High,
                          !.pins_to_check = irq.toggle_mask]
    /\ UNCHANGED <<hardware, m_cb, main, calling>>

IrqLeaves ==
    /\ RoundEnds /\ (irq.repeat => High = irq.input)
    /\ irq' = IrqIdle
    /\ UNCHANGED <<hardware, m_cb, main, calling>>

IrqStep ==
    \/ IrqReads \/ CheckSkips \/ CheckNoMatch \/ CheckMatch
    \/ IrqRepeats \/ IrqLeaves

-----------------------------------------------------------------------------
(* The values of the variables of the driver.                              *)
GpioteTypeOK ==
    /\ level \in [Pins -> BOOLEAN]
    /\ sense \in [Pins -> {"none", "low", "high"}]
    /\ port_event \in BOOLEAN
    /\ pin_assignments \in [Pins -> Slots \cup {NONE}]
    /\ handlers \in [Slots -> Pins \cup {NONE}]
    /\ port_handlers_pins \in
          [Slots -> [pin : Pins \cup {NONE}, polarity : {"none", "toggle"}]]
    /\ main \in [op : {"none", "init_handler", "init_port", "init_sense", "enable",
                       "free_handler", "free_port", "free_pin", "disable_buttons"},
                 pin : Pins \cup {NONE}, high : BOOLEAN]
    /\ irq \in [pc : {"idle", "read", "check"}, slot : 1 .. NumSlots + 1,
                input : SUBSET Pins, toggle_mask : SUBSET Pins,
                pins_to_check : SUBSET Pins, repeat : BOOLEAN]
    /\ calling \in [pin : Pins \cup {NONE}, handler : Pins \cup {NONE}]

(* No edge is lost: with no event pending and the interrupt left, no pin   *)
(* is at the level it senses, so that its next edge raises DETECT.  A pin  *)
(* that stayed at that level would hold DETECT high and keep the edges of  *)
(* every pin from being seen (nrf_drv_gpiote.c, the rounds of the          *)
(* interrupt handler).                                                     *)
EdgesAreSeen ==
    irq.pc = "idle" /\ ~port_event => ~Detect(level, sense)

(* The interrupt calls the handler that was given for the pin, never that  *)
(* of another pin that took its slot, and never the forbidden address,     *)
(* wherever main is in an initialisation (nrf_drv_gpiote.c:176-200).       *)
HandlersAreLive ==
    calling # NoCall => calling.handler = calling.pin

(* Between two calls of main, slots and pins name each other and every     *)
(* slot is free or wholly taken: none is lost by initialisations and       *)
(* uninitialisations.                                                      *)
SlotsMatchPins ==
    main.op \in {"none", "disable_buttons"} =>
        /\ \A s \in Slots :
              IF handlers[s] = NONE
              THEN port_handlers_pins[s] = NotUsed
                   /\ \A p \in Pins : pin_assignments[p] # s
              ELSE port_handlers_pins[s] = [pin |-> handlers[s], polarity |-> "toggle"]
                   /\ pin_assignments[handlers[s]] = s
        /\ \A p \in Pins : pin_in_use_by_gpiote(p) => handlers[pin_assignments[p]] = p
=============================================================================

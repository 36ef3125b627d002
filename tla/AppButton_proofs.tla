--------------------------- MODULE AppButton_proofs ---------------------------
(***************************************************************************)
(* Proofs about the GPIOTE driver under the buttons, for any number of     *)
(* pins, slots and buttons: no edge is lost between the sense registers    *)
(* and the rounds of the interrupt, and no handler is called for a pin it  *)
(* was not given for.                                                      *)
(***************************************************************************)
EXTENDS AppButton, TLAPS

(* A slot that is wholly taken by a pin, and one that is wholly free.      *)
HoldsPin(p, s) ==
    /\ pin_assignments[p] = s /\ handlers[s] = p
    /\ port_handlers_pins[s] = [pin |-> p, polarity |-> "toggle"]

IsFree(s) ==
    /\ handlers[s] = NONE /\ port_handlers_pins[s] = NotUsed
    /\ \A p \in Pins : pin_assignments[p] # s

(* main is between the stores that give a pin its slot or take it away.    *)
Moving == main.op \in {"init_handler", "init_port", "init_sense", "free_port", "free_pin"}
MovingSlot == pin_assignments[main.pin]

(* What was stored so far.                                                 *)
MovingInv ==
    /\ Moving \/ main.op \in {"free_handler", "enable"} =>
          main.pin \in Pins /\ MovingSlot \in Slots
    /\ Moving \/ main.op = "free_handler" => sense[main.pin] = "none"
    /\ Moving => \A q \in Pins : pin_assignments[q] = MovingSlot => q = main.pin
    /\ main.op = "init_handler" =>
          handlers[MovingSlot] = NONE /\ port_handlers_pins[MovingSlot] = NotUsed
    /\ main.op = "init_port" =>
          handlers[MovingSlot] = main.pin /\ port_handlers_pins[MovingSlot] = NotUsed
    /\ main.op = "init_sense" =>
          /\ handlers[MovingSlot] = main.pin
          /\ port_handlers_pins[MovingSlot] = [pin |-> main.pin, polarity |-> "none"]
    /\ main.op = "free_port" =>
          /\ handlers[MovingSlot] = NONE
          /\ port_handlers_pins[MovingSlot] = [pin |-> main.pin, polarity |-> "toggle"]
    /\ main.op = "free_pin" =>
          handlers[MovingSlot] = NONE /\ port_handlers_pins[MovingSlot] = NotUsed

(* All other pins and slots name each other; only such a pin senses.       *)
SlotInv ==
    /\ \A p \in Pins : pin_in_use_by_gpiote(p) /\ ~(Moving /\ p = main.pin)
                          => HoldsPin(p, pin_assignments[p])
    /\ \A s \in Slots : ~(Moving /\ s = MovingSlot)
                          => IsFree(s) \/ \E p \in Pins : HoldsPin(p, s)
    /\ \A p \in Pins : sense[p] # "none" => pin_in_use_by_gpiote(p)

(* A round of the interrupt.  The pins that sense are all to be checked;   *)
(* those in slots that were passed do not match what was read; and while   *)
(* no sense was turned around, DETECT is high only if it was when the pins *)
(* were read, or the event is set again.                                   *)
RoundInv ==
    /\ irq.pc = "read" => irq.slot = 1
    /\ irq.pc = "check" =>
        /\ \A p \in Pins : sense[p] # "none" => p \in irq.pins_to_check
        /\ \A p \in Pins : sense[p] # "none" /\ pin_assignments[p] < irq.slot =>
              p \in irq.toggle_mask /\ ~Matches(sense[p], p \in irq.input)
        /\ ~port_event /\ ~irq.repeat /\ Detect(level, sense) =>
              \E p \in Pins : Matches(sense[p], p \in irq.input)

IInv ==
    /\ TypeOK /\ MovingInv /\ SlotInv /\ RoundInv
    /\ EdgesAreSeen /\ HandlersAreLive

-----------------------------------------------------------------------------
\* A pin that senses has a slot that is wholly its own.
LEMMA SensingHolds ==
    ASSUME MovingInv, SlotInv, NEW p \in Pins, sense[p] # "none"
    PROVE  pin_assignments[p] \in Slots /\ HoldsPin(p, pin_assignments[p])
  BY DEF MovingInv, SlotInv, pin_in_use_by_gpiote

\* A slot that names a pin which senses is that pin's.
LEMMA SensingSlot ==
    ASSUME MovingInv, SlotInv, NEW s \in Slots, NEW p \in Pins,
           sense[p] # "none", port_handlers_pins[s].pin = p
    PROVE  HoldsPin(p, s)
<1>1. CASE Moving /\ s = MovingSlot
  <2>1. port_handlers_pins[s].pin \in {main.pin, NONE}
    BY <1>1 DEF MovingInv, Moving, NotUsed
  <2>2. sense[main.pin] = "none"
    BY <1>1 DEF MovingInv
  <2> QED  BY <2>1, <2>2, GpioteAssumption
<1>2. CASE IsFree(s)
  BY <1>2, GpioteAssumption DEF IsFree, NotUsed
<1>3. CASE \E q \in Pins : HoldsPin(q, s)
  BY <1>3 DEF HoldsPin
<1> QED  BY <1>1, <1>2, <1>3 DEF SlotInv

-----------------------------------------------------------------------------
(* What the steps leave alone.                                             *)

\* The part of the type that no step of the driver changes.
ButtonTypeOK ==
    /\ m_pin_state \subseteq Buttons /\ m_pin_transition \subseteq Buttons
    /\ delay \in BOOLEAN /\ rtc \in BOOLEAN
    /\ known \in [Buttons -> BOOLEAN]
    /\ disturbed \subseteq Buttons /\ stopped \subseteq Buttons

\* A step that changes no variable of the driver.
LEMMA SameDriver ==
    ASSUME IInv, UNCHANGED gpioteVars, ButtonTypeOK'
    PROVE  IInv'
<1>1. GpioteTypeOK'
  BY DEF IInv, TypeOK, GpioteTypeOK, gpioteVars, hardware, m_cb
<1>2. MovingInv' /\ SlotInv'
  BY DEF IInv, MovingInv, SlotInv, Moving, MovingSlot, HoldsPin, IsFree, pin_in_use_by_gpiote,
         gpioteVars, hardware, m_cb
<1>3. RoundInv' /\ EdgesAreSeen' /\ HandlersAreLive'
  BY DEF IInv, RoundInv, EdgesAreSeen, HandlersAreLive, Detect, gpioteVars, hardware, m_cb
<1> QED  BY <1>1, <1>2, <1>3 DEF IInv, TypeOK, ButtonTypeOK

\* A step that only ends the call of a handler.
LEMMA CallReturns ==
    ASSUME IInv, UNCHANGED <<hardware, m_cb, main, irq>>, calling' = NoCall, ButtonTypeOK'
    PROVE  IInv'
<1>1. GpioteTypeOK'
  BY DEF IInv, TypeOK, GpioteTypeOK, NoCall, hardware, m_cb
<1>2. MovingInv' /\ SlotInv'
  BY DEF IInv, MovingInv, SlotInv, Moving, MovingSlot, HoldsPin, IsFree, pin_in_use_by_gpiote,
         hardware, m_cb
<1>3. RoundInv' /\ EdgesAreSeen' /\ HandlersAreLive'
  BY DEF IInv, RoundInv, EdgesAreSeen, HandlersAreLive, Detect, hardware, m_cb
<1> QED  BY <1>1, <1>2, <1>3 DEF IInv, TypeOK, ButtonTypeOK

\* Outside the interrupt, a change of the registers that makes a pin match
\* what it senses sets the event.
LEMMA EdgeSetsEvent ==
    ASSUME EdgesAreSeen, irq.pc = "idle", NEW lv, NEW se, SetPins(lv, se), irq' = irq
    PROVE  EdgesAreSeen' /\ RoundInv'
<1>1. Detect(level, sense)' = Detect(lv, se)
  BY DEF SetPins, Detect
<1>2. port_event' = (port_event \/ (~Detect(level, sense) /\ Detect(lv, se)))
  BY DEF SetPins
<1>3. EdgesAreSeen'
  BY <1>1, <1>2 DEF EdgesAreSeen
<1> QED  BY <1>3 DEF RoundInv

\* The same for a step that leaves the registers alone.
LEMMA NoEdge ==
    ASSUME EdgesAreSeen, irq.pc = "idle", UNCHANGED <<hardware, irq>>
    PROVE  EdgesAreSeen' /\ RoundInv'
  BY DEF EdgesAreSeen, RoundInv, Detect, hardware

-----------------------------------------------------------------------------
(* The pins.                                                               *)

\* A pin changes its level.
LEMMA FlipKeepsInv ==
    ASSUME IInv, NEW p \in Pins, Flip(p), UNCHANGED <<button, history>>
    PROVE  IInv'
<1> DEFINE lv == [level EXCEPT ![p] = ~@]
<1>1. /\ level' = lv /\ sense' = sense
      /\ port_event' = (port_event \/ (~Detect(level, sense) /\ Detect(lv, sense)))
      /\ UNCHANGED <<pin_assignments, handlers, port_handlers_pins, main, irq, calling>>
  BY DEF Flip, SetPins, m_cb
<1>2. TypeOK'
  <2>1. lv \in [Pins -> BOOLEAN]
    BY DEF IInv, TypeOK, GpioteTypeOK
  <2>2. port_event' \in BOOLEAN
    BY <1>1
  <2> HIDE DEF lv
  <2> QED  BY <1>1, <2>1, <2>2 DEF IInv, TypeOK, GpioteTypeOK, button, history
<1>3. MovingInv' /\ SlotInv' /\ HandlersAreLive'
  BY <1>1 DEF IInv, MovingInv, SlotInv, Moving, MovingSlot, HoldsPin, IsFree, HandlersAreLive,
              pin_in_use_by_gpiote
<1>4. Detect(level, sense)' = Detect(lv, sense)
  BY <1>1 DEF Detect
<1> HIDE DEF lv
<1>5. ~port_event' /\ Detect(level, sense)' => ~port_event /\ Detect(level, sense)
  BY <1>1, <1>4
<1>6. EdgesAreSeen' /\ RoundInv'
  BY <1>1, <1>5 DEF IInv, EdgesAreSeen, RoundInv
<1> QED  BY <1>2, <1>3, <1>6 DEF IInv

\* What is known when the handlers have called nothing at start.
LEMMA InitKeepsInv == Init => IInv
<1> SUFFICES ASSUME Init PROVE IInv
  OBVIOUS
<1>1. \A b \in Buttons : pin_assignments[b] \in Slots /\ handlers[pin_assignments[b]] = b
  BY AppButtonAssumption DEF Init
<1>2. \A p \in Pins : p \notin Buttons => pin_assignments[p] = NONE
  BY DEF Init
<1>3. NONE \notin Slots /\ NONE \notin Buttons
  BY GpioteAssumption, AppButtonAssumption DEF Slots
<1>4. \A s, t \in Slots : handlers[s] \in Buttons /\ handlers[s] = handlers[t] => s = t
  BY DEF Init
<1>5. GpioteTypeOK
  <2>1. pin_assignments \in [Pins -> Slots \cup {NONE}]
    BY <1>1, <1>2, AppButtonAssumption DEF Init
  <2>2. handlers \in [Slots -> Pins \cup {NONE}]
    BY AppButtonAssumption DEF Init
  <2>3. port_handlers_pins \in
            [Slots -> [pin : Pins \cup {NONE}, polarity : {"none", "toggle"}]]
    BY <2>2 DEF Init, NotUsed
  <2>4. /\ main \in [op : {"none"}, pin : {NONE}, high : BOOLEAN]
        /\ level \in [Pins -> BOOLEAN] /\ port_event = FALSE
        /\ calling \in [pin : Pins \cup {NONE}, handler : Pins \cup {NONE}]
        /\ sense \in [Pins -> {"none", "low", "high"}]
    BY DEF Init, MainIdle, NoCall
  <2>5. irq \in [pc : {"idle", "read", "check"}, slot : 1 .. NumSlots + 1,
                 input : SUBSET Pins, toggle_mask : SUBSET Pins,
                 pins_to_check : SUBSET Pins, repeat : BOOLEAN]
    BY GpioteAssumption DEF Init, IrqIdle
  <2> QED  BY <2>1, <2>2, <2>3, <2>4, <2>5 DEF GpioteTypeOK
<1>6. ButtonTypeOK
  BY AppButtonAssumption DEF ButtonTypeOK, Init
<1>7. SlotInv
  <2>1. \A b \in Buttons : HoldsPin(b, pin_assignments[b])
    BY <1>1, <1>3 DEF HoldsPin, Init
  <2>2. ASSUME NEW s \in Slots PROVE IsFree(s) \/ \E p \in Pins : HoldsPin(p, s)
    <3>1. CASE handlers[s] = NONE
      BY <1>1, <1>2, <1>3, <3>1, GpioteAssumption DEF IsFree, Init
    <3>2. CASE handlers[s] # NONE
      <4>1. handlers[s] \in Buttons
        BY <3>2 DEF Init
      <4>2. pin_assignments[handlers[s]] = s
        BY <1>1, <1>4, <4>1
      <4> QED  BY <2>1, <4>1, <4>2, AppButtonAssumption
    <3> QED  BY <3>1, <3>2
  <2>3. \A p \in Pins : sense[p] = "none"
    BY DEF Init
  <2> QED  BY <1>2, <1>3, <2>1, <2>2, <2>3 DEF SlotInv, pin_in_use_by_gpiote
<1>8. MovingInv
  BY DEF Init, MainIdle, MovingInv, Moving
<1>9. RoundInv /\ EdgesAreSeen /\ HandlersAreLive
  BY DEF Init, IrqIdle, RoundInv, EdgesAreSeen, HandlersAreLive, Detect, Matches
<1> QED
  BY <1>5, <1>6, <1>7, <1>8, <1>9 DEF IInv, TypeOK, ButtonTypeOK


-----------------------------------------------------------------------------
(* main.                                                                   *)

\* The stores to the slot that moves disturb no other slot.
LEMMA MovingStore ==
    ASSUME MovingInv, SlotInv, Moving, Moving', main'.pin = main.pin,
           UNCHANGED <<pin_assignments, sense>>,
           \A t \in Slots : t # MovingSlot =>
              handlers'[t] = handlers[t] /\ port_handlers_pins'[t] = port_handlers_pins[t]
    PROVE  SlotInv'
<1>1. MovingSlot' = MovingSlot /\ main.pin \in Pins
  BY DEF MovingSlot, MovingInv
<1>2. ASSUME NEW p \in Pins, pin_assignments[p] \in Slots, p # main.pin
      PROVE  HoldsPin(p, pin_assignments[p])'
  <2>1. pin_assignments[p] # MovingSlot
    BY <1>2 DEF MovingInv
  <2>2. HoldsPin(p, pin_assignments[p])
    BY <1>2 DEF SlotInv, pin_in_use_by_gpiote
  <2> QED  BY <1>2, <2>1, <2>2 DEF HoldsPin
<1>3. ASSUME NEW t \in Slots, t # MovingSlot
      PROVE  (IsFree(t) \/ \E p \in Pins : HoldsPin(p, t))'
  <2>1. IsFree(t) \/ \E p \in Pins : HoldsPin(p, t)
    BY <1>3 DEF SlotInv
  <2> QED  BY <1>3, <2>1 DEF IsFree, HoldsPin
<1>4. \A p \in Pins : sense[p] # "none" => pin_assignments[p] \in Slots
  BY DEF SlotInv, pin_in_use_by_gpiote
<1> QED  BY <1>1, <1>2, <1>3, <1>4 DEF SlotInv, pin_in_use_by_gpiote

\* What main's steps have in common.
LEMMA MainStep ==
    ASSUME IInv, MovingInv', SlotInv', EdgesAreSeen', RoundInv',
           GpioteTypeOK', UNCHANGED <<calling, button, history>>
    PROVE  IInv'
<1>1. ButtonTypeOK'
  BY DEF IInv, TypeOK, ButtonTypeOK, button, history
<1> QED  BY <1>1 DEF IInv, TypeOK, ButtonTypeOK, HandlersAreLive

\* The three stores that leave the slot moving.
LEMMA StoresKeepInv ==
    ASSUME IInv, InitHandler \/ InitPort \/ FreePort, UNCHANGED <<button, history>>
    PROVE  IInv'
<1> DEFINE s == MovingSlot
<1>1. /\ main.pin \in Pins /\ s \in Slots /\ sense[main.pin] = "none"
      /\ Moving /\ irq.pc = "idle"
  BY DEF IInv, MovingInv, Moving, InitHandler, InitPort, FreePort, MainRuns
<1>2. /\ Moving' /\ main'.pin = main.pin
      /\ UNCHANGED <<hardware, pin_assignments, irq, calling>>
      /\ main' \in [op : {"init_port", "init_sense", "free_pin"},
                    pin : Pins \cup {NONE}, high : BOOLEAN]
  BY DEF IInv, TypeOK, GpioteTypeOK, Moving, InitHandler, InitPort, FreePort
<1>3. /\ handlers' \in [Slots -> Pins \cup {NONE}]
      /\ port_handlers_pins' \in
            [Slots -> [pin : Pins \cup {NONE}, polarity : {"none", "toggle"}]]
  <2>1. /\ handlers \in [Slots -> Pins \cup {NONE}]
        /\ port_handlers_pins \in
              [Slots -> [pin : Pins \cup {NONE}, polarity : {"none", "toggle"}]]
    BY DEF IInv, TypeOK, GpioteTypeOK
  <2>2. CASE InitHandler
    BY <1>1, <2>1, <2>2 DEF InitHandler
  <2>3. CASE InitPort
    BY <1>1, <2>1, <2>3 DEF InitPort
  <2>4. CASE FreePort
    BY <1>1, <2>1, <2>4 DEF FreePort, NotUsed
  <2> QED  BY <2>2, <2>3, <2>4
<1>4. GpioteTypeOK'
  BY <1>2, <1>3 DEF IInv, TypeOK, GpioteTypeOK, hardware
<1>5. SlotInv'
  <2>1. \A t \in Slots : t # s =>
           handlers'[t] = handlers[t] /\ port_handlers_pins'[t] = port_handlers_pins[t]
    BY DEF IInv, TypeOK, GpioteTypeOK, InitHandler, InitPort, FreePort, MovingSlot
  <2> QED  BY <1>1, <1>2, <2>1, MovingStore DEF IInv, hardware
<1>6. MovingInv'
  <2>1. CASE InitHandler
    BY <1>1, <1>2, <2>1 DEF IInv, TypeOK, GpioteTypeOK, MovingInv, MovingSlot, Moving,
                            InitHandler, hardware
  <2>2. CASE InitPort
    BY <1>1, <1>2, <2>2 DEF IInv, TypeOK, GpioteTypeOK, MovingInv, MovingSlot, Moving,
                            InitPort, hardware
  <2>3. CASE FreePort
    BY <1>1, <1>2, <2>3 DEF IInv, TypeOK, GpioteTypeOK, MovingInv, MovingSlot, Moving,
                            FreePort, hardware
  <2> QED  BY <2>1, <2>2, <2>3
<1>7. EdgesAreSeen' /\ RoundInv'
  BY <1>1, <1>2, NoEdge DEF IInv
<1> QED
  BY <1>2, <1>4, <1>5, <1>6, <1>7, MainStep

\* The first store of an initialisation takes a free slot.
LEMMA InitialisationKeepsInv ==
    ASSUME IInv, NEW p \in Pins, nrf_drv_gpiote_in_init(p), UNCHANGED <<button, history>>
    PROVE  IInv'
<1>1. /\ irq.pc = "idle" /\ ~Moving /\ pin_assignments[p] \notin Slots
      /\ UNCHANGED <<hardware, handlers, port_handlers_pins, irq, calling>>
      /\ main' = [op |-> "init_handler", pin |-> p, high |-> FALSE]
  BY DEF nrf_drv_gpiote_in_init, MainCalls, MainRuns, MainIdle, Moving, pin_in_use_by_gpiote
<1>2. PICK s \in Slots : /\ handlers[s] = NONE
                         /\ pin_assignments' = [pin_assignments EXCEPT ![p] = s]
  BY DEF nrf_drv_gpiote_in_init, FreeSlots
<1>3. pin_assignments \in [Pins -> Slots \cup {NONE}]
  BY DEF IInv, TypeOK, GpioteTypeOK
<1>4. IsFree(s)
  BY <1>1, <1>2, GpioteAssumption DEF IInv, SlotInv, HoldsPin
<1>5. sense[p] = "none"
  BY <1>1 DEF IInv, SlotInv, pin_in_use_by_gpiote
<1>6. GpioteTypeOK'
  BY <1>1, <1>2, <1>3 DEF IInv, TypeOK, GpioteTypeOK, hardware
<1>7. /\ Moving' /\ MovingSlot' = s /\ main'.pin = p
      /\ \A q \in Pins : q # p => pin_assignments'[q] = pin_assignments[q]
  BY <1>1, <1>2, <1>3 DEF Moving, MovingSlot
<1>8. MovingInv'
  BY <1>1, <1>2, <1>4, <1>5, <1>7 DEF MovingInv, IsFree, hardware
<1>9. SlotInv'
  <2>1. ASSUME NEW q \in Pins, pin_assignments'[q] \in Slots, q # p
        PROVE  HoldsPin(q, pin_assignments[q])'
    BY <1>1, <1>7, <2>1 DEF IInv, SlotInv, HoldsPin, pin_in_use_by_gpiote
  <2>2. ASSUME NEW t \in Slots, t # s
        PROVE  (IsFree(t) \/ \E q \in Pins : HoldsPin(q, t))'
    <3>1. CASE IsFree(t)
      BY <1>1, <1>2, <1>3, <2>2, <3>1 DEF IsFree
    <3>2. ASSUME NEW q \in Pins, HoldsPin(q, t)
          PROVE  HoldsPin(q, t)'
      BY <1>1, <1>7, <3>2 DEF HoldsPin
    <3> QED  BY <1>1, <3>1, <3>2 DEF IInv, SlotInv
  <2>3. \A q \in Pins : sense'[q] # "none" => pin_assignments'[q] \in Slots
    BY <1>1, <1>2, <1>3 DEF IInv, SlotInv, pin_in_use_by_gpiote, hardware
  <2> QED  BY <1>7, <2>1, <2>2, <2>3 DEF SlotInv, pin_in_use_by_gpiote
<1>10. EdgesAreSeen' /\ RoundInv'
  BY <1>1, NoEdge DEF IInv
<1> QED
  BY <1>1, <1>6, <1>8, <1>9, <1>10, MainStep

\* The last store of an initialisation: the pin has its slot, and senses nothing.
LEMMA InitSenseKeepsInv ==
    ASSUME IInv, InitSense, UNCHANGED <<button, history>>
    PROVE  IInv'
<1> DEFINE p == main.pin
           s == MovingSlot
<1>1. /\ Moving /\ irq.pc = "idle" /\ p \in Pins /\ s \in Slots /\ sense[p] = "none"
      /\ handlers[s] = p /\ port_handlers_pins[s] = [pin |-> p, polarity |-> "none"]
      /\ \A q \in Pins : pin_assignments[q] = s => q = p
  BY DEF IInv, MovingInv, Moving, InitSense, MainRuns
<1>2. /\ sense' = [sense EXCEPT ![p] = "none"] /\ sense' = sense
      /\ main' = [op |-> "none", pin |-> NONE, high |-> FALSE] /\ ~Moving'
      /\ UNCHANGED <<level, pin_assignments, handlers, irq, calling>>
      /\ port_event' \in BOOLEAN
  BY <1>1 DEF IInv, TypeOK, GpioteTypeOK, InitSense, SetSense, SetPins, MainIdle, Moving
<1>3. /\ port_handlers_pins'[s] = [pin |-> p, polarity |-> "toggle"]
      /\ \A t \in Slots : t # s => port_handlers_pins'[t] = port_handlers_pins[t]
      /\ port_handlers_pins' \in
            [Slots -> [pin : Pins \cup {NONE}, polarity : {"none", "toggle"}]]
  BY <1>1 DEF IInv, TypeOK, GpioteTypeOK, InitSense, MovingSlot
<1>4. GpioteTypeOK'
  BY <1>2, <1>3 DEF IInv, TypeOK, GpioteTypeOK
<1>5. MovingInv'
  BY <1>2 DEF MovingInv
<1>6. pin_assignments[p] = s
  BY DEF MovingSlot
<1>7. SlotInv'
  <2>1. ASSUME NEW q \in Pins, pin_assignments[q] \in Slots
        PROVE  HoldsPin(q, pin_assignments[q])'
    <3>1. CASE q = p
      BY <1>1, <1>2, <1>3, <1>6, <3>1 DEF HoldsPin
    <3>2. CASE q # p
      <4>1. HoldsPin(q, pin_assignments[q]) /\ pin_assignments[q] # s
        BY <1>1, <2>1, <3>2 DEF IInv, SlotInv, pin_in_use_by_gpiote
      <4> QED  BY <1>2, <1>3, <2>1, <4>1 DEF HoldsPin
    <3> QED  BY <3>1, <3>2
  <2>2. ASSUME NEW t \in Slots
        PROVE  (IsFree(t) \/ \E q \in Pins : HoldsPin(q, t))'
    <3>1. CASE t = s
      BY <1>1, <1>2, <1>3, <1>6, <3>1 DEF HoldsPin
    <3>2. CASE t # s
      <4>1. IsFree(t) \/ \E q \in Pins : HoldsPin(q, t)
        BY <3>2 DEF IInv, SlotInv
      <4> QED  BY <1>2, <1>3, <3>2, <4>1 DEF IsFree, HoldsPin
    <3> QED  BY <3>1, <3>2
  <2> QED  BY <1>2, <2>1, <2>2 DEF IInv, SlotInv, pin_in_use_by_gpiote
<1>8. EdgesAreSeen' /\ RoundInv'
  BY <1>1, <1>2, EdgeSetsEvent DEF IInv, InitSense, SetSense
<1> QED
  BY <1>2, <1>4, <1>5, <1>7, <1>8, MainStep

\* The first store that takes a slot away: its pin senses nothing.
LEMMA FreeHandlerKeepsInv ==
    ASSUME IInv, FreeHandler, UNCHANGED <<button, history>>
    PROVE  IInv'
<1> DEFINE p == main.pin
           s == MovingSlot
<1>1. /\ ~Moving /\ irq.pc = "idle" /\ p \in Pins /\ s \in Slots /\ sense[p] = "none"
  BY DEF IInv, MovingInv, Moving, FreeHandler, MainRuns
<1>2. HoldsPin(p, s)
  BY <1>1 DEF IInv, SlotInv, pin_in_use_by_gpiote, MovingSlot
<1>3. /\ UNCHANGED <<hardware, pin_assignments, port_handlers_pins, irq, calling>>
      /\ main' \in [op : {"free_port"}, pin : Pins \cup {NONE}, high : BOOLEAN]
      /\ main'.pin = p /\ Moving' /\ MovingSlot' = s
  BY DEF IInv, TypeOK, GpioteTypeOK, FreeHandler, Moving, MovingSlot
<1>4. /\ handlers'[s] = NONE /\ \A t \in Slots : t # s => handlers'[t] = handlers[t]
      /\ handlers' \in [Slots -> Pins \cup {NONE}]
  BY <1>1 DEF IInv, TypeOK, GpioteTypeOK, FreeHandler, MovingSlot
<1>5. GpioteTypeOK'
  BY <1>3, <1>4 DEF IInv, TypeOK, GpioteTypeOK, hardware
<1>6. \A q \in Pins : pin_assignments[q] = s => q = p
  BY <1>1, <1>2 DEF IInv, SlotInv, pin_in_use_by_gpiote, HoldsPin
<1>7. MovingInv'
  BY <1>1, <1>2, <1>3, <1>4, <1>6 DEF MovingInv, HoldsPin, hardware
<1>8. SlotInv'
  <2>1. ASSUME NEW q \in Pins, pin_assignments[q] \in Slots, q # p
        PROVE  HoldsPin(q, pin_assignments[q])'
    <3>1. HoldsPin(q, pin_assignments[q]) /\ pin_assignments[q] # s
      BY <1>1, <1>6, <2>1 DEF IInv, SlotInv, pin_in_use_by_gpiote
    <3> QED  BY <1>3, <1>4, <2>1, <3>1 DEF HoldsPin
  <2>2. ASSUME NEW t \in Slots, t # s
        PROVE  (IsFree(t) \/ \E q \in Pins : HoldsPin(q, t))'
    <3>1. IsFree(t) \/ \E q \in Pins : HoldsPin(q, t)
      BY <1>1 DEF IInv, SlotInv
    <3> QED  BY <1>3, <1>4, <2>2, <3>1 DEF IsFree, HoldsPin
  <2> QED  BY <1>3, <2>1, <2>2 DEF IInv, SlotInv, pin_in_use_by_gpiote, hardware
<1>9. EdgesAreSeen' /\ RoundInv'
  BY <1>1, <1>3, NoEdge DEF IInv
<1> QED
  BY <1>3, <1>5, <1>7, <1>8, <1>9, MainStep

\* The last store that takes a slot away: the slot is wholly free.
LEMMA FreePinKeepsInv ==
    ASSUME IInv, FreePin, UNCHANGED <<button, history>>
    PROVE  IInv'
<1> DEFINE p == main.pin
           s == MovingSlot
<1>1. /\ Moving /\ irq.pc = "idle" /\ p \in Pins /\ s \in Slots /\ sense[p] = "none"
      /\ handlers[s] = NONE /\ port_handlers_pins[s] = NotUsed
      /\ \A q \in Pins : pin_assignments[q] = s => q = p
  BY DEF IInv, MovingInv, Moving, FreePin, MainRuns
<1>2. /\ UNCHANGED <<hardware, handlers, port_handlers_pins, irq, calling>>
      /\ main' = [op |-> "none", pin |-> NONE, high |-> FALSE] /\ ~Moving'
      /\ pin_assignments' = [pin_assignments EXCEPT ![p] = NONE]
  BY DEF FreePin, MainIdle, Moving
<1>3. pin_assignments \in [Pins -> Slots \cup {NONE}] /\ NONE \notin Slots
  BY GpioteAssumption DEF IInv, TypeOK, GpioteTypeOK, Slots
<1>4. GpioteTypeOK'
  BY <1>2, <1>3 DEF IInv, TypeOK, GpioteTypeOK, hardware
<1>5. MovingInv'
  BY <1>2 DEF MovingInv
<1>6. /\ pin_assignments'[p] = NONE
      /\ \A q \in Pins : q # p => pin_assignments'[q] = pin_assignments[q]
  BY <1>1, <1>2, <1>3
<1>7. pin_assignments[p] = s
  BY DEF MovingSlot
<1> HIDE DEF p, s
<1>8. SlotInv'
  <2>1. ASSUME NEW q \in Pins, pin_assignments'[q] \in Slots
        PROVE  HoldsPin(q, pin_assignments[q])'
    <3>1. q # p /\ pin_assignments[q] # s
      BY <1>1, <1>3, <1>6, <2>1
    <3>2. HoldsPin(q, pin_assignments[q])
      BY <1>6, <2>1, <3>1 DEF IInv, SlotInv, pin_in_use_by_gpiote, p
    <3> QED  BY <1>2, <1>6, <3>1, <3>2 DEF HoldsPin
  <2>2. ASSUME NEW t \in Slots
        PROVE  (IsFree(t) \/ \E q \in Pins : HoldsPin(q, t))'
    <3>1. CASE t = s
      BY <1>1, <1>2, <1>3, <1>6, <3>1 DEF IsFree
    <3>2. CASE t # s
      <4>1. IsFree(t) \/ \E q \in Pins : HoldsPin(q, t)
        BY <3>2 DEF IInv, SlotInv, s
      <4>2. CASE IsFree(t)
        BY <1>2, <1>3, <1>6, <4>2 DEF IsFree
      <4>3. ASSUME NEW q \in Pins, HoldsPin(q, t) PROVE HoldsPin(q, t)'
        BY <1>2, <1>6, <1>7, <3>2, <4>3 DEF HoldsPin
      <4> QED  BY <4>1, <4>2, <4>3
    <3> QED  BY <3>1, <3>2
  <2>3. \A q \in Pins : sense'[q] # "none" => pin_assignments'[q] \in Slots
    BY <1>1, <1>2, <1>6 DEF IInv, SlotInv, pin_in_use_by_gpiote, hardware
  <2> QED  BY <1>2, <2>1, <2>2, <2>3 DEF SlotInv, pin_in_use_by_gpiote
<1>9. EdgesAreSeen' /\ RoundInv'
  BY <1>1, <1>2, NoEdge DEF IInv
<1> QED
  BY <1>2, <1>4, <1>5, <1>8, <1>9, MainStep

\* A call of main that only sets what a pin which is not moving senses, and
\* goes to a step that moves no slot.
LEMMA SenseStep ==
    ASSUME IInv, irq.pc = "idle", ~Moving, NEW p \in Pins, pin_in_use_by_gpiote(p),
           NEW se \in {"none", "low", "high"}, SetSense(p, se),
           UNCHANGED <<m_cb, irq, calling, button, history>>,
           GpioteTypeOK', ~Moving',
           main'.op \in {"enable", "free_handler"} =>
              main'.pin \in Pins /\ pin_assignments[main'.pin] \in Slots,
           main'.op = "free_handler" => sense'[main'.pin] = "none"
    PROVE  IInv'
<1>1. sense' = [sense EXCEPT ![p] = se] /\ sense \in [Pins -> {"none", "low", "high"}]
  BY DEF SetSense, SetPins, IInv, TypeOK, GpioteTypeOK
<1>2. MovingInv'
  BY DEF MovingInv, Moving, MovingSlot, m_cb
<1>3. SlotInv'
  <2>1. ASSUME NEW q \in Pins, pin_assignments[q] \in Slots
        PROVE  HoldsPin(q, pin_assignments[q])'
    <3>1. HoldsPin(q, pin_assignments[q])
      BY <2>1 DEF IInv, SlotInv, pin_in_use_by_gpiote
    <3> QED  BY <3>1 DEF HoldsPin, m_cb
  <2>2. ASSUME NEW t \in Slots
        PROVE  (IsFree(t) \/ \E q \in Pins : HoldsPin(q, t))'
    <3>1. IsFree(t) \/ \E q \in Pins : HoldsPin(q, t)
      BY DEF IInv, SlotInv
    <3> QED  BY <3>1 DEF IsFree, HoldsPin, m_cb
  <2>3. \A q \in Pins : sense'[q] # "none" => pin_assignments[q] \in Slots
    BY <1>1 DEF IInv, SlotInv, pin_in_use_by_gpiote
  <2> QED  BY <2>1, <2>2, <2>3 DEF SlotInv, pin_in_use_by_gpiote, m_cb
<1>4. EdgesAreSeen' /\ RoundInv'
  <2>1. EdgesAreSeen /\ irq' = irq /\ SetPins(level, [sense EXCEPT ![p] = se])
    BY DEF IInv, SetSense
  <2> QED  BY <2>1, EdgeSetsEvent
<1> QED
  BY <1>2, <1>3, <1>4, MainStep

\* Reading the pin in in_event_enable, and the calls of main that store
\* nothing in the driver.
LEMMA ReadStep ==
    ASSUME IInv, irq.pc = "idle", ~Moving, ~Moving',
           UNCHANGED <<hardware, m_cb, irq, calling>>, GpioteTypeOK', ButtonTypeOK',
           main'.op = "enable" => main'.pin \in Pins /\ pin_assignments[main'.pin] \in Slots,
           main'.op # "free_handler"
    PROVE  IInv'
<1>1. MovingInv'
  BY DEF MovingInv, Moving, MovingSlot, m_cb
<1>2. SlotInv'
  <2>1. ASSUME NEW q \in Pins, pin_assignments[q] \in Slots
        PROVE  HoldsPin(q, pin_assignments[q])'
    <3>1. HoldsPin(q, pin_assignments[q])
      BY <2>1 DEF IInv, SlotInv, pin_in_use_by_gpiote
    <3> QED  BY <3>1 DEF HoldsPin, m_cb
  <2>2. ASSUME NEW t \in Slots
        PROVE  (IsFree(t) \/ \E q \in Pins : HoldsPin(q, t))'
    <3>1. IsFree(t) \/ \E q \in Pins : HoldsPin(q, t)
      BY DEF IInv, SlotInv
    <3> QED  BY <3>1 DEF IsFree, HoldsPin, m_cb
  <2>3. \A q \in Pins : sense'[q] # "none" => pin_assignments[q] \in Slots
    BY DEF IInv, SlotInv, pin_in_use_by_gpiote, hardware
  <2> QED  BY <2>1, <2>2, <2>3 DEF SlotInv, pin_in_use_by_gpiote, m_cb
<1>3. EdgesAreSeen' /\ RoundInv'
  BY NoEdge DEF IInv
<1> QED
  BY <1>1, <1>2, <1>3 DEF IInv, TypeOK, ButtonTypeOK, HandlersAreLive

\* in_event_enable of a pin that has its slot, for a button or another pin.
LEMMA EnableKeepsInv ==
    ASSUME IInv, main = MainIdle, NEW p \in Pins, nrf_drv_gpiote_in_event_enable(p),
           ButtonTypeOK'
    PROVE  IInv'
<1>1. /\ irq.pc = "idle" /\ UNCHANGED <<hardware, m_cb, irq, calling>>
      /\ main' = [op |-> "enable", pin |-> p, high |-> level[p]]
      /\ pin_assignments[p] \in Slots
  BY DEF nrf_drv_gpiote_in_event_enable, MainRuns, pin_in_use_by_gpiote
<1>2. ~Moving /\ ~Moving'
  BY <1>1 DEF Moving, MainIdle
<1>3. GpioteTypeOK'
  BY <1>1 DEF IInv, TypeOK, GpioteTypeOK, hardware, m_cb
<1> QED
  BY <1>1, <1>2, <1>3, ReadStep

\* The store that enables the event.
LEMMA EnableSenseKeepsInv ==
    ASSUME IInv, EnableSense, UNCHANGED <<button, history>>
    PROVE  IInv'
<1> DEFINE se == Opposite(main.high)
<1>1. /\ irq.pc = "idle" /\ main.pin \in Pins /\ pin_in_use_by_gpiote(main.pin) /\ ~Moving
      /\ UNCHANGED <<m_cb, irq, calling>> /\ SetSense(main.pin, se)
      /\ main' = [op |-> "none", pin |-> NONE, high |-> FALSE] /\ ~Moving'
  BY DEF IInv, MovingInv, Moving, MovingSlot, EnableSense, MainRuns, MainIdle,
         pin_in_use_by_gpiote
<1>2. se \in {"none", "low", "high"}
  BY DEF Opposite
<1> HIDE DEF se
<1>3. GpioteTypeOK'
  BY <1>1, <1>2 DEF IInv, TypeOK, GpioteTypeOK, SetSense, SetPins, m_cb
<1> QED
  BY <1>1, <1>2, <1>3, SenseStep

\* in_event_disable, alone or at the start of in_uninit.
LEMMA DisableKeepsInv ==
    ASSUME IInv, NEW p \in Pins, nrf_drv_gpiote_in_event_disable(p),
           UNCHANGED <<button, history>>, ~Moving,
           \/ UNCHANGED main /\ main.op \in {"none", "disable_buttons"}
           \/ main' = [op |-> "free_handler", pin |-> p, high |-> FALSE]
    PROVE  IInv'
<1>1. /\ irq.pc = "idle" /\ pin_in_use_by_gpiote(p) /\ ~Moving'
      /\ UNCHANGED <<m_cb, irq, calling>> /\ SetSense(p, "none")
  BY DEF nrf_drv_gpiote_in_event_disable, MainRuns, Moving
<1>2. /\ sense'[p] = "none" /\ sense' \in [Pins -> {"none", "low", "high"}]
      /\ level' = level /\ port_event' \in BOOLEAN
  BY <1>1 DEF IInv, TypeOK, GpioteTypeOK, SetSense, SetPins
<1>3. GpioteTypeOK'
  <2>1. main' \in [op : {"none", "init_handler", "init_port", "init_sense", "enable",
                         "free_handler", "free_port", "free_pin", "disable_buttons"},
                   pin : Pins \cup {NONE}, high : BOOLEAN]
    <3>1. CASE main' = main
      BY <3>1 DEF IInv, TypeOK, GpioteTypeOK
    <3>2. CASE main' = [op |-> "free_handler", pin |-> p, high |-> FALSE]
      BY <3>2
    <3> QED  BY <3>1, <3>2
  <2> QED  BY <1>1, <1>2, <2>1 DEF IInv, TypeOK, GpioteTypeOK, m_cb
<1> QED
  BY <1>1, <1>2, <1>3, SenseStep DEF pin_in_use_by_gpiote

\* Everything main does.
LEMMA MainKeepsInv ==
    ASSUME IInv, Main
    PROVE  IInv'
<1>1. ASSUME NEW b \in Buttons, app_button_enable(b) PROVE IInv'
  <2>1. ButtonTypeOK'
    BY <1>1, AppButtonAssumption DEF IInv, TypeOK, GpioteTypeOK, ButtonTypeOK,
                                     app_button_enable, button
  <2> QED
    BY <1>1, <2>1, EnableKeepsInv, AppButtonAssumption DEF app_button_enable, MainCalls
<1>2. ASSUME NEW b \in Buttons, DisableButton(b) PROVE IInv'
  BY <1>2, DisableKeepsInv, AppButtonAssumption DEF DisableButton, Moving
<1>3. CASE app_button_disable
  <2>1. /\ irq.pc = "idle" /\ ~Moving /\ ~Moving'
        /\ UNCHANGED <<hardware, m_cb, irq, calling>>
        /\ main' = [op |-> "disable_buttons", pin |-> NONE, high |-> FALSE]
    BY <1>3 DEF app_button_disable, MainCalls, MainRuns, MainIdle, Moving
  <2>2. GpioteTypeOK'
    BY <2>1 DEF IInv, TypeOK, GpioteTypeOK, hardware, m_cb
  <2>3. ButtonTypeOK'
    BY <1>3 DEF IInv, TypeOK, ButtonTypeOK, app_button_disable, button, history
  <2> QED  BY <2>1, <2>2, <2>3, ReadStep
<1>4. CASE DisableTimer
  <2>1. /\ irq.pc = "idle" /\ ~Moving /\ ~Moving'
        /\ UNCHANGED <<hardware, m_cb, irq, calling>>
        /\ main' = [op |-> "none", pin |-> NONE, high |-> FALSE]
    BY <1>4 DEF DisableTimer, MainMay, MainRuns, MainIdle, Moving
  <2>2. GpioteTypeOK'
    BY <2>1 DEF IInv, TypeOK, GpioteTypeOK, hardware, m_cb
  <2>3. ButtonTypeOK'
    BY <1>4 DEF IInv, TypeOK, ButtonTypeOK, DisableTimer
  <2> QED  BY <2>1, <2>2, <2>3, ReadStep
<1>5. ASSUME OtherPins, NEW p \in Pins, nrf_drv_gpiote_in_uninit(p) PROVE IInv'
  BY <1>5, DisableKeepsInv DEF OtherPins, nrf_drv_gpiote_in_uninit, MainCalls, MainIdle, Moving
<1>6. ASSUME OtherPins, NEW p \in Pins, MainCalls, nrf_drv_gpiote_in_event_enable(p)
      PROVE  IInv'
  <2>1. ButtonTypeOK'
    BY <1>6 DEF IInv, TypeOK, ButtonTypeOK, OtherPins, button, history
  <2> QED  BY <1>6, <2>1, EnableKeepsInv DEF MainCalls
<1>7. ASSUME OtherPins, NEW p \in Pins, MainCalls, nrf_drv_gpiote_in_event_disable(p),
             UNCHANGED main
      PROVE  IInv'
  BY <1>7, DisableKeepsInv DEF OtherPins, MainCalls, MainIdle, Moving
<1>8. CASE OtherPins
  BY <1>5, <1>6, <1>7, <1>8, StoresKeepInv, InitSenseKeepsInv, EnableSenseKeepsInv,
     FreeHandlerKeepsInv, FreePinKeepsInv, InitialisationKeepsInv DEF OtherPins
<1> QED
  BY <1>1, <1>2, <1>3, <1>4, <1>8 DEF Main

-----------------------------------------------------------------------------
(* The interrupt.                                                          *)

\* A step of the interrupt that changes no register and calls no handler.
LEMMA IrqQuietStep ==
    ASSUME IInv, UNCHANGED <<level, sense, m_cb, main, calling, button, history>>,
           port_event' \in BOOLEAN,
           irq' \in [pc : {"idle", "read", "check"}, slot : 1 .. NumSlots + 1,
                     input : SUBSET Pins, toggle_mask : SUBSET Pins,
                     pins_to_check : SUBSET Pins, repeat : BOOLEAN],
           RoundInv', EdgesAreSeen'
    PROVE  IInv'
<1>1. GpioteTypeOK'
  BY DEF IInv, TypeOK, GpioteTypeOK, m_cb
<1>2. ButtonTypeOK'
  BY DEF IInv, TypeOK, ButtonTypeOK, button, history
<1>3. MovingInv' /\ SlotInv'
  BY DEF IInv, MovingInv, SlotInv, Moving, MovingSlot, HoldsPin, IsFree, pin_in_use_by_gpiote,
         m_cb
<1> QED
  BY <1>1, <1>2, <1>3 DEF IInv, TypeOK, ButtonTypeOK, HandlersAreLive

\* The interrupt clears the event, then reads the pins.
LEMMA ReadKeepsInv ==
    ASSUME IInv, IrqEnters \/ IrqReads, UNCHANGED <<button, history>>
    PROVE  IInv'
<1>1. CASE IrqEnters
  <2>1. irq' = [pc |-> "read", slot |-> 1, input |-> {}, toggle_mask |-> {},
                pins_to_check |-> {}, repeat |-> FALSE]
    BY <1>1 DEF IrqEnters, IrqIdle
  <2>2. RoundInv' /\ EdgesAreSeen'
    BY <2>1 DEF RoundInv, EdgesAreSeen
  <2>3. irq' \in [pc : {"idle", "read", "check"}, slot : 1 .. NumSlots + 1,
                   input : SUBSET Pins, toggle_mask : SUBSET Pins,
                   pins_to_check : SUBSET Pins, repeat : BOOLEAN]
    BY <2>1, GpioteAssumption
  <2>4. /\ UNCHANGED <<level, sense, m_cb, main, calling>> /\ port_event' \in BOOLEAN
    BY <1>1 DEF IrqEnters
  <2> QED
    BY <2>2, <2>3, <2>4, IrqQuietStep
<1>2. CASE IrqReads
  <2>1. /\ irq' \in [pc : {"idle", "read", "check"}, slot : 1 .. NumSlots + 1,
                      input : SUBSET Pins, toggle_mask : SUBSET Pins,
                      pins_to_check : SUBSET Pins, repeat : BOOLEAN]
        /\ irq'.pc = "check" /\ irq'.slot = 1 /\ irq'.input = High
        /\ irq'.pins_to_check = Pins
        /\ UNCHANGED <<level, sense, port_event, m_cb, main, calling>>
    BY <1>2 DEF IrqReads, IInv, TypeOK, GpioteTypeOK, RoundInv, High, hardware
  <2>2. \A p \in Pins : sense[p] # "none" => pin_assignments[p] \in 1 .. NumSlots
    BY SensingHolds DEF IInv, Slots
  <2>3. \A p \in Pins : Matches(sense[p], level[p]) <=> Matches(sense[p], p \in High)
    BY DEF High, Matches
  <2>4. RoundInv'
    BY <2>1, <2>2, <2>3, GpioteAssumption DEF RoundInv, Detect, m_cb
  <2>5. EdgesAreSeen' /\ port_event' \in BOOLEAN
    BY <2>1 DEF EdgesAreSeen, IInv, TypeOK, GpioteTypeOK
  <2> QED
    BY <2>1, <2>4, <2>5, IrqQuietStep
<1> QED
  BY <1>1, <1>2

\* A slot that is passed over, or whose pin does not match: no pin that
\* senses is left behind.
LEMMA PassKeepsInv ==
    ASSUME IInv, CheckSkips \/ CheckNoMatch, UNCHANGED <<button, history>>
    PROVE  IInv'
<1> DEFINE s == irq.slot
<1>1. /\ irq.pc = "check" /\ s \in Slots /\ s \in Nat
      /\ UNCHANGED <<level, sense, port_event, m_cb, main, calling>>
  BY GpioteAssumption DEF CheckSkips, CheckNoMatch, AtSlot, hardware, Slots
<1>2. /\ irq.input \subseteq Pins /\ irq.toggle_mask \subseteq Pins
      /\ irq.pins_to_check \subseteq Pins /\ port_event \in BOOLEAN
  BY DEF IInv, TypeOK, GpioteTypeOK
<1>3. /\ irq' \in [pc : {"idle", "read", "check"}, slot : 1 .. NumSlots + 1,
                    input : SUBSET Pins, toggle_mask : SUBSET Pins,
                    pins_to_check : SUBSET Pins, repeat : BOOLEAN]
      /\ irq'.pc = "check" /\ irq'.slot = s + 1 /\ irq'.input = irq.input
      /\ irq'.pins_to_check = irq.pins_to_check /\ irq'.repeat = irq.repeat
      /\ \/ irq'.toggle_mask = irq.toggle_mask
         \/ IsChecked /\ ~Senses /\ irq'.toggle_mask = ToggleMask
  <2>1. IsChecked => ToggleMask \subseteq Pins
    BY <1>2 DEF IsChecked, ToggleMask
  <2>2. irq \in [pc : {"idle", "read", "check"}, slot : 1 .. NumSlots + 1,
                 input : SUBSET Pins, toggle_mask : SUBSET Pins,
                 pins_to_check : SUBSET Pins, repeat : BOOLEAN]
    BY DEF IInv, TypeOK, GpioteTypeOK
  <2>3. s + 1 \in 1 .. NumSlots + 1
    BY <1>1, GpioteAssumption DEF Slots
  <2>4. CASE CheckSkips
    <3>1. irq' = [irq EXCEPT !.slot = s + 1]
      BY <2>4 DEF CheckSkips
    <3>2. irq'.pc = irq.pc /\ irq'.slot = s + 1 /\ irq'.toggle_mask = irq.toggle_mask
      BY <2>2, <3>1
    <3>3. /\ irq'.input = irq.input /\ irq'.pins_to_check = irq.pins_to_check
          /\ irq'.repeat = irq.repeat
      BY <2>2, <3>1
    <3>4. irq' \in [pc : {"idle", "read", "check"}, slot : 1 .. NumSlots + 1,
                    input : SUBSET Pins, toggle_mask : SUBSET Pins,
                    pins_to_check : SUBSET Pins, repeat : BOOLEAN]
      BY <2>2, <2>3, <3>1
    <3> QED  BY <1>1, <3>2, <3>3, <3>4
  <2>5. CASE CheckNoMatch
    <3>1. irq' = [irq EXCEPT !.slot = s + 1, !.toggle_mask = ToggleMask]
      BY <2>5 DEF CheckNoMatch
    <3>2. IsChecked /\ ~Senses
      BY <2>5 DEF CheckNoMatch
    <3>3. irq'.pc = irq.pc /\ irq'.slot = s + 1 /\ irq'.toggle_mask = ToggleMask
      BY <2>2, <3>1
    <3>4. /\ irq'.input = irq.input /\ irq'.pins_to_check = irq.pins_to_check
          /\ irq'.repeat = irq.repeat
      BY <2>2, <3>1
    <3>5. irq' \in [pc : {"idle", "read", "check"}, slot : 1 .. NumSlots + 1,
                    input : SUBSET Pins, toggle_mask : SUBSET Pins,
                    pins_to_check : SUBSET Pins, repeat : BOOLEAN]
      BY <2>1, <2>2, <2>3, <3>1, <3>2
    <3> QED  BY <1>1, <3>2, <3>3, <3>4, <3>5
  <2> QED  BY <2>4, <2>5
<1>4. irq.toggle_mask \subseteq irq'.toggle_mask
  BY <1>3 DEF ToggleMask
<1>5. ASSUME NEW p \in Pins, sense[p] # "none", pin_assignments[p] < s + 1
      PROVE  p \in irq'.toggle_mask /\ ~Matches(sense[p], p \in irq.input)
  <2>1. pin_assignments[p] \in Slots /\ HoldsPin(p, pin_assignments[p])
    BY <1>5, SensingHolds DEF IInv
  <2>2. CASE pin_assignments[p] < s
    BY <1>1, <1>4, <1>5, <2>2 DEF IInv, RoundInv
  <2>3. CASE pin_assignments[p] = s
    <3>1. Checked = [pin |-> p, polarity |-> "toggle"]
      BY <2>1, <2>3 DEF HoldsPin, Checked
    <3>2. p # NONE /\ p \in irq.pins_to_check
      BY <1>1, <1>5, GpioteAssumption DEF IInv, RoundInv
    <3>3. IsChecked
      BY <3>1, <3>2 DEF IsChecked, NotUsed
    <3>4. CheckNoMatch
      BY <3>3 DEF CheckSkips
    <3>5. ~Senses /\ irq'.toggle_mask = ToggleMask
      BY <3>4, <1>2 DEF CheckNoMatch, IInv, TypeOK, GpioteTypeOK
    <3> QED  BY <3>1, <3>5 DEF Senses, ToggleMask, IsToggle
  <2>4. pin_assignments[p] < s \/ pin_assignments[p] = s
    BY <1>1, <1>5, <2>1, GpioteAssumption DEF Slots
  <2> QED  BY <2>2, <2>3, <2>4
<1>6. RoundInv'
  BY <1>1, <1>3, <1>5 DEF IInv, RoundInv, Detect, m_cb
<1>7. EdgesAreSeen' /\ port_event' \in BOOLEAN
  BY <1>1, <1>2, <1>3 DEF EdgesAreSeen
<1> QED
  BY <1>1, <1>3, <1>6, <1>7, IrqQuietStep

\* A pin that matches is turned around, and its own handler is called.
LEMMA MatchKeepsInv ==
    ASSUME IInv, CheckMatch, UNCHANGED <<button, history>>
    PROVE  IInv'
<1> DEFINE s == irq.slot
           q == Checked.pin
           se == Opposite(q \in irq.input)
<1>1. /\ irq.pc = "check" /\ s \in Slots /\ s \in Nat
      /\ q \in irq.pins_to_check /\ Matches(sense[q], q \in irq.input)
      /\ UNCHANGED <<m_cb, main, button, history>>
  BY GpioteAssumption DEF CheckMatch, AtSlot, Slots, IsChecked, Senses
<1>2. irq \in [pc : {"idle", "read", "check"}, slot : 1 .. NumSlots + 1,
               input : SUBSET Pins, toggle_mask : SUBSET Pins,
               pins_to_check : SUBSET Pins, repeat : BOOLEAN]
  BY DEF IInv, TypeOK, GpioteTypeOK
<1>3. q \in Pins /\ sense[q] # "none"
  BY <1>1, <1>2 DEF Matches
<1>4. HoldsPin(q, s)
  <2>1. MovingInv /\ SlotInv /\ port_handlers_pins[s].pin = q
    BY DEF IInv, Checked
  <2> QED  BY <1>1, <1>3, <2>1, SensingSlot
<1>5. IsToggle /\ q \in ToggleMask /\ ToggleMask = irq.toggle_mask \cup {q}
  BY <1>4 DEF HoldsPin, IsToggle, ToggleMask, Checked
<1>6. /\ irq' = [irq EXCEPT !.slot = s + 1, !.toggle_mask = ToggleMask, !.repeat = TRUE]
      /\ SetSense(q, se)
      /\ calling' = [pin |-> q, handler |-> q]
  <2>1. handlers[pin_assignments[q]] = q
    BY <1>4 DEF HoldsPin
  <2> QED  BY <1>5, <2>1 DEF CheckMatch, Call
<1>7. /\ irq'.pc = "check" /\ irq'.slot = s + 1 /\ irq'.toggle_mask = ToggleMask
      /\ irq'.repeat = TRUE /\ irq'.input = irq.input
      /\ irq'.pins_to_check = irq.pins_to_check
      /\ irq' \in [pc : {"idle", "read", "check"}, slot : 1 .. NumSlots + 1,
                    input : SUBSET Pins, toggle_mask : SUBSET Pins,
                    pins_to_check : SUBSET Pins, repeat : BOOLEAN]
  <2>1. s + 1 \in 1 .. NumSlots + 1
    BY <1>1, GpioteAssumption DEF Slots
  <2>2. ToggleMask \subseteq Pins
    BY <1>2, <1>3, <1>5
  <2> QED  BY <1>1, <1>2, <1>6, <2>1, <2>2
<1> HIDE DEF q, s
<1>8. /\ sense' = [sense EXCEPT ![q] = se] /\ level' = level /\ port_event' \in BOOLEAN
      /\ sense \in [Pins -> {"none", "low", "high"}]
  BY <1>6 DEF SetSense, SetPins, IInv, TypeOK, GpioteTypeOK
<1>9. se \in {"low", "high"} /\ ~Matches(se, q \in irq.input)
  BY DEF Opposite, Matches
<1> HIDE DEF se
<1>10. /\ sense'[q] = se
       /\ \A p \in Pins : p # q => sense'[p] = sense[p]
       /\ sense' \in [Pins -> {"none", "low", "high"}]
  BY <1>3, <1>8, <1>9
<1>11. GpioteTypeOK'
  BY <1>1, <1>3, <1>6, <1>7, <1>8, <1>10 DEF IInv, TypeOK, GpioteTypeOK, m_cb
<1>12. ButtonTypeOK'
  BY <1>1 DEF IInv, TypeOK, ButtonTypeOK, button, history
<1>13. MovingInv'
  BY <1>1, <1>3, <1>10 DEF IInv, MovingInv, Moving, MovingSlot, m_cb
<1>14. SlotInv'
  <2>1. pin_assignments[q] \in Slots
    BY <1>3, SensingHolds DEF IInv
  <2>2. \A p \in Pins : sense'[p] # "none" => pin_assignments[p] \in Slots
    BY <1>10, <2>1 DEF IInv, SlotInv, pin_in_use_by_gpiote
  <2> QED
    BY <1>1, <2>2 DEF IInv, SlotInv, Moving, MovingSlot, HoldsPin, IsFree,
                      pin_in_use_by_gpiote, m_cb
<1>15. RoundInv'
  <2>1. ASSUME NEW p \in Pins, sense'[p] # "none" PROVE p \in irq.pins_to_check
    BY <1>1, <1>10, <2>1 DEF IInv, RoundInv
  <2>2. ASSUME NEW p \in Pins, sense'[p] # "none", pin_assignments[p] < s + 1
        PROVE  p \in ToggleMask /\ ~Matches(sense'[p], p \in irq.input)
    <3>1. CASE p = q
      BY <1>5, <1>9, <1>10, <3>1
    <3>2. CASE p # q
      <4>1. sense'[p] = sense[p] /\ sense[p] # "none"
        BY <1>10, <2>2, <3>2
      <4>2. pin_assignments[p] \in Slots /\ HoldsPin(p, pin_assignments[p])
        BY <4>1, SensingHolds DEF IInv
      <4>3. pin_assignments[p] # s
        BY <1>4, <3>2, <4>2 DEF HoldsPin
      <4>4. pin_assignments[p] < s
        BY <1>1, <2>2, <4>2, <4>3, GpioteAssumption DEF Slots
      <4>5. p \in irq.toggle_mask /\ ~Matches(sense[p], p \in irq.input)
        BY <1>1, <4>1, <4>4 DEF IInv, RoundInv, s
      <4> QED  BY <1>5, <4>1, <4>5
    <3> QED  BY <3>1, <3>2
  <2> QED  BY <1>1, <1>7, <2>1, <2>2 DEF RoundInv, m_cb
<1>16. EdgesAreSeen' /\ HandlersAreLive'
  BY <1>6, <1>7 DEF EdgesAreSeen, HandlersAreLive
<1> QED
  BY <1>11, <1>12, <1>13, <1>14, <1>15, <1>16 DEF IInv, TypeOK, ButtonTypeOK

\* At the end of a round no pin that senses matches what was read.  The
\* interrupt is left when that is how the pins are, or when it has not
\* changed a register and DETECT has not risen since.
LEMMA RoundEndKeepsInv ==
    ASSUME IInv, IrqRepeats \/ IrqLeaves, UNCHANGED <<button, history>>
    PROVE  IInv'
<1>1. /\ irq.pc = "check" /\ irq.slot \notin Slots
      /\ UNCHANGED <<level, sense, port_event, m_cb, main, calling>>
  BY DEF IrqRepeats, IrqLeaves, RoundEnds, hardware
<1>2. irq \in [pc : {"idle", "read", "check"}, slot : 1 .. NumSlots + 1,
               input : SUBSET Pins, toggle_mask : SUBSET Pins,
               pins_to_check : SUBSET Pins, repeat : BOOLEAN]
  BY DEF IInv, TypeOK, GpioteTypeOK
<1>3. irq.slot = NumSlots + 1
  BY <1>1, <1>2, GpioteAssumption DEF Slots
<1>4. ASSUME NEW p \in Pins, sense[p] # "none"
      PROVE  /\ pin_assignments[p] \in 1 .. NumSlots
             /\ p \in irq.toggle_mask /\ ~Matches(sense[p], p \in irq.input)
  <2>1. pin_assignments[p] \in 1 .. NumSlots
    BY <1>4, SensingHolds DEF IInv, Slots
  <2>2. pin_assignments[p] < irq.slot
    BY <1>3, <2>1, GpioteAssumption
  <2> QED  BY <1>1, <1>4, <2>1, <2>2 DEF IInv, RoundInv
<1>5. \A p \in Pins : Matches(sense[p], level[p]) <=> Matches(sense[p], p \in High)
  BY DEF High, Matches
<1>6. \A p \in Pins : ~Matches(sense[p], p \in irq.input)
  BY <1>4 DEF Matches
<1>7. port_event' \in BOOLEAN
  BY <1>1 DEF IInv, TypeOK, GpioteTypeOK
<1>8. CASE IrqRepeats
  <2>1. /\ irq' \in [pc : {"idle", "read", "check"}, slot : 1 .. NumSlots + 1,
                      input : SUBSET Pins, toggle_mask : SUBSET Pins,
                      pins_to_check : SUBSET Pins, repeat : BOOLEAN]
        /\ irq'.pc = "check" /\ irq'.slot = 1 /\ irq'.input = High
        /\ irq'.pins_to_check = irq.toggle_mask
    <3>1. irq' = [irq EXCEPT !.slot = 1, !.repeat = FALSE, !.input = High,
                             !.pins_to_check = irq.toggle_mask]
      BY <1>8 DEF IrqRepeats
    <3>2. High \subseteq Pins /\ 1 \in 1 .. NumSlots + 1
      BY GpioteAssumption DEF High
    <3> QED  BY <1>1, <1>2, <3>1, <3>2
  <2>2. \A p \in Pins : sense[p] # "none" => ~(pin_assignments[p] < 1)
    BY <1>4, GpioteAssumption
  <2>3. RoundInv'
    BY <1>1, <1>4, <1>5, <2>1, <2>2 DEF RoundInv, Detect, m_cb
  <2>4. EdgesAreSeen'
    BY <2>1 DEF EdgesAreSeen
  <2> QED
    BY <1>1, <1>7, <2>1, <2>3, <2>4, IrqQuietStep
<1>9. CASE IrqLeaves
  <2>1. irq' = [pc |-> "idle", slot |-> 1, input |-> {}, toggle_mask |-> {},
                pins_to_check |-> {}, repeat |-> FALSE]
    BY <1>9 DEF IrqLeaves, IrqIdle
  <2>2. irq' \in [pc : {"idle", "read", "check"}, slot : 1 .. NumSlots + 1,
                  input : SUBSET Pins, toggle_mask : SUBSET Pins,
                  pins_to_check : SUBSET Pins, repeat : BOOLEAN]
    BY <2>1, GpioteAssumption
  <2>3. irq.repeat => High = irq.input
    BY <1>9 DEF IrqLeaves
  <2>4. ~port_event => ~Detect(level, sense)
    <3>1. CASE irq.repeat
      BY <1>5, <1>6, <2>3, <3>1 DEF Detect
    <3>2. CASE ~irq.repeat
      BY <1>1, <1>6, <3>2 DEF IInv, RoundInv
    <3> QED  BY <3>1, <3>2
  <2>5. RoundInv' /\ EdgesAreSeen'
    BY <1>1, <2>1, <2>4 DEF RoundInv, EdgesAreSeen, Detect
  <2> QED
    BY <1>1, <1>7, <2>2, <2>5, IrqQuietStep
<1> QED
  BY <1>8, <1>9

-----------------------------------------------------------------------------
(* The buttons, and the theorems.                                          *)

\* The handlers change no variable of the driver but the call.
LEMMA HandlersKeepInv ==
    ASSUME IInv, gpiote_event_handler \/ OtherHandler
    PROVE  IInv'
<1>1. UNCHANGED <<hardware, m_cb, main, irq>> /\ calling' = NoCall
  BY DEF gpiote_event_handler, OtherHandler
<1>2. CASE OtherHandler
  <2>1. ButtonTypeOK'
    BY <1>2 DEF IInv, TypeOK, ButtonTypeOK, OtherHandler, button, history
  <2> QED  BY <1>1, <2>1, CallReturns
<1>3. CASE gpiote_event_handler
  <2>1. calling # NoCall
    BY <1>3, GpioteAssumption, AppButtonAssumption DEF gpiote_event_handler, NoCall
  <2>2. calling.pin \in Buttons
    BY <1>3, <2>1 DEF gpiote_event_handler, IInv, HandlersAreLive
  <2>3. UNCHANGED <<rtc, known>>
    BY <1>3 DEF gpiote_event_handler
  <2>4. /\ m_pin_state \subseteq Buttons /\ m_pin_transition \subseteq Buttons
        /\ rtc \in BOOLEAN /\ known \in [Buttons -> BOOLEAN]
        /\ disturbed \subseteq Buttons /\ stopped \subseteq Buttons
    BY DEF IInv, TypeOK
  <2>5. ASSUME StopRefused(calling.pin) PROVE ButtonTypeOK'
    BY <2>2, <2>3, <2>4, <2>5 DEF StopRefused, ButtonTypeOK
  <2>6. ASSUME FirstEdge(calling.pin) PROVE ButtonTypeOK'
    <3>1. delay' \in BOOLEAN /\ disturbed' \subseteq Buttons /\ stopped' \subseteq Buttons
      BY <2>2, <2>4, <2>6 DEF FirstEdge
    <3> QED  BY <2>2, <2>3, <2>4, <2>6, <3>1 DEF FirstEdge, ButtonTypeOK
  <2>7. ASSUME SecondEdge(calling.pin) PROVE ButtonTypeOK'
    BY <2>2, <2>3, <2>4, <2>7 DEF SecondEdge, ButtonTypeOK
  <2>8. ButtonTypeOK' => IInv'
    BY <1>1, CallReturns
  <2>9. ButtonTypeOK'
    BY <1>3, <2>5, <2>6, <2>7 DEF gpiote_event_handler
  <2> QED  BY <2>8, <2>9
<1> QED
  BY <1>2, <1>3

\* RTC1 does not touch the driver.
LEMMA TimerKeepsInv ==
    ASSUME IInv, RtcEnters \/ detection_delay_timeout_handler
    PROVE  IInv'
<1>1. UNCHANGED gpioteVars
  BY DEF RtcEnters, detection_delay_timeout_handler
<1>2. level \in [Pins -> BOOLEAN] /\ ButtonTypeOK
  BY DEF IInv, TypeOK, GpioteTypeOK, ButtonTypeOK
<1>3. ASSUME RtcEnters PROVE ButtonTypeOK'
  BY <1>2, <1>3 DEF RtcEnters, ButtonTypeOK, history
<1>4. ASSUME detection_delay_timeout_handler PROVE ButtonTypeOK'
  <2>1. known' \in [Buttons -> BOOLEAN]
    <3>1. \A b \in Buttons : level[b] \in BOOLEAN /\ known[b] \in BOOLEAN
      BY <1>2, AppButtonAssumption DEF ButtonTypeOK
    <3>2. known' = [b \in Buttons |-> IF b \in Reported THEN level[b] ELSE known[b]]
      BY <1>4 DEF detection_delay_timeout_handler
    <3>3. \A b \in Buttons : (IF b \in Reported THEN level[b] ELSE known[b]) \in BOOLEAN
      BY <3>1
    <3> QED  BY <3>2, <3>3
  <2>2. disturbed' \subseteq Buttons
    BY <1>2, <1>4 DEF detection_delay_timeout_handler, ButtonTypeOK
  <2>3. /\ rtc' = FALSE /\ m_pin_transition' = {} /\ stopped' = {}
        /\ UNCHANGED <<m_pin_state, delay>>
    BY <1>4 DEF detection_delay_timeout_handler
  <2> QED
    BY <1>2, <2>1, <2>2, <2>3 DEF ButtonTypeOK
<1>5. ButtonTypeOK' => IInv'
  BY <1>1, SameDriver
<1> QED
  BY <1>3, <1>4, <1>5

\* The invariant holds throughout.
LEMMA IInvAlways == Spec => []IInv
<1>1. IInv /\ [Next]_vars => IInv'
  <2> SUFFICES ASSUME IInv, [Next]_vars PROVE IInv'
    OBVIOUS
  <2>1. ASSUME NEW p \in Pins, Flip(p), UNCHANGED <<button, history>> PROVE IInv'
    BY <2>1, FlipKeepsInv
  <2>2. CASE Main
    BY <2>2, MainKeepsInv
  <2>3. CASE GPIOTE_IRQHandler
    <3>1. CASE (IrqEnters \/ IrqReads) /\ UNCHANGED <<button, history>>
      BY <3>1, ReadKeepsInv
    <3>2. CASE (CheckSkips \/ CheckNoMatch) /\ UNCHANGED <<button, history>>
      BY <3>2, PassKeepsInv
    <3>3. CASE CheckMatch /\ UNCHANGED <<button, history>>
      BY <3>3, MatchKeepsInv
    <3>4. CASE (IrqRepeats \/ IrqLeaves) /\ UNCHANGED <<button, history>>
      BY <3>4, RoundEndKeepsInv
    <3>5. CASE gpiote_event_handler \/ OtherHandler
      BY <3>5, HandlersKeepInv
    <3> QED
      BY <2>3, <3>1, <3>2, <3>3, <3>4, <3>5 DEF GPIOTE_IRQHandler, IrqStep
  <2>4. CASE RtcEnters \/ detection_delay_timeout_handler
    BY <2>4, TimerKeepsInv
  <2>5. CASE UNCHANGED vars
    <3>1. ButtonTypeOK' /\ UNCHANGED gpioteVars
      BY <2>5 DEF vars, button, history, IInv, TypeOK, ButtonTypeOK
    <3> QED  BY <3>1, SameDriver
  <2> QED
    BY <2>1, <2>2, <2>3, <2>4, <2>5 DEF Next
<1> QED
  BY <1>1, InitKeepsInv, PTL DEF Spec

(* The variables of the driver and of the buttons keep their types.        *)
THEOREM ButtonsTypeOK == Spec => []TypeOK
<1>1. IInv => TypeOK
  BY DEF IInv
<1> QED
  BY <1>1, IInvAlways, PTL

(* No edge is lost: with no event pending and the interrupt left, no pin   *)
(* is at the level it senses (the rounds of nrf_drv_gpiote.c:802).         *)
THEOREM ButtonsEdgesAreSeen == Spec => []EdgesAreSeen
<1>1. IInv => EdgesAreSeen
  BY DEF IInv
<1> QED
  BY <1>1, IInvAlways, PTL

(* The interrupt calls the handler that was given for the pin, wherever    *)
(* main is in an initialisation (nrf_drv_gpiote.c:176-200).                *)
THEOREM ButtonsHandlersAreLive == Spec => []HandlersAreLive
<1>1. IInv => HandlersAreLive
  BY DEF IInv
<1> QED
  BY <1>1, IInvAlways, PTL

(* Between two calls of main, slots and pins name each other and every     *)
(* slot is free or wholly taken.                                           *)
THEOREM ButtonsSlotsMatchPins == Spec => []SlotsMatchPins
<1>1. IInv => SlotsMatchPins
  <2> SUFFICES ASSUME IInv, main.op \in {"none", "disable_buttons"}
               PROVE  SlotsMatchPins
    BY DEF SlotsMatchPins
  <2>1. ~Moving /\ NONE \notin Pins
    BY GpioteAssumption DEF Moving
  <2>2. ASSUME NEW s \in Slots
        PROVE  IF handlers[s] = NONE
               THEN port_handlers_pins[s] = NotUsed
                    /\ \A p \in Pins : pin_assignments[p] # s
               ELSE port_handlers_pins[s] = [pin |-> handlers[s], polarity |-> "toggle"]
                    /\ pin_assignments[handlers[s]] = s
    <3>1. IsFree(s) \/ \E p \in Pins : HoldsPin(p, s)
      BY <2>1 DEF IInv, SlotInv
    <3> QED  BY <2>1, <3>1 DEF IsFree, HoldsPin
  <2>3. \A p \in Pins : pin_in_use_by_gpiote(p) => handlers[pin_assignments[p]] = p
    BY <2>1 DEF IInv, SlotInv, HoldsPin
  <2> QED  BY <2>2, <2>3 DEF SlotsMatchPins
<1> QED
  BY <1>1, IInvAlways, PTL

-----------------------------------------------------------------------------
(* What the buttons report: edges, the detection delay and the reports do  *)
(* not get out of step, for any number of buttons; and with one button, it *)
(* never waits without the timer.                                          *)

(* The sense that waits for the next edge of a button: the opposite of the *)
(* level of its last edge, or, when that was undone or reported, of the    *)
(* level its user knows of.                                                *)
Expected(b) == IF b \in m_pin_transition THEN Opposite(b \in m_pin_state)
                                         ELSE Opposite(known[b])

Turned(se) == IF se = "low" THEN "high" ELSE "low"

(* A button whose edges were counted right senses what is expected, or is  *)
(* an edge ahead while its handler is called; it waits only for a level    *)
(* its user does not know of.                                              *)
InStep(b) ==
    /\ Enabled(b) => sense[b] = IF calling.pin = b THEN Turned(Expected(b)) ELSE Expected(b)
    /\ b \in m_pin_transition =>
          /\ Opposite(b \in m_pin_state) = Turned(Opposite(known[b]))
          /\ Enabled(b) \/ main.op = "disable_buttons"
    /\ main.op = "enable" /\ main.pin = b =>
          b \notin m_pin_transition /\ Opposite(known[b]) = Opposite(main.high)

(* Handlers are called within the interrupt, timeouts outside it; a button *)
(* that is being enabled senses nothing yet.                               *)
ParityInv ==
    /\ rtc => irq.pc = "idle"
    /\ calling # NoCall => irq.pc = "check"
    /\ \A b \in Buttons : main.op = "enable" /\ main.pin = b => ~Enabled(b)
    /\ \A b \in Buttons \ disturbed : InStep(b)

-----------------------------------------------------------------------------
\* A step that neither counts an edge nor changes what a button senses.
LEMMA SameButtons ==
    ASSUME ParityInv, UNCHANGED <<m_pin_state, m_pin_transition, history, calling>>,
           \A b \in Buttons : sense'[b] = sense[b],
           rtc' => irq'.pc = "idle", calling # NoCall => irq'.pc = "check",
           main.op = "disable_buttons" => main'.op = "disable_buttons",
           main'.op = "enable" /\ main'.pin \in Buttons => main' = main
    PROVE  ParityInv'
<1>1. ASSUME NEW b \in Buttons, b \notin disturbed PROVE InStep(b)'
  <2>1. InStep(b)
    BY <1>1 DEF ParityInv
  <2>2. Expected(b)' = Expected(b) /\ sense'[b] = sense[b]
    BY DEF Expected, history
  <2> QED
    BY <2>1, <2>2 DEF InStep, Enabled, history
<1> QED
  BY <1>1 DEF ParityInv, Enabled, history

\* Nothing is known to be out of step at start.
LEMMA InitParity == Init => ParityInv
  BY AppButtonAssumption DEF Init, ParityInv, InStep, Enabled, NoCall, MainIdle, IrqIdle

\* A button is enabled: the level is taken for known, then it is sensed.
LEMMA EnableKeepsParity ==
    ASSUME IInv, ParityInv, NEW b \in Buttons, app_button_enable(b)
    PROVE  ParityInv'
<1>1. /\ ~Enabled(b) /\ main.op = "none" /\ calling' = calling
      /\ main' = [op |-> "enable", pin |-> b, high |-> level[b]]
      /\ known' = [known EXCEPT ![b] = level[b]]
      /\ UNCHANGED <<sense, irq, m_pin_state, m_pin_transition, rtc, disturbed>>
  BY DEF app_button_enable, nrf_drv_gpiote_in_event_enable, MainCalls, MainIdle, hardware, button
<1>2. known \in [Buttons -> BOOLEAN]
  BY DEF IInv, TypeOK
<1>3. ASSUME NEW c \in Buttons, c \notin disturbed PROVE InStep(c)'
  <2>1. InStep(c)
    BY <1>3 DEF ParityInv
  <2>2. CASE c = b
    BY <1>1, <1>2, <2>1, <2>2 DEF InStep, Enabled
  <2>3. CASE c # b
    <3>1. known'[c] = known[c]
      BY <1>1, <1>2, <2>3
    <3>2. Expected(c)' = Expected(c)
      BY <1>1, <3>1 DEF Expected
    <3> QED  BY <1>1, <2>1, <2>3, <3>1, <3>2 DEF InStep, Enabled
  <2> QED  BY <2>2, <2>3
<1> QED
  BY <1>1, <1>3 DEF ParityInv, Enabled

\* What a pin senses is set: the button it is enabled for is in step.
LEMMA EnableSenseKeepsParity ==
    ASSUME IInv, ParityInv, EnableSense, UNCHANGED <<button, history>>
    PROVE  ParityInv'
<1> DEFINE p == main.pin
<1>1. /\ irq.pc = "idle" /\ main.op = "enable" /\ main'.op = "none"
      /\ UNCHANGED <<irq, calling, m_pin_state, m_pin_transition, rtc, known, disturbed>>
      /\ sense' = [sense EXCEPT ![p] = Opposite(main.high)]
  BY DEF EnableSense, MainRuns, MainIdle, SetSense, SetPins, button, history
<1>2. calling = NoCall /\ p \in Pins
  BY <1>1 DEF ParityInv, IInv, MovingInv
<1>3. ASSUME NEW c \in Buttons, c \notin disturbed PROVE InStep(c)'
  <2>1. InStep(c) /\ Expected(c)' = Expected(c) /\ c # NONE
    BY <1>1, <1>3, AppButtonAssumption, GpioteAssumption DEF ParityInv, Expected
  <2>2. sense'[c] = IF c = p THEN Opposite(main.high) ELSE sense[c]
    BY <1>1, <1>2, AppButtonAssumption DEF IInv, TypeOK, GpioteTypeOK
  <2>3. CASE c = p
    BY <1>1, <1>2, <2>1, <2>2, <2>3 DEF InStep, Enabled, Expected, NoCall
  <2>4. CASE c # p
    BY <1>1, <1>2, <2>1, <2>2, <2>4 DEF InStep, Enabled
  <2> QED  BY <2>3, <2>4
<1> QED
  BY <1>1, <1>2, <1>3 DEF ParityInv, Enabled

\* Buttons are disabled one by one, then the timer is stopped.
LEMMA DisableKeepsParity ==
    ASSUME IInv, ParityInv, (\E b \in Buttons : DisableButton(b)) \/ DisableTimer
    PROVE  ParityInv'
<1>1. ASSUME NEW b \in Buttons, DisableButton(b) PROVE ParityInv'
  <2>1. /\ main.op = "disable_buttons"
        /\ sense' = [sense EXCEPT ![b] = "none"]
        /\ UNCHANGED <<main, irq, calling, m_pin_state, m_pin_transition, rtc, known, disturbed>>
    BY <1>1 DEF DisableButton, nrf_drv_gpiote_in_event_disable, SetSense, SetPins, button, history
  <2>2. ASSUME NEW c \in Buttons, c \notin disturbed PROVE InStep(c)'
    <3>1. InStep(c) /\ Expected(c)' = Expected(c)
      BY <2>1, <2>2 DEF ParityInv, Expected
    <3>2. sense'[c] = IF c = b THEN "none" ELSE sense[c]
      BY <2>1, AppButtonAssumption DEF IInv, TypeOK, GpioteTypeOK
    <3> QED  BY <2>1, <3>1, <3>2 DEF InStep, Enabled
  <2> QED  BY <2>1, <2>2 DEF ParityInv
<1>2. CASE DisableTimer
  <2>1. /\ main'.op = "none" /\ disturbed' = disturbed \cup m_pin_transition
        /\ UNCHANGED <<sense, irq, calling, m_pin_state, m_pin_transition, rtc, known>>
    BY <1>2 DEF DisableTimer, MainIdle, hardware
  <2>2. ASSUME NEW c \in Buttons, c \notin disturbed' PROVE InStep(c)'
    <3>1. InStep(c) /\ Expected(c)' = Expected(c) /\ c \notin m_pin_transition
      BY <2>1, <2>2 DEF ParityInv, Expected
    <3> QED  BY <2>1, <3>1 DEF InStep, Enabled
  <2> QED  BY <2>1, <2>2 DEF ParityInv
<1> QED
  BY <1>1, <1>2

\* What main does with pins that are no buttons.
LEMMA OtherPinsKeepParity ==
    ASSUME IInv, ParityInv, OtherPins
    PROVE  ParityInv'
<1>1. UNCHANGED <<m_pin_state, m_pin_transition, rtc, history, button>>
  BY DEF OtherPins, button
<1>2. ASSUME UNCHANGED <<irq, calling>>, irq.pc = "idle", main.op # "disable_buttons",
             main'.op # "enable" \/ main'.pin \notin Buttons,
             \A b \in Buttons : sense'[b] = sense[b]
      PROVE  ParityInv'
  <2>1. /\ rtc' => irq'.pc = "idle"
        /\ calling # NoCall => irq'.pc = "check"
    BY <1>2 DEF ParityInv
  <2> QED  BY <1>1, <1>2, <2>1, SameButtons
<1>3. CASE InitHandler \/ InitPort \/ FreeHandler \/ FreePort \/ FreePin
  <2>1. /\ UNCHANGED <<sense, irq, calling>> /\ irq.pc = "idle"
        /\ main.op # "disable_buttons" /\ main'.op # "enable"
    BY <1>3 DEF InitHandler, InitPort, FreeHandler, FreePort, FreePin, MainRuns, MainIdle, hardware,
                IInv, TypeOK, GpioteTypeOK
  <2> QED  BY <1>2, <2>1
<1>4. CASE InitSense
  <2>1. /\ UNCHANGED <<irq, calling>> /\ irq.pc = "idle"
        /\ main.op # "disable_buttons" /\ main'.op # "enable"
        /\ sense' = [sense EXCEPT ![main.pin] = "none"]
    BY <1>4 DEF InitSense, MainRuns, MainIdle, SetSense, SetPins
  <2>2. sense[main.pin] = "none"
    BY <1>4 DEF IInv, MovingInv, Moving, InitSense
  <2>3. sense' = sense
    BY <2>1, <2>2 DEF IInv, TypeOK, GpioteTypeOK
  <2> QED  BY <1>2, <2>1, <2>3
<1>5. CASE EnableSense
  BY <1>1, <1>5, EnableSenseKeepsParity
<1>6. ASSUME NEW p \in Pins \ Buttons, nrf_drv_gpiote_in_init(p) PROVE ParityInv'
  <2>1. /\ UNCHANGED <<sense, irq, calling>> /\ irq.pc = "idle"
        /\ main.op # "disable_buttons" /\ main'.op # "enable"
    BY <1>6 DEF nrf_drv_gpiote_in_init, MainCalls, MainRuns, MainIdle, hardware
  <2> QED  BY <1>2, <2>1
<1>7. ASSUME NEW p \in Pins \ Buttons, MainCalls, nrf_drv_gpiote_in_event_enable(p)
      PROVE  ParityInv'
  <2>1. /\ UNCHANGED <<sense, irq, calling>> /\ irq.pc = "idle"
        /\ main.op # "disable_buttons" /\ main'.pin = p
    BY <1>7 DEF nrf_drv_gpiote_in_event_enable, MainCalls, MainRuns, MainIdle, hardware
  <2> QED  BY <1>2, <2>1
<1>8. ASSUME NEW p \in Pins \ Buttons, MainCalls, nrf_drv_gpiote_in_event_disable(p),
             main'.op # "enable"
      PROVE  ParityInv'
  <2>1. /\ UNCHANGED <<irq, calling>> /\ irq.pc = "idle" /\ main.op # "disable_buttons"
        /\ sense' = [sense EXCEPT ![p] = "none"]
    BY <1>8 DEF nrf_drv_gpiote_in_event_disable, MainCalls, MainRuns, MainIdle, SetSense, SetPins
  <2>2. \A b \in Buttons : sense'[b] = sense[b]
    BY <2>1, AppButtonAssumption DEF IInv, TypeOK, GpioteTypeOK
  <2> QED  BY <1>2, <1>8, <2>1, <2>2
<1>9. ASSUME NEW p \in Pins \ Buttons, nrf_drv_gpiote_in_uninit(p) PROVE ParityInv'
  <2>1. MainCalls /\ nrf_drv_gpiote_in_event_disable(p) /\ main'.op # "enable"
    BY <1>9 DEF nrf_drv_gpiote_in_uninit, MainIdle
  <2> QED  BY <1>8, <2>1
<1>10. ASSUME NEW p \in Pins \ Buttons, MainCalls, nrf_drv_gpiote_in_event_disable(p),
              UNCHANGED main
       PROVE  ParityInv'
  <2>1. main'.op # "enable"
    BY <1>10 DEF MainCalls, MainIdle
  <2> QED  BY <1>8, <1>10, <2>1
<1> QED
  BY <1>3, <1>4, <1>5, <1>6, <1>7, <1>9, <1>10 DEF OtherPins

\* The interrupt, but for a match.
LEMMA IrqKeepsParity ==
    ASSUME ParityInv, UNCHANGED <<button, history>>,
           (~rtc /\ IrqEnters) \/ IrqReads \/ CheckSkips \/ CheckNoMatch \/ IrqRepeats \/ IrqLeaves
    PROVE  ParityInv'
<1>1. UNCHANGED <<sense, main, calling, m_pin_state, m_pin_transition, rtc, history>>
  BY DEF IrqEnters, IrqReads, CheckSkips, CheckNoMatch, IrqRepeats, IrqLeaves, hardware, button
<1>2. ~rtc /\ calling = NoCall
  BY DEF ParityInv, IrqEnters, IrqReads, CheckSkips, CheckNoMatch, IrqRepeats, IrqLeaves,
         AtSlot, RoundEnds
<1> QED
  BY <1>1, <1>2, SameButtons

\* A match is an edge: the pin is where its sense waited for it, and is
\* turned around before its handler is called.
LEMMA MatchKeepsParity ==
    ASSUME IInv, ParityInv, CheckMatch, UNCHANGED <<button, history>>
    PROVE  ParityInv'
<1> DEFINE q == Checked.pin
           high == q \in irq.input
<1>1. /\ irq.pc = "check" /\ irq.slot \in Slots /\ calling = NoCall /\ q \in irq.pins_to_check
      /\ Matches(sense[q], high) /\ irq'.pc = "check" /\ calling'.pin = q
      /\ UNCHANGED <<m_cb, main, m_pin_state, m_pin_transition, rtc, known, disturbed>>
  BY DEF CheckMatch, AtSlot, IsChecked, Senses, Call, button, history, IInv, TypeOK, GpioteTypeOK
<1>2. q \in Pins /\ sense[q] # "none"
  <2>1. irq.pins_to_check \subseteq Pins
    BY DEF IInv, TypeOK, GpioteTypeOK
  <2> QED  BY <1>1, <2>1 DEF Matches
<1>3. HoldsPin(q, irq.slot)
  <2>1. MovingInv /\ SlotInv /\ port_handlers_pins[irq.slot].pin = q
    BY DEF IInv, Checked
  <2> QED  BY <1>1, <1>2, <2>1, SensingSlot
<1>4. sense' = [sense EXCEPT ![q] = Opposite(high)]
  <2>1. IsToggle
    BY <1>3 DEF HoldsPin, IsToggle, Checked
  <2> QED  BY <2>1 DEF CheckMatch, SetSense, SetPins
<1>5. sense[q] = Turned(Opposite(high))
  BY <1>1 DEF Matches, Opposite, Turned
<1>6. \A c \in Buttons : Expected(c)' = Expected(c) /\ Expected(c) \in {"low", "high"}
  BY <1>1 DEF Expected, Opposite
<1>7. Opposite(high) \in {"low", "high"}
  BY DEF Opposite
<1> HIDE DEF q, high
<1>8. ~rtc
  BY <1>1 DEF ParityInv
<1>9. ASSUME NEW c \in Buttons, c \notin disturbed PROVE InStep(c)'
  <2>1. InStep(c) /\ c # NONE /\ c \in Pins
    BY <1>9, AppButtonAssumption, GpioteAssumption DEF ParityInv
  <2>2. sense'[c] = IF c = q THEN Opposite(high) ELSE sense[c]
    BY <1>2, <1>4, <2>1 DEF IInv, TypeOK, GpioteTypeOK
  <2>3. calling.pin # c
    BY <1>1, <2>1 DEF NoCall
  <2>4. Enabled(c) => sense[c] = Expected(c)
    BY <2>1, <2>3 DEF InStep
  <2>5. CASE c = q
    <3>1. Expected(c) = Turned(Opposite(high)) /\ Enabled(c)
      BY <1>2, <1>5, <2>4, <2>5 DEF Enabled
    <3>2. sense'[c] = Turned(Expected(c))
      BY <1>7, <2>2, <2>5, <3>1 DEF Turned
    <3>3. Enabled(c)'
      BY <1>7, <2>2, <2>5 DEF Enabled
    <3> QED  BY <1>1, <1>6, <2>1, <2>5, <3>1, <3>2, <3>3 DEF InStep
  <2>6. CASE c # q
    BY <1>1, <1>6, <2>1, <2>2, <2>4, <2>6 DEF InStep, Enabled
  <2> QED  BY <2>5, <2>6
<1>10. ASSUME NEW c \in Buttons, main.op = "enable", main.pin = c PROVE ~Enabled(c)'
  <2>1. sense[c] = "none" /\ c \in Pins
    BY <1>10, AppButtonAssumption DEF ParityInv, Enabled
  <2>2. c # q
    BY <1>2, <2>1
  <2> QED  BY <1>4, <2>1, <2>2 DEF IInv, TypeOK, GpioteTypeOK, Enabled
<1> QED
  BY <1>1, <1>8, <1>9, <1>10 DEF ParityInv

\* The handler of a button counts its edge; one that no longer fits the level
\* of the pin, or comes to nothing, is the only one that is miscounted.
LEMMA HandlerKeepsParity ==
    ASSUME IInv, ParityInv, gpiote_event_handler
    PROVE  ParityInv'
<1> DEFINE q == calling.pin
<1>1. /\ calling.handler \in Buttons /\ calling' = NoCall
      /\ UNCHANGED <<level, sense, main, irq, rtc, known>>
  BY DEF gpiote_event_handler, hardware
<1>2. calling # NoCall /\ q \in Buttons /\ calling'.pin = NONE
  <2>1. calling # NoCall
    BY <1>1, GpioteAssumption, AppButtonAssumption DEF NoCall
  <2>2. calling.handler = calling.pin
    BY <2>1 DEF IInv, HandlersAreLive
  <2> QED  BY <1>1, <2>1, <2>2 DEF NoCall
<1>3. ~rtc /\ rtc' = rtc
  BY <1>1, <1>2 DEF ParityInv
<1>4. /\ disturbed \subseteq disturbed'
      /\ \A c \in Buttons : c # q =>
            /\ c \in m_pin_transition' <=> c \in m_pin_transition
            /\ c \in m_pin_state' <=> c \in m_pin_state
  BY DEF gpiote_event_handler, StopRefused, FirstEdge, SecondEdge
<1>5. ASSUME NEW c \in Buttons, c \notin disturbed', c # q PROVE InStep(c)'
  <2>1. InStep(c) /\ c # NONE
    BY <1>4, <1>5, GpioteAssumption, AppButtonAssumption DEF ParityInv
  <2>2. Expected(c)' = Expected(c)
    BY <1>1, <1>4, <1>5 DEF Expected
  <2> QED  BY <1>1, <1>2, <1>4, <1>5, <2>1, <2>2 DEF InStep, Enabled
<1>6. ASSUME NEW b \in Buttons, b \notin disturbed', b = q PROVE InStep(b)'
  <2>1. InStep(b) /\ b # NONE
    BY <1>2, <1>4, <1>6, GpioteAssumption, AppButtonAssumption DEF ParityInv
  <2>2. Enabled(b) => sense[b] = Turned(Expected(b))
    BY <1>6, <2>1 DEF InStep
  <2>3. CASE StopRefused(b)
    BY <1>6, <2>3 DEF StopRefused
  <2>4. CASE FirstEdge(b)
    <3>1. /\ b \notin m_pin_transition /\ b \in m_pin_transition' /\ ~Glitch(b)
          /\ b \in m_pin_state' <=> level[b] = TRUE
      BY <1>6, <2>4 DEF FirstEdge
    <3>2. sense[b] = Opposite(level[b]) /\ Opposite(b \in m_pin_state') = Opposite(level[b])
      BY <3>1 DEF Glitch, Opposite
    <3>3. Enabled(b)
      BY <3>2 DEF Enabled, Opposite
    <3>4. sense[b] = Turned(Opposite(known[b]))
      BY <2>2, <3>1, <3>3 DEF Expected
    <3>5. ~(main.op = "enable" /\ main.pin = b)
      BY <1>2, <3>3 DEF ParityInv
    <3>6. Expected(b)' = sense[b]
      BY <1>1, <3>1, <3>2 DEF Expected
    <3>7. Enabled(b)' /\ sense'[b] = Expected(b)'
      BY <1>1, <3>3, <3>6 DEF Enabled
    <3> QED  BY <1>1, <1>2, <2>1, <3>1, <3>2, <3>4, <3>5, <3>7 DEF InStep
  <2>5. CASE SecondEdge(b)
    <3>1. b \in m_pin_transition /\ b \notin m_pin_transition'
      BY <2>5 DEF SecondEdge
    <3>2. /\ Opposite(b \in m_pin_state) = Turned(Opposite(known[b]))
          /\ ~(main.op = "enable" /\ main.pin = b)
      BY <2>1, <3>1 DEF InStep
    <3>3. Expected(b) = Turned(Opposite(known[b])) /\ Expected(b)' = Opposite(known[b])
      BY <1>1, <3>1, <3>2 DEF Expected
    <3>4. Turned(Turned(Opposite(known[b]))) = Opposite(known[b])
      BY DEF Turned, Opposite
    <3> QED  BY <1>1, <1>2, <2>1, <2>2, <3>1, <3>2, <3>3, <3>4 DEF InStep, Enabled
  <2> QED
    BY <1>6, <2>3, <2>4, <2>5 DEF gpiote_event_handler
<1>7. \A c \in Buttons \ disturbed' : InStep(c)'
  BY <1>5, <1>6
<1> HIDE DEF q
<1> QED
  BY <1>1, <1>2, <1>3, <1>7 DEF ParityInv, Enabled

\* The delay is over: a button that is reported, without a glitch, senses the
\* opposite of what its user was told; one that is not was miscounted.
LEMMA TimeoutKeepsParity ==
    ASSUME IInv, ParityInv, detection_delay_timeout_handler
    PROVE  ParityInv'
<1>1. /\ rtc /\ ~rtc' /\ m_pin_transition' = {}
      /\ UNCHANGED <<level, sense, main, irq, calling, m_pin_state>>
      /\ disturbed' = (disturbed \cup {b \in m_pin_transition : Glitch(b)})
                          \ {b \in Reported : ~Glitch(b)}
  BY DEF detection_delay_timeout_handler, gpioteVars, hardware
<1>2. calling = NoCall
  BY <1>1 DEF ParityInv
<1>3. ASSUME NEW c \in Buttons, c \notin disturbed' PROVE InStep(c)'
  <2>1. known'[c] = IF c \in Reported THEN level[c] ELSE known[c]
    BY DEF detection_delay_timeout_handler
  <2>2. c # NONE /\ calling.pin # c /\ calling'.pin # c
    BY <1>1, <1>2, GpioteAssumption, AppButtonAssumption DEF NoCall
  <2>3. Expected(c)' = Opposite(known'[c])
    BY <1>1 DEF Expected
  <2>4. CASE c \in Reported /\ ~Glitch(c)
    <3>1. sense[c] = Opposite(known'[c])
      BY <2>1, <2>4 DEF Glitch
    <3>2. Enabled(c)
      BY <3>1 DEF Enabled, Opposite
    <3>3. ~(main.op = "enable" /\ main.pin = c)
      BY <3>2 DEF ParityInv
    <3> QED  BY <1>1, <2>2, <2>3, <3>1, <3>3 DEF InStep, Enabled
  <2>5. CASE ~(c \in Reported /\ ~Glitch(c))
    <3>1. c \notin disturbed /\ InStep(c) /\ (c \in m_pin_transition => ~Glitch(c))
      BY <1>1, <1>3, <2>5 DEF ParityInv
    <3>2. CASE c \notin m_pin_transition
      <4>1. c \notin Reported /\ Expected(c) = Opposite(known[c])
        BY <3>2 DEF Reported, Expected
      <4> QED  BY <1>1, <2>1, <2>2, <2>3, <3>1, <4>1 DEF InStep, Enabled
    <3>3. CASE c \in m_pin_transition
      <4>1. /\ sense[c] = Opposite(level[c]) /\ c \notin Reported
        BY <2>5, <3>1, <3>3 DEF Glitch
      <4>2. sense[c] = Opposite(c \in m_pin_state)
        <5>1. Enabled(c)
          BY <4>1 DEF Enabled, Opposite
        <5> QED  BY <2>2, <3>1, <3>3, <5>1 DEF InStep, Expected
      <4>3. level[c] \in BOOLEAN
        BY AppButtonAssumption DEF IInv, TypeOK, GpioteTypeOK
      <4>4. level[c] = (c \in m_pin_state)
        BY <4>1, <4>2, <4>3 DEF Opposite
      <4> QED  BY <3>3, <4>1, <4>4 DEF Reported
    <3> QED  BY <3>2, <3>3
  <2> QED  BY <2>4, <2>5
<1> QED
  BY <1>1, <1>2, <1>3 DEF ParityInv, Enabled

\* Every step keeps edges and reports in step.
LEMMA StepKeepsParity ==
    ASSUME IInv, ParityInv, [Next]_vars
    PROVE  ParityInv'
<1>1. ASSUME NEW p \in Pins, Flip(p), UNCHANGED <<button, history>> PROVE ParityInv'
  BY <1>1, SameButtons DEF ParityInv, Flip, SetPins, button
<1>2. ASSUME NEW b \in Buttons, app_button_enable(b) PROVE ParityInv'
  BY <1>2, EnableKeepsParity
<1>3. CASE (\E b \in Buttons : DisableButton(b)) \/ DisableTimer
  BY <1>3, DisableKeepsParity
<1>4. CASE app_button_disable
  <2>1. /\ UNCHANGED <<sense, irq, calling, m_pin_state, m_pin_transition, rtc, history>>
        /\ main'.op = "disable_buttons"
    BY <1>4 DEF app_button_disable, hardware, button
  <2> QED  BY <2>1, SameButtons DEF ParityInv
<1>5. CASE OtherPins
  BY <1>5, OtherPinsKeepParity
<1>6. CASE GPIOTE_IRQHandler
  <2>1. CASE gpiote_event_handler
    BY <2>1, HandlerKeepsParity
  <2>2. CASE CheckMatch /\ UNCHANGED <<button, history>>
    BY <2>2, MatchKeepsParity
  <2>3. ASSUME UNCHANGED <<button, history>>,
               (~rtc /\ IrqEnters) \/ IrqReads \/ CheckSkips \/ CheckNoMatch
                    \/ IrqRepeats \/ IrqLeaves
        PROVE  ParityInv'
    BY <2>3, IrqKeepsParity
  <2>4. CASE OtherHandler
    <3>1. /\ UNCHANGED <<sense, main, irq, m_pin_state, m_pin_transition, rtc, history>>
          /\ calling # NoCall /\ calling.handler \notin Buttons /\ calling' = NoCall
      BY <2>4 DEF OtherHandler, hardware, button
    <3>2. calling.pin \notin Buttons /\ NoCall.pin \notin Buttons
      BY <3>1, GpioteAssumption, AppButtonAssumption DEF IInv, HandlersAreLive, NoCall
    <3>3. ASSUME NEW c \in Buttons, c \notin disturbed PROVE InStep(c)'
      <4>1. InStep(c) /\ Expected(c)' = Expected(c)
        BY <3>1, <3>3 DEF ParityInv, Expected, history
      <4> QED  BY <3>1, <3>2, <4>1 DEF InStep, Enabled, history
    <3> QED  BY <3>1, <3>3 DEF ParityInv, Enabled, history
  <2> QED
    BY <1>6, <2>1, <2>2, <2>3, <2>4 DEF GPIOTE_IRQHandler, IrqStep
<1>7. CASE RtcEnters
  <2>1. /\ UNCHANGED <<sense, main, irq, calling, m_pin_state, m_pin_transition, history>>
        /\ irq.pc = "idle"
    BY <1>7 DEF RtcEnters, gpioteVars, hardware
  <2> QED  BY <2>1, SameButtons DEF ParityInv
<1>8. CASE detection_delay_timeout_handler
  BY <1>8, TimeoutKeepsParity
<1>9. CASE UNCHANGED vars
  <2>1. UNCHANGED <<sense, main, irq, calling, m_pin_state, m_pin_transition, rtc, history>>
    BY <1>9 DEF vars, gpioteVars, hardware, button
  <2> QED  BY <2>1, SameButtons DEF ParityInv
<1> QED
  BY <1>1, <1>2, <1>3, <1>4, <1>5, <1>6, <1>7, <1>8, <1>9 DEF Next, Main

\* Edges and reports are always in step.
LEMMA ParityAlways == Spec => []ParityInv
<1>1. IInv /\ ParityInv /\ [Next]_vars => ParityInv'
  BY StepKeepsParity
<1> HIDE DEF IInv, ParityInv, Next, vars
<1> QED
  BY <1>1, InitParity, IInvAlways, PTL DEF Spec

(* Whenever nothing is under way, the user knows the level of every button *)
(* that detects and whose edges were not miscounted, for any number of     *)
(* buttons that share the timer (app_button.c:105-143).                    *)
THEOREM ButtonsSettledIsKnown == Spec => []SettledIsKnown
<1>1. ASSUME IInv, ParityInv PROVE SettledIsKnown
  <2> SUFFICES ASSUME irq.pc = "idle", ~port_event, NEW b \in Buttons \ disturbed,
                      Enabled(b), b \notin m_pin_transition
               PROVE  known[b] = level[b]
    BY DEF SettledIsKnown, Quiet
  <2>1. b \in Pins /\ b # NONE /\ calling.pin # b
    BY <1>1, GpioteAssumption, AppButtonAssumption DEF ParityInv, NoCall
  <2>2. sense[b] = Opposite(known[b])
    BY <1>1, <2>1 DEF ParityInv, InStep, Expected
  <2>3. ~Matches(sense[b], level[b])
    BY <1>1, <2>1 DEF IInv, EdgesAreSeen, Detect
  <2>4. known[b] \in BOOLEAN /\ level[b] \in BOOLEAN
    BY <1>1, <2>1 DEF IInv, TypeOK, GpioteTypeOK
  <2> QED  BY <2>2, <2>3, <2>4 DEF Matches, Opposite
<1> HIDE DEF IInv, ParityInv
<1> QED
  BY <1>1, IInvAlways, ParityAlways, PTL

-----------------------------------------------------------------------------
(* The timer: while buttons wait, it runs, is about to call its handler, or *)
(* was stopped for another button.                                          *)
TimedInv == \A b \in m_pin_transition \ disturbed : delay \/ rtc \/ b \in stopped

\* Every step keeps a button that waits timed.
LEMMA StepKeepsTimed ==
    ASSUME IInv, TimedInv, [Next]_vars
    PROVE  TimedInv'
<1>2. ASSUME UNCHANGED <<button, history>> PROVE TimedInv'
  BY <1>2 DEF TimedInv, button, history
<1>3. CASE \E b \in Buttons : app_button_enable(b)
  BY <1>3 DEF TimedInv, app_button_enable, button
<1>4. CASE DisableTimer
  BY <1>4 DEF TimedInv, DisableTimer
<1>5. CASE gpiote_event_handler
  <2> DEFINE b == calling.pin
  <2>1. b \in Buttons
    BY <1>5, GpioteAssumption, AppButtonAssumption
       DEF gpiote_event_handler, IInv, HandlersAreLive, NoCall
  <2>2. CASE StopRefused(b)
    BY <2>2 DEF TimedInv, StopRefused
  <2>3. CASE FirstEdge(b)
    BY <2>3 DEF TimedInv, FirstEdge
  <2>4. CASE SecondEdge(b)
    BY <2>4 DEF TimedInv, SecondEdge
  <2> QED
    BY <1>5, <2>2, <2>3, <2>4 DEF gpiote_event_handler
<1>6. CASE RtcEnters
  BY <1>6 DEF TimedInv, RtcEnters, history
<1>7. CASE detection_delay_timeout_handler
  BY <1>7 DEF TimedInv, detection_delay_timeout_handler
<1> QED
  <2>1. CASE \E p \in Pins : Flip(p) /\ UNCHANGED <<button, history>>
    BY <2>1, <1>2
  <2>2. CASE Main
    BY <2>2, <1>2, <1>3, <1>4 DEF Main, DisableButton, app_button_disable, OtherPins
  <2>3. CASE GPIOTE_IRQHandler
    BY <2>3, <1>2, <1>5 DEF GPIOTE_IRQHandler, OtherHandler
  <2>4. CASE UNCHANGED vars
    BY <2>4, <1>2 DEF vars
  <2> QED  BY <2>1, <2>2, <2>3, <2>4, <1>6, <1>7 DEF Next

(* A button that waits for the detection delay has it running, unless it   *)
(* was stopped for another button or is disturbed, for any number of       *)
(* buttons that share the timer.  With one button the first exception      *)
(* never arises; the run buttons_two shows that with two it does           *)
(* (app_button.c:99-134).                                                  *)
THEOREM ButtonsPendingIsTimed == Spec => []PendingIsTimed
<1>1. Init => TimedInv
  BY DEF Init, TimedInv
<1>2. IInv /\ TimedInv /\ [Next]_vars => TimedInv'
  BY StepKeepsTimed
<1>3. TimedInv => PendingIsTimed
  BY DEF TimedInv, PendingIsTimed, Quiet
<1> HIDE DEF IInv, TimedInv, Init, Next, vars, PendingIsTimed
<1> QED
  BY <1>1, <1>2, <1>3, IInvAlways, PTL DEF Spec

=============================================================================

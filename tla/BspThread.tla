------------------------------ MODULE BspThread ------------------------------
(***************************************************************************)
(* The two LEDs with which bsp_thread.c, on top of bsp.c, shows the role   *)
(* of the node (off, blinking, on) and a ping (both blink NumToggles       *)
(* times).  OpenThread calls it in the main loop; two single-shot timers   *)
(* call it in the interrupt of RTC1, which preempts the main loop between  *)
(* any two accesses to the LEDs and to the variables.                      *)
(*                                                                         *)
(* A context has a list of the accesses it still has to make.  A timer is  *)
(* what TimerService promises of a single-shot timer, without its time:    *)
(* while it runs it may expire, and a start of a running one is ignored.   *)
(* No start is refused: operations leave the queue of ten as soon as main, *)
(* or a handler, has made one or two.  Nobody in this image shows a        *)
(* commissioning state, an alert or a transient indication.                *)
(***************************************************************************)
EXTENDS Naturals, Sequences

CONSTANTS
    NumToggles,   \* THREAD_PING_NUM_TOGGLES
    MaxExpiries,  \* bound: how often the ping timer expires within one call
                  \* of the main loop
    Patient       \* between attached and disabled, has the LED always time to
                  \* end its last blink, of 100 ms?

ASSUME BspThreadAssumption ==
    /\ NumToggles \in 2 .. 255
    /\ MaxExpiries \in 0 .. NumToggles - 2
    /\ Patient \in BOOLEAN

VARIABLES
    led,                 \* are the two LEDs on?
    m_connection_state,  \* bsp_thread.c: the indication of the last role
    m_stable_state,      \* bsp.c: the indication the leds timer repeats
    m_indicating_ping,   \* toggles left
    timers,              \* the timers that run
    todo,                \* what each context has still to do
    read,                \* what each context has read last
    role,                \* the role of the node
    changed,             \* is the callback for a role change to come?
    expiries             \* expiries of the ping timer in this call of main

bsp == <<led, m_connection_state, m_stable_state, m_indicating_ping, timers>>
openthread == <<role, changed>>
vars == <<bsp, todo, read, openthread, expiries>>

Contexts == {"main", "rtc"}
Roles == {"disabled", "detached", "attached"}
Indications == {"IDLE", "BONDING", "CONNECTED"}

(* After bsp_init and bsp_thread_init.                                     *)
Init ==
    /\ led = [connection |-> FALSE, commissioning |-> FALSE]
    /\ m_connection_state = "IDLE" /\ m_stable_state = "IDLE"
    /\ m_indicating_ping = 0 /\ timers = {}
    /\ todo = [c \in Contexts |-> <<>>] /\ read = [c \in Contexts |-> 0]
    /\ role = "disabled" /\ changed = FALSE /\ expiries = 0

Idle(c) == todo[c] = <<>>
Runs(c) == c = "main" => Idle("rtc")

-----------------------------------------------------------------------------
(* What the functions do, access by access: <<kind, argument, value>>.     *)
Led(l, on) == <<"led", l, on>>
Stable(i) == <<"stable", i, 0>>
Start(t) == <<"start", t, 0>>

leds_off == <<Led("connection", FALSE), Led("commissioning", FALSE)>>

\* Fault: the timer is not started again.
bsp_led_indication_NoStart(i) ==
    CASE i = "IDLE" -> Append(leds_off, Stable(i))
      [] i = "BONDING" -> <<<<"out", 0, 0>>, <<"invert", 0, 0>>, Stable(i)>>
      [] i = "CONNECTED" -> <<Led("connection", TRUE), Stable(i)>>

\* Fault: a connected node keeps the indication it had.
bsp_led_indication_NoStable(i) ==
    CASE i = "IDLE" -> Append(leds_off, Stable(i))
      [] i = "BONDING" -> <<<<"out", 0, 0>>, <<"invert", 0, 0>>, Stable(i), Start("leds")>>
      [] i = "CONNECTED" -> <<Led("connection", TRUE)>>

(* bsp_led_indication for the three indications of bsp_thread.h.  A pin is *)
(* inverted by reading the output register and writing the opposite.       *)
bsp_led_indication(i) ==
    CASE i = "IDLE" -> Append(leds_off, Stable(i))
      [] i = "BONDING" -> <<<<"out", 0, 0>>, <<"invert", 0, 0>>, Stable(i), Start("leds")>>
      [] i = "CONNECTED" -> <<Led("connection", TRUE), Stable(i)>>

bsp_thread_indication_set(i) == <<<<"connection", i, 0>>>>
bsp_ping_led_indication == <<<<"load", 0, 0>>, <<"decrement", 0, 0>>>>
bsp_thread_ping_indication_set == <<<<"ping", 0, 0>>>> \o bsp_ping_led_indication

(* What a ping shows next, as long as toggles are left.                    *)
PingToggles(on) ==
    <<Led("connection", on), Led("commissioning", on), Start("ping")>>

\* Fault: the role is not shown again.
PingEnds_Alone == <<Led("commissioning", FALSE)>>

(* The last toggle: bsp_commissioning_led_indication, with no              *)
(* commissioning state, and the role again.                                *)
PingEnds == <<Led("commissioning", FALSE), <<"restore", 0, 0>>>>

-----------------------------------------------------------------------------
(* One access of a context.                                                *)
At(c, kind) == Runs(c) /\ ~Idle(c) /\ Head(todo[c])[1] = kind
Arg(c) == Head(todo[c])[2]

Continues(c) == todo' = [todo EXCEPT ![c] = Tail(@)]
Calls(c, f) == todo' = [todo EXCEPT ![c] = f \o Tail(@)]
Reads(c, x) == read' = [read EXCEPT ![c] = x]

bsp_board_led_write(c) ==
    /\ At(c, "led")
    /\ led' = [led EXCEPT ![Arg(c)] = Head(todo[c])[3]]
    /\ Continues(c)
    /\ UNCHANGED <<m_connection_state, m_stable_state, m_indicating_ping, timers, read>>

InvertReads(c) ==
    /\ At(c, "out")
    /\ Reads(c, IF led.connection THEN 1 ELSE 0)
    /\ Continues(c)
    /\ UNCHANGED bsp

InvertWrites(c) ==
    /\ At(c, "invert")
    /\ led' = [led EXCEPT !.connection = read[c] = 0]
    /\ Continues(c)
    /\ UNCHANGED <<m_connection_state, m_stable_state, m_indicating_ping, timers, read>>

SetStable(c) ==
    /\ At(c, "stable")
    /\ m_stable_state' = Arg(c)
    /\ Continues(c)
    /\ UNCHANGED <<led, m_connection_state, m_indicating_ping, timers, read>>

app_timer_start(c) ==
    /\ At(c, "start")
    /\ timers' = timers \cup {Arg(c)}
    /\ Continues(c)
    /\ UNCHANGED <<led, m_connection_state, m_stable_state, m_indicating_ping, read>>

SetConnection(c) ==
    /\ At(c, "connection")
    /\ m_connection_state' = Arg(c)
    /\ Calls(c, bsp_led_indication(Arg(c)))
    /\ UNCHANGED <<led, m_stable_state, m_indicating_ping, timers, read>>

Restore(c) ==
    /\ At(c, "restore")
    /\ Calls(c, bsp_led_indication(m_connection_state))
    /\ UNCHANGED <<bsp, read>>

SetPing(c) ==
    /\ At(c, "ping")
    /\ m_indicating_ping' = NumToggles
    /\ Continues(c)
    /\ UNCHANGED <<led, m_connection_state, m_stable_state, timers, read>>

LoadPing(c) ==
    /\ At(c, "load")
    /\ Reads(c, m_indicating_ping)
    /\ Continues(c)
    /\ UNCHANGED bsp

\* Fault: the count is not tested.
DecrementPing_Unchecked(c) ==
    /\ At(c, "decrement")
    /\ m_indicating_ping' = (read[c] + 255) % 256
    /\ Calls(c, <<<<"toggle", 0, 0>>>>)
    /\ UNCHANGED <<led, m_connection_state, m_stable_state, timers, read>>

(* The decremented value is stored, and tested as it was stored.           *)
DecrementPing(c) ==
    /\ At(c, "decrement")
    /\ m_indicating_ping' = (read[c] + 255) % 256
    /\ Calls(c, IF m_indicating_ping' = 0 THEN PingEnds ELSE <<<<"toggle", 0, 0>>>>)
    /\ UNCHANGED <<led, m_connection_state, m_stable_state, timers, read>>

(* Which of the two comes next depends on one of the LEDs.                 *)
TogglePing(c) ==
    /\ At(c, "toggle")
    /\ Calls(c, PingToggles(~led.commissioning))
    /\ UNCHANGED <<bsp, read>>

Step(c) ==
    /\ \/ bsp_board_led_write(c) \/ InvertReads(c) \/ InvertWrites(c) \/ SetStable(c)
       \/ app_timer_start(c) \/ SetConnection(c) \/ Restore(c)
       \/ SetPing(c) \/ LoadPing(c) \/ DecrementPing(c) \/ TogglePing(c)
    /\ UNCHANGED <<openthread, expiries>>

-----------------------------------------------------------------------------
(* OpenThread: roles change; their callbacks coalesce.                     *)
ChangeRole ==
    /\ role' \in Roles \ {role} /\ changed' = TRUE
    /\ UNCHANGED <<bsp, todo, read, expiries>>

MainMay == Idle("main") /\ Idle("rtc")

\* Fault: the role is looked at only for a node that is attached.
handle_role_change_OnlyAttached ==
    IF role = "attached" THEN bsp_thread_indication_set("CONNECTED") ELSE <<>>

handle_role_change ==
    bsp_thread_indication_set(CASE role = "attached" -> "CONNECTED"
                                [] role = "disabled" -> "IDLE"
                                [] role = "detached" -> "BONDING")

state_changed_callback ==
    /\ MainMay /\ changed
    /\ Patient /\ "leds" \in timers => role = "detached" \/ m_stable_state = "BONDING"
    /\ changed' = FALSE /\ expiries' = 0
    /\ todo' = [todo EXCEPT !["main"] = handle_role_change]
    /\ UNCHANGED <<bsp, read, role>>

(* A ping arrives.                                                         *)
icmp_receive_callback ==
    /\ MainMay
    /\ expiries' = 0
    /\ todo' = [todo EXCEPT !["main"] = bsp_thread_ping_indication_set]
    /\ UNCHANGED <<bsp, read, openthread>>

(* RTC1: a timer has expired.                                              *)
Fires(t, f) ==
    /\ Idle("rtc") /\ t \in timers
    /\ timers' = timers \ {t}
    /\ todo' = [todo EXCEPT !["rtc"] = f]
    /\ UNCHANGED <<led, m_connection_state, m_stable_state, m_indicating_ping, read, openthread>>

leds_timer_handler ==
    Fires("leds", bsp_led_indication(m_stable_state)) /\ UNCHANGED expiries

ping_led_timer_handler ==
    /\ Idle("main") \/ expiries < MaxExpiries
    /\ Fires("ping", bsp_ping_led_indication)
    /\ expiries' = IF Idle("main") THEN 0 ELSE expiries + 1

Next ==
    \/ \E c \in Contexts : Step(c)
    \/ ChangeRole \/ state_changed_callback \/ icmp_receive_callback
    \/ leds_timer_handler \/ ping_led_timer_handler

(* Time passes, interrupts go on, and the main loop, which they preempt    *)
(* again and again, goes on in between.                                    *)
Spec ==
    /\ Init /\ [][Next]_vars
    /\ WF_vars(Step("rtc")) /\ SF_vars(Step("main"))
    /\ SF_vars(state_changed_callback)
    /\ SF_vars(leds_timer_handler) /\ SF_vars(ping_led_timer_handler)

-----------------------------------------------------------------------------
(* The values of the variables.                                            *)
TypeOK ==
    /\ led \in [{"connection", "commissioning"} -> BOOLEAN]
    /\ m_connection_state \in Indications /\ m_stable_state \in Indications
    /\ m_indicating_ping \in 0 .. NumToggles
    /\ timers \subseteq {"leds", "ping"}
    /\ DOMAIN todo = Contexts /\ read \in [Contexts -> 0 .. NumToggles]
    /\ role \in Roles /\ changed \in BOOLEAN /\ expiries \in 0 .. MaxExpiries

(* Whenever nothing is being shown, the indication that blinks and the     *)
(* ping that has toggles left have their timer running: no order of        *)
(* callbacks and expiries leaves one of them stuck (bsp.c:315,             *)
(* bsp_thread.c:126).                                                      *)
BlinkingIsTimed ==
    MainMay => /\ m_stable_state = "BONDING" => "leds" \in timers
               /\ m_indicating_ping > 0 => "ping" \in timers

(* When no timer runs any more the LEDs show the last role, although a     *)
(* timer may have come in the middle of every change (bsp.c:311-322).      *)
QuietShowsRole ==
    MainMay /\ timers = {} =>
        /\ led.connection = (m_connection_state = "CONNECTED")
        /\ ~led.commissioning
        /\ m_stable_state = m_connection_state

PingsStop == <>[][~icmp_receive_callback]_vars

(* A node that stays attached, and is not pinged any more, ends up with    *)
(* its connection LED on; one that stays detached with the LED blinking;   *)
(* one that is disabled with the LED off.                                  *)
RoleIsShown ==
    PingsStop =>
        /\ <>[](role = "attached") => <>[]led.connection
        /\ <>[](role = "disabled") => <>[]~led.connection
        /\ <>[](role = "detached") => []<>led.connection /\ []<>~led.connection
=============================================================================

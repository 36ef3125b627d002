--------------------------- MODULE MCClockDriver ----------------------------
(* Instance of ClockDriver for TLC: two handler items.                     *)
EXTENDS ClockDriver

CONSTANTS i1, i2

MCItems == {i1, i2}

=============================================================================

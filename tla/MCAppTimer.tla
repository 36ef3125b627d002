----------------------------- MODULE MCAppTimer -----------------------------
(* Instance of AppTimer for TLC: one repeated and one single-shot timer.   *)
EXTENDS AppTimer, TLC

CONSTANTS t1, t2

MCTimers   == {t1, t2}
MCRepeated == {t1}
MCTimeouts == t1 :> {4} @@ t2 :> {1, 4}

=============================================================================

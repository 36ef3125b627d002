--------------------------- MODULE MCAppScheduler ---------------------------
(* Instance of AppScheduler for TLC: the model values of its .cfg file.    *)
EXTENDS AppScheduler

CONSTANTS h1, p1, long

MCHandlers  == {h1}
MCPayloads  == {p1, long}
MCOversized == {long}

=============================================================================

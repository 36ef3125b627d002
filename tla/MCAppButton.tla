---------------------------- MODULE MCAppButton -----------------------------
(* Instances of AppButton for TLC: a button and two other pins that share  *)
(* what is left of the slots; two buttons.                                 *)
EXTENDS AppButton

CONSTANTS b1, b2, p1, p2

MCOneButton == {b1}
MCTwoButtons == {b1, b2}
MCButtonAndPins == {b1, p1, p2}

=============================================================================

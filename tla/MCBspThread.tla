---------------------------- MODULE MCBspThread -----------------------------
(* Instance of BspThread for TLC: its constants are numbers.               *)
EXTENDS BspThread

=============================================================================

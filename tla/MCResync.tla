------------------------------- MODULE MCResync -------------------------------
(* Small instances of Resync for TLC. *)
EXTENDS Resync

CONSTANTS k1, k2, o1, listener, ticker

AllInFirstKind == [o \in Object |-> k1]
==============================================================================

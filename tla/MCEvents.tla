------------------------------ MODULE MCEvents ------------------------------
(* Small instances of Events for TLC.                                       *)
EXTENDS Events

CONSTANTS u1, u2, u3
=============================================================================

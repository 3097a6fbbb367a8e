---------------------------- MODULE MCStreaming ----------------------------
(* Small instances of Streaming for TLC.                                    *)
EXTENDS Streaming

CONSTANTS k1, k2
=============================================================================

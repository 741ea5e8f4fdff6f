-------------------------- MODULE MCRealtimeClient --------------------------
(* TLC instance of RealtimeClient: one socket in use, two that are closing,   *)
(* messages and answers up to one sample late.                               *)
EXTENDS RealtimeClient

=============================================================================

------------------------------- MODULE MCPacer -------------------------------
(***************************************************************************)
(* An instance of Pacer for TLC: the two threads of diode_send that send.  *)
(***************************************************************************)
EXTENDS Pacer

CONSTANTS file, udp

=============================================================================

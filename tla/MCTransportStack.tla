-------------------------- MODULE MCTransportStack --------------------------
(* A thread that builds the stack, a thread of the application that swaps  *)
(* callback sets and starts DTLS by hand, and the driver task.             *)
EXTENDS TransportStack, TLC

CONSTANTS builder, caller, juice, first, second

MCUser == {builder, caller}
MCApp == {first, second}
MCCalls == (builder :> {"dtls new", "sctp new"}) @@ (caller :> {"start", "set ice", "set dtls"})
=============================================================================

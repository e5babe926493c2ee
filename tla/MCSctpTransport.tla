--------------------------- MODULE MCSctpTransport ---------------------------
(* SctpTransport with three threads: an application thread, a second one,  *)
(* and the driver task on which the auto-connect hook runs.                *)
EXTENDS SctpTransport, TLC

CONSTANTS app1, app2, driver, first, second

MCThread == {app1, app2, driver}
MCListener == {first, second}
ThreadSymmetry == Permutations(MCThread)
=============================================================================

-------------------------- MODULE MCDtlsTransport --------------------------
(* DtlsTransport with two application threads and the driver task, one     *)
(* callback set and memory BIOs of two records.                            *)
EXTENDS DtlsTransport, TLC

CONSTANTS app1, app2, juice, only

MCUser == {app1, app2}
MCListener == {only}

\* Who calls what, per run: the calls that race each other and the driver.
MCCalls == (app1 :> {"start", "close", "ice close"}) @@ (app2 :> {"send", "close", "fingerprint"})
MCStartCalls == (app1 :> {"start", "set_callbacks"}) @@ (app2 :> {"close", "fingerprint"})
=============================================================================

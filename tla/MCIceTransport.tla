--------------------------- MODULE MCIceTransport ---------------------------
(* IceTransport with two application threads and the driver task.  The     *)
(* agent moves along the states libjuice goes through, consent loss and a  *)
(* second round of checks included.                                        *)
EXTENDS IceTransport, TLC

CONSTANTS app1, app2, juice, first, offer, answer

MCUser == {app1, app2}
MCListener == {first}

MCDescription == {offer, answer}
MCSetup == (offer :> "ActPass") @@ (answer :> "Active")
MCBundleMid == (offer :> "0") @@ (answer :> "data")

\* Who calls what, per run: the calls that race each other.
MCCalls == (app1 :> {"gather", "close", "description", "set_callbacks"})
             @@ (app2 :> {"restart", "description", "candidate", "end", "close"})
MCLifeCalls == (app1 :> {"gather", "restart", "close"}) @@ (app2 :> {"gather", "restart", "close"})

MCAgentEdge ==
  {<<"Disconnected", "Gathering">>, <<"Gathering", "Connecting">>, <<"Connecting", "Connected">>,
   <<"Connecting", "Failed">>, <<"Connected", "Completed">>, <<"Connected", "Failed">>,
   <<"Completed", "Failed">>, <<"Completed", "Disconnected">>}

\* One round of checks, and less, for the runs that are not about the agent.
MCRoundEdge ==
  {<<"Disconnected", "Connecting">>, <<"Connecting", "Connected">>, <<"Connecting", "Failed">>,
   <<"Connected", "Completed">>}
MCShortEdge == {<<"Disconnected", "Connecting">>, <<"Connecting", "Connected">>}
=============================================================================

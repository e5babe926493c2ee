------------------------------- MODULE DtlsPair -------------------------------
(***************************************************************************)
(* Two peers, each a DtlsTransport on top of an IceTransport, and the      *)
(* network between them, which loses, repeats and reorders datagrams.      *)
(*                                                                         *)
(* What one peer does in one handler is one step here, from the datagram   *)
(* or the call to the records it leaves behind; the interleavings inside a *)
(* peer are the subject of module DtlsTransport.  OpenSSL is external: a   *)
(* flight of its handshake is one datagram.  Nothing in the source calls   *)
(* DTLSv1_handle_timeout, so no flight is ever repeated by a timer.  That  *)
(* OpenSSL gives up of itself is in DtlsTransport; here it does so only    *)
(* over a certificate.                                                     *)
(***************************************************************************)
EXTENDS Naturals, SequencesExt

CONSTANTS FirstRole,   \* roles the answerer's IceTransport may be given
          Fingerprint, \* what may be pinned: "match", "mismatch"
          MaxLost,     \* bound on the datagrams the network loses
          MaxCopies    \* bound on the datagrams it repeats

End == {"offerer", "answerer"}
Other(e) == IF e = "offerer" THEN "answerer" ELSE "offerer"

Flight == {"hello", "certificate", "finished", "server finished", "alert", "data"}

ASSUME PairAssumption ==
  /\ FirstRole \subseteq {"ActPass", "Active", "Passive"}
  /\ Fingerprint \subseteq {"match", "mismatch"}
  /\ MaxLost \in Nat /\ MaxCopies \in Nat

VARIABLES role,       \* the role of each IceTransport
          described,  \* the ends that have their remote description
          peer,       \* each end's DtlsTransport
          net,        \* datagrams under way
          lost,       \* how many the network lost
          copies      \* how many it repeated

vars == <<role, described, peer, net, lost, copies>>

(* Operators named X_Slip are not used by any action: each is X after a    *)
(* plausible mistake, kept beside X to show which property notices it.     *)

\* A peer before new(): ice is its agent, out its outbound BIO, early the
\* application data OpenSSL holds back until the handshake is done.  The
\* last two lines are history; posted is what a step sends, error what its
\* last call returned.
NoTransport ==
  [state |-> "none", is_client |-> FALSE, pin |-> "unset", ice |-> "down", ssl |-> "idle",
   early |-> FALSE, out |-> <<>>, posted |-> {}, error |-> "none",
   trusted |-> FALSE, rejected |-> FALSE, refused |-> FALSE, missed |-> FALSE,
   sent |-> FALSE, heard |-> FALSE]

Init ==
  /\ \E first \in FirstRole :
       role = [e \in End |-> IF e = "offerer" THEN "ActPass" ELSE first]
  /\ described = {}
  /\ peer = [e \in End |-> NoTransport]
  /\ net = {} /\ lost = 0 /\ copies = 0

-----------------------------------------------------------------------------
(* OpenSSL, fed with a datagram while the handshake is under way.          *)

\* The verify callback: no pinned fingerprint, or another one, and the
\* peer's certificate is rejected.
Verifies_Slip(p) == p.pin # "mismatch"
Verifies(p) == p.pin = "match"

Put(p, record) == [p EXCEPT !.out = Append(@, record)]

Verify(p, progress, record) ==
  IF Verifies(p)
    THEN [Put(p, record) EXCEPT !.ssl = progress, !.trusted = p.pin = "match"]
    ELSE [Put(p, "alert") EXCEPT !.ssl = "dead", !.rejected = TRUE, !.error = "fatal"]

\* Flights that are not the next one are ignored, application data is kept.
SSL_do_handshake(p, datagram) ==
  CASE datagram = "none" /\ p.ssl = "idle" -> [Put(p, "hello") EXCEPT !.ssl = "waiting"]
    [] datagram = "hello" /\ ~p.is_client /\ p.ssl = "idle" ->
         [Put(p, "certificate") EXCEPT !.ssl = "waiting"]
    [] datagram = "certificate" /\ p.is_client /\ p.ssl = "waiting" ->
         Verify(p, "finishing", "finished")
    [] datagram = "finished" /\ ~p.is_client /\ p.ssl = "waiting" ->
         Verify(p, "done", "server finished")
    [] datagram = "server finished" /\ p.is_client /\ p.ssl = "finishing" ->
         [p EXCEPT !.ssl = "done"]
    [] datagram = "alert" -> [p EXCEPT !.ssl = "dead", !.error = "fatal"]
    [] datagram = "data" -> [p EXCEPT !.early = TRUE]
    [] OTHER -> p

\* Fed with a datagram when it is done: a repeated Finished is answered with
\* the last flight again, an alert ends the reading.
SSL_read(p, datagram) ==
  IF datagram = "data" \/ p.early THEN [p EXCEPT !.heard = TRUE, !.early = FALSE]
  ELSE IF datagram = "finished" /\ ~p.is_client /\ p.state = "Connected"
         THEN Put(p, "server finished") ELSE p

-----------------------------------------------------------------------------
(* DtlsTransport, from the handler's first line to its last                *)

\* The record ICE refuses is gone: it has left the BIO.
drain_outbound(p) ==
  IF p.out = <<>> \/ p.ice = "up"
    THEN [p EXCEPT !.posted = @ \cup ToSet(p.out), !.out = <<>>]
    ELSE [p EXCEPT !.out = Tail(@), !.refused = TRUE, !.missed = TRUE, !.error = "ice"]

\* Whatever is not a finished handshake is an error.
drive_handshake_Slip(p, datagram) ==
  LET q == drain_outbound(SSL_do_handshake(p, datagram))
  IN  CASE q.error # "none" -> q
        [] q.error = "none" /\ q.ssl = "done" -> [q EXCEPT !.state = "Connected"]
        [] q.error = "none" /\ q.ssl # "done" -> [q EXCEPT !.error = "fatal"]

drive_handshake(p, datagram) ==
  LET q == drain_outbound(SSL_do_handshake(p, datagram))
  IN  IF q.error = "none" /\ q.ssl = "done" THEN [q EXCEPT !.state = "Connected"] ELSE q

fail_transport(p) ==
  IF p.state \in {"Failed", "Closed"} THEN p ELSE [p EXCEPT !.state = "Failed"]

\* A server does not need to be set going, and neither does a client.
start_Slip(p) == IF p.state = "New" THEN [p EXCEPT !.state = "Connecting"] ELSE p

\* The client's ClientHello leaves, or is refused; start() goes on.
start(p) ==
  LET q == [p EXCEPT !.state = "Connecting"]
  IN  CASE p.state # "New" -> p
        [] p.state = "New" /\ p.is_client -> [drive_handshake(q, "none") EXCEPT !.error = "none"]
        [] p.state = "New" /\ ~p.is_client -> q

\* Only a transport that was connected before is read from.
pump_inbound_Slip(p, datagram) ==
  LET q == drive_handshake(p, datagram)
  IN  CASE p.state = "Connecting" /\ q.error # "none" -> fail_transport(q)
        [] p.state = "Connecting" /\ q.error = "none" -> q
        [] p.state = "Connected" -> SSL_read(p, datagram)
        [] OTHER -> [p EXCEPT !.missed = TRUE]

\* The shim is installed by start(); what comes before it, or after close(),
\* is not for DTLS.
pump_inbound(p, datagram) ==
  LET q == drive_handshake(p, datagram)
  IN  CASE p.state = "Connecting" /\ q.error # "none" -> fail_transport(q)
        [] p.state = "Connecting" /\ q.error = "none" ->
             IF q.state = "Connected" THEN SSL_read(q, "none") ELSE q
        [] p.state = "Connected" -> SSL_read(p, datagram)
        [] OTHER -> [p EXCEPT !.missed = TRUE]

send(p) == drain_outbound(Put([p EXCEPT !.sent = TRUE], "data"))

-----------------------------------------------------------------------------
(* The peers' steps.  What a step posts is under way after it.             *)

Datagram(e, record) == [to |-> Other(e), record |-> record]

Become(e, p, rest) ==
  /\ peer' = [peer EXCEPT ![e] = [p EXCEPT !.posted = {}, !.error = "none"]]
  /\ net' = rest \cup {Datagram(e, r) : r \in p.posted}

Local == UNCHANGED <<role, described, lost, copies>>

\* The offer reaches the answerer with actpass, the answer the offerer with
\* the role the answerer then has.
set_remote_description(e) ==
  LET setup == IF e = "answerer" THEN "ActPass" ELSE role["answerer"]
  IN  /\ e \notin described /\ (e = "offerer" => "answerer" \in described)
      /\ described' = described \cup {e}
      /\ role' = [role EXCEPT ![e] = IF @ # "ActPass" THEN @
                                     ELSE IF setup = "Active" THEN "Passive" ELSE "Active"]
      /\ UNCHANGED <<peer, net, lost, copies>>

\* The DTLS role is the ICE role of that moment.
New(e) ==
  /\ peer[e].state = "none" /\ Local
  /\ Become(e, [peer[e] EXCEPT !.state = "New", !.is_client = role[e] = "Active"], net)

\* Once per peer, at any time.
set_remote_fingerprint(e) ==
  /\ peer[e].state # "none" /\ peer[e].pin = "unset" /\ Local
  /\ \E f \in Fingerprint : Become(e, [peer[e] EXCEPT !.pin = f], net)

Start(e) == peer[e].state = "New" /\ Local /\ Become(e, start(peer[e]), net)

\* The hook new() left on ICE starts and drains.
IceConnected(e) ==
  LET p == [peer[e] EXCEPT !.ice = "up"]
  IN  /\ peer[e].ice = "down" /\ described = End /\ Local
      /\ Become(e, IF p.state = "none" THEN p ELSE drain_outbound(start(p)), net)

\* The hook start() left on ICE fails the transport.
IceFailed(e) ==
  LET p == [peer[e] EXCEPT !.ice = "failed"]
  IN  /\ peer[e].ice = "up" /\ Local
      /\ Become(e, IF p.state \in {"none", "New"} THEN p ELSE fail_transport(p), net)

\* Once per peer.
Send(e) ==
  /\ peer[e].state = "Connected" /\ ~peer[e].sent /\ Local
  /\ Become(e, send(peer[e]), net)

\* The other peer is not told.
Close(e) ==
  /\ peer[e].state \notin {"none", "Closed"} /\ Local
  /\ Become(e, [peer[e] EXCEPT !.state = "Closed"], net)

Deliver(d) ==
  /\ d \in net /\ Local
  /\ Become(d.to, pump_inbound(peer[d.to], d.record), net \ {d})

\* Delivered, and still under way.
Repeat(d) ==
  /\ d \in net /\ copies < MaxCopies
  /\ copies' = copies + 1
  /\ Become(d.to, pump_inbound(peer[d.to], d.record), net)
  /\ UNCHANGED <<role, described, lost>>

Lose(d) ==
  /\ d \in net /\ lost < MaxLost
  /\ net' = net \ {d} /\ lost' = lost + 1
  /\ UNCHANGED <<role, described, peer, copies>>

Next ==
  \/ \E e \in End : \/ set_remote_description(e) \/ New(e) \/ set_remote_fingerprint(e) \/ Start(e)
                    \/ IceConnected(e) \/ IceFailed(e) \/ Send(e) \/ Close(e)
  \/ \E d \in net : Deliver(d) \/ Repeat(d) \/ Lose(d)

\* What the network does not lose it delivers.  Nobody has to start, to pin,
\* to connect or to send.
Fairness == \A e \in End, r \in Flight : WF_vars(Deliver(Datagram(e, r)))

Spec == Init /\ [][Next]_vars /\ Fairness

-----------------------------------------------------------------------------
(* Properties                                                              *)

\* Wherever a peer is connected, both have verified the other against the
\* pinned fingerprint, and one of them is the client: whatever was lost,
\* repeated or reordered, and whenever the fingerprints were pinned.
MutualTrust ==
  \A e \in End :
    peer[e].state = "Connected" =>
      /\ peer[e].trusted /\ peer[Other(e)].trusted
      /\ peer[e].is_client # peer[Other(e)].is_client

\* Losses and repetitions alone fail nobody: a peer fails after one of them
\* rejected a certificate, or after its own ICE failed or refused a record.
FailsForCause ==
  \A e \in End :
    peer[e].state = "Failed" =>
      \/ \E x \in End : peer[x].rejected
      \/ peer[e].ice = "failed" \/ peer[e].refused

\* Nothing was lost, on the network or at its edges, and nobody gave up.
Undisturbed ==
  /\ lost = 0
  /\ \A e \in End : /\ ~peer[e].missed /\ ~peer[e].rejected
                    /\ peer[e].state \notin {"Failed", "Closed"}

\* Peers that have both started, in opposite roles, come to be connected,
\* as long as no flight is lost: there is no second try.
Converges ==
  (/\ \A e \in End : peer[e].state \notin {"none", "New"}
   /\ peer["offerer"].is_client # peer["answerer"].is_client)
    ~> (\A e \in End : peer[e].state = "Connected") \/ ~Undisturbed

\* Data sent by the first peer to connect overtakes the flight that connects
\* the other, and is still read.
DataArrives ==
  \A e \in End : peer[e].sent ~> peer[Other(e)].heard \/ ~Undisturbed
=============================================================================

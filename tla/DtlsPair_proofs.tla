---------------------------- MODULE DtlsPair_proofs ----------------------------
(***************************************************************************)
(* Proofs about two peers and the network between them (DtlsPair).         *)
(*                                                                         *)
(* The operators of DtlsPair that a handler is built from take a peer to   *)
(* a peer.  Effect says what each of them may do to one, whatever the      *)
(* datagram; the first half of the module proves it for every operator,    *)
(* the second half proves the invariant of the pair from it.               *)
(***************************************************************************)
EXTENDS DtlsPair, TLAPS

\* An Active end is a client, and so on: every field of a peer's record.
Peer ==
  [state : {"none", "New", "Connecting", "Connected", "Failed", "Closed"},
   is_client : BOOLEAN, pin : {"unset", "match", "mismatch"},
   ice : {"down", "up", "failed"}, ssl : {"idle", "waiting", "finishing", "done", "dead"},
   early : BOOLEAN, out : Seq(Flight), posted : SUBSET Flight,
   error : {"none", "fatal", "ice"},
   trusted : BOOLEAN, rejected : BOOLEAN, refused : BOOLEAN, missed : BOOLEAN,
   sent : BOOLEAN, heard : BOOLEAN]

-----------------------------------------------------------------------------
(* What holds of one peer                                                  *)

\* A record says something of the peer that wrote it.
Vouches(p, record) ==
  /\ record = "finished" => p.is_client /\ p.trusted /\ p.state # "none"
  /\ record = "server finished" => ~p.is_client /\ p.trusted /\ p.state # "none"
  /\ record = "alert" => p.rejected

\* What waits in the BIO, or is on its way, is true of the peer.
Truthful(p) ==
  /\ \A r \in ToSet(p.out) : Vouches(p, r)
  /\ \A r \in p.posted : Vouches(p, r)

\* A handshake goes as far as the verification lets it, a state as far as
\* the handshake.
Ordered(p) ==
  /\ p.ssl \in {"finishing", "done"} => p.trusted
  /\ p.ssl = "finishing" => p.is_client
  /\ p.ssl # "idle" => p.state # "none"
  /\ p.state = "Connected" => p.ssl = "done"

Honest(p) == p \in Peer /\ Truthful(p) /\ Ordered(p)

\* What a step never takes back.
Grows(p, q) ==
  /\ p.trusted => q.trusted
  /\ p.rejected => q.rejected
  /\ p.refused => q.refused
  /\ p.ice = "failed" => q.ice = "failed"
  /\ p.state # "none" => q.state # "none" /\ q.is_client = p.is_client

\* A handshake ends with the other peer's Finished.
Finishes(p, datagram, q) ==
  q.ssl = "done" =>
    \/ p.ssl = "done"
    \/ p.state # "none" /\ datagram = IF p.is_client THEN "server finished" ELSE "finished"

\* What may fail a peer.
Cause(datagram, q) == q.rejected \/ q.refused \/ q.ice = "failed" \/ datagram = "alert"

Blames(p, datagram, q) ==
  /\ q.state = "Failed" => p.state = "Failed" \/ Cause(datagram, q)
  /\ q.error # "none" => p.error # "none" \/ Cause(datagram, q)

\* Peers that differ in what nothing here depends on.
Alike(p, q) ==
  /\ q.state = p.state /\ q.is_client = p.is_client /\ q.ice = p.ice /\ q.ssl = p.ssl
  /\ q.out = p.out /\ q.posted = p.posted /\ q.error = p.error
  /\ q.trusted = p.trusted /\ q.rejected = p.rejected /\ q.refused = p.refused

\* A handler that is given an honest p and the datagram may leave q.
Effect(p, datagram, q) ==
  Honest(q) /\ Grows(p, q) /\ Finishes(p, datagram, q) /\ Blames(p, datagram, q)

-----------------------------------------------------------------------------
(* What holds of the pair                                                  *)

\* Between two steps nothing is on its way inside a peer.
Settled == \A e \in End : peer[e].posted = {} /\ peer[e].error = "none"

\* A finished handshake has a verified peer in the other role at its end.
Met ==
  \A e \in End :
    peer[e].ssl = "done" =>
      /\ peer[Other(e)].trusted /\ peer[Other(e)].state # "none"
      /\ peer[Other(e)].is_client # peer[e].is_client

\* Whatever is under way is true of the peer that sent it.
NetTruthful ==
  \A d \in net :
    /\ d.to \in End /\ d.record \in Flight /\ d = [to |-> d.to, record |-> d.record]
    /\ Vouches(peer[Other(d.to)], d.record)

IInv ==
  /\ peer \in [End -> Peer]
  /\ \A e \in End : Honest(peer[e])
  /\ Settled /\ Met /\ NetTruthful /\ FailsForCause

-----------------------------------------------------------------------------
(* Records and sequences                                                   *)

\* A field at a time: the types of a peer.
LEMMA PeerFields ==
  ASSUME NEW p \in Peer
  PROVE  /\ p.state \in {"none", "New", "Connecting", "Connected", "Failed", "Closed"}
         /\ p.is_client \in BOOLEAN /\ p.pin \in {"unset", "match", "mismatch"}
         /\ p.ice \in {"down", "up", "failed"}
         /\ p.ssl \in {"idle", "waiting", "finishing", "done", "dead"}
         /\ p.early \in BOOLEAN /\ p.out \in Seq(Flight) /\ p.posted \in SUBSET Flight
         /\ p.error \in {"none", "fatal", "ice"}
         /\ p.trusted \in BOOLEAN /\ p.rejected \in BOOLEAN /\ p.refused \in BOOLEAN
         /\ p.missed \in BOOLEAN /\ p.sent \in BOOLEAN /\ p.heard \in BOOLEAN
BY DEF Peer

\* What a BIO holds after a write.
LEMMA ToSetAppend ==
  ASSUME NEW out \in Seq(Flight), NEW r \in Flight
  PROVE  Append(out, r) \in Seq(Flight) /\ ToSet(Append(out, r)) = ToSet(out) \cup {r}
<1> DEFINE more == Append(out, r)
<1>1. /\ more \in Seq(Flight) /\ Len(more) = Len(out) + 1 /\ more[Len(more)] = r
      /\ \A i \in 1 .. Len(out) : more[i] = out[i]
  OBVIOUS
<1>2. ToSet(more) = {more[i] : i \in 1 .. Len(out) + 1}
  BY <1>1 DEF ToSet
<1>3. ToSet(out) = {out[i] : i \in 1 .. Len(out)} /\ Len(out) \in Nat
  BY DEF ToSet
<1> QED
  <2> HIDE DEF more
  <2>1. ToSet(more) \subseteq ToSet(out) \cup {r}
    BY <1>1, <1>2, <1>3
  <2>2. ToSet(out) \cup {r} \subseteq ToSet(more)
    BY <1>1, <1>2, <1>3
  <2>3. Append(out, r) = more
    BY DEF more
  <2> QED
    BY <1>1, <2>1, <2>2, <2>3

\* What it holds after a read.
LEMMA ToSetTail ==
  ASSUME NEW out \in Seq(Flight), out # <<>>
  PROVE  Tail(out) \in Seq(Flight) /\ ToSet(Tail(out)) \subseteq ToSet(out)
BY DEF ToSet

\* It holds flights only.
LEMMA ToSetFlight ==
  ASSUME NEW out \in Seq(Flight)
  PROVE  ToSet(out) \subseteq Flight
BY DEF ToSet

\* Nothing waits in an empty BIO.
LEMMA ToSetEmpty == ToSet(<<>>) = {}
BY DEF ToSet

\* A record stays true of a peer that goes on.
LEMMA VouchesGrows ==
  ASSUME NEW p, NEW q, Grows(p, q), NEW r, Vouches(p, r)
  PROVE  Vouches(q, r)
BY DEF Grows, Vouches

-----------------------------------------------------------------------------
(* What the operators of a handler do to a peer                            *)

\* A handler that changes nothing has no effect.
LEMMA EffectStutters ==
  ASSUME NEW p, Honest(p), NEW d
  PROVE  Effect(p, d, p)
BY DEF Effect, Grows, Finishes, Blames

\* Two operators one after the other, the second without a datagram.
LEMMA EffectThen ==
  ASSUME NEW p, NEW d, NEW q, NEW r, p.state # "none",
         Effect(p, d, q), Effect(q, "none", r)
  PROVE  Effect(p, d, r)
BY DEF Effect, Grows, Finishes, Blames, Cause

\* What a handler may add to the BIO is true of the peer it leaves.
LEMMA Writes ==
  ASSUME NEW p, Honest(p), NEW q, Grows(p, q), q.posted = p.posted,
         \/ q.out = p.out
         \/ \E r \in Flight : q.out = Append(p.out, r) /\ Vouches(q, r)
  PROVE  Truthful(q)
<1>1. p.out \in Seq(Flight)
  BY PeerFields DEF Honest
<1>2. \A r : Vouches(p, r) => Vouches(q, r)
  BY VouchesGrows
<1>3. \A r \in q.posted : Vouches(q, r)
  BY <1>2 DEF Honest, Truthful
<1>4. CASE q.out = p.out
  BY <1>2, <1>3, <1>4 DEF Honest, Truthful
<1>5. CASE \E r \in Flight : q.out = Append(p.out, r) /\ Vouches(q, r)
  <2>1. PICK r \in Flight : q.out = Append(p.out, r) /\ Vouches(q, r)
    BY <1>5
  <2>2. ToSet(q.out) = ToSet(p.out) \cup {r}
    BY <1>1, <2>1, ToSetAppend
  <2> QED
    BY <1>2, <1>3, <2>1, <2>2 DEF Honest, Truthful
<1> QED
  BY <1>4, <1>5

\* Nor has one that changes what nothing depends on.
LEMMA EffectUnseen ==
  ASSUME NEW p, Honest(p), NEW q \in Peer, Alike(p, q), NEW d
  PROVE  Effect(p, d, q)
<1>1. Grows(p, q) /\ Ordered(q) /\ Finishes(p, d, q) /\ Blames(p, d, q)
  BY DEF Alike, Grows, Ordered, Finishes, Blames, Honest
<1>2. Truthful(q)
  BY <1>1, Writes DEF Alike
<1> QED
  BY <1>1, <1>2 DEF Effect, Honest

\* The verify callback lets the handshake go on, or ends it.
LEMMA VerifyEffect ==
  ASSUME NEW p, Honest(p), p.state # "none", NEW d, NEW progress, NEW record,
         \/ p.is_client /\ progress = "finishing" /\ record = "finished"
         \/ ~p.is_client /\ progress = "done" /\ record = "server finished" /\ d = "finished",
         p.state # "Connected"
  PROVE  Effect(p, d, Verify(p, progress, record))
<1> DEFINE q == Verify(p, progress, record)
<1>1. p \in Peer /\ p.out \in Seq(Flight) /\ record \in Flight /\ "alert" \in Flight
  BY PeerFields DEF Honest, Flight
<1>2. Append(p.out, record) \in Seq(Flight) /\ Append(p.out, "alert") \in Seq(Flight)
  BY <1>1, ToSetAppend
<1>3. CASE Verifies(p)
  <2>1. q = [p EXCEPT !.out = Append(@, record), !.ssl = progress, !.trusted = TRUE]
    BY <1>1, <1>3 DEF Verify, Put, Verifies, Peer
  <2> QED
    <3> HIDE DEF q
    <3>1. q \in Peer
      BY <1>1, <1>2, <2>1 DEF Peer
    <3>2. /\ q.out = Append(p.out, record) /\ q.posted = p.posted /\ q.ssl = progress /\ q.trusted
          /\ q.state = p.state /\ q.is_client = p.is_client /\ q.error = p.error
          /\ q.rejected = p.rejected /\ q.refused = p.refused /\ q.ice = p.ice
      BY <1>1, <2>1 DEF Peer
    <3>3. Grows(p, q) /\ Vouches(q, record) /\ Ordered(q) /\ Finishes(p, d, q) /\ Blames(p, d, q)
      BY <3>2 DEF Grows, Vouches, Ordered, Finishes, Blames
    <3>4. Truthful(q)
      BY <1>1, <3>2, <3>3, Writes
    <3> QED
      BY <3>1, <3>3, <3>4 DEF q, Effect, Honest
<1>4. CASE ~Verifies(p)
  <2>1. q = [p EXCEPT !.out = Append(@, "alert"), !.ssl = "dead", !.rejected = TRUE,
                      !.error = "fatal"]
    BY <1>1, <1>4 DEF Verify, Put, Peer
  <2> QED
    <3> HIDE DEF q
    <3>1. q \in Peer
      BY <1>1, <1>2, <2>1 DEF Peer
    <3>2. /\ q.out = Append(p.out, "alert") /\ q.posted = p.posted /\ q.ssl = "dead"
          /\ q.trusted = p.trusted /\ q.state = p.state /\ q.is_client = p.is_client
          /\ q.rejected /\ q.refused = p.refused /\ q.ice = p.ice
      BY <1>1, <2>1 DEF Peer
    <3>3. Grows(p, q) /\ Vouches(q, "alert") /\ Ordered(q) /\ Finishes(p, d, q) /\ Blames(p, d, q)
      BY <3>2 DEF Grows, Vouches, Ordered, Finishes, Blames, Cause
    <3>4. Truthful(q)
      BY <3>2, <3>3, Writes DEF Flight
    <3> QED
      BY <3>1, <3>3, <3>4 DEF q, Effect, Honest
<1> QED
  BY <1>3, <1>4

\* A step that writes one record of no consequence, or none.
LEMMA HarmlessWrite ==
  ASSUME NEW p, Honest(p), NEW r \in Flight, Vouches(p, r), NEW d
  PROVE  Effect(p, d, Put(p, r)) /\ Put(p, r) \in Peer
<1> DEFINE q == Put(p, r)
<1>1. p \in Peer /\ p.out \in Seq(Flight) /\ Append(p.out, r) \in Seq(Flight)
  BY PeerFields DEF Honest
<1>2. q = [p EXCEPT !.out = Append(p.out, r)]
  BY <1>1 DEF Put, Peer
<1> HIDE DEF q
<1>3. q \in Peer
  BY <1>1, <1>2 DEF Peer
<1>4. /\ q.out = Append(p.out, r) /\ q.posted = p.posted /\ q.ssl = p.ssl /\ q.trusted = p.trusted
      /\ q.state = p.state /\ q.is_client = p.is_client /\ q.error = p.error
      /\ q.rejected = p.rejected /\ q.refused = p.refused /\ q.ice = p.ice
  BY <1>1, <1>2 DEF Peer
<1>5. Grows(p, q) /\ Vouches(q, r) /\ Ordered(q) /\ Finishes(p, d, q) /\ Blames(p, d, q)
  BY <1>4 DEF Grows, Vouches, Ordered, Finishes, Blames, Honest
<1>6. Truthful(q)
  BY <1>4, <1>5, Writes
<1> QED
  BY <1>3, <1>5, <1>6 DEF q, Effect, Honest

\* OpenSSL, fed with any datagram or with none.
LEMMA HandshakeEffect ==
  ASSUME NEW p, Honest(p), p.state \notin {"none", "Connected"}, NEW d
  PROVE  Effect(p, d, SSL_do_handshake(p, d))
<1> DEFINE q == SSL_do_handshake(p, d)
<1> SUFFICES Effect(p, d, q)
  OBVIOUS
<1>1. p \in Peer /\ p.out \in Seq(Flight) /\ {"hello", "certificate"} \subseteq Flight
  BY PeerFields DEF Honest, Flight
<1>2. ASSUME NEW r \in {"hello", "certificate"}, p.ssl = "idle",
             q = [Put(p, r) EXCEPT !.ssl = "waiting"]
      PROVE  Effect(p, d, q)
  <2>1. Put(p, r) \in Peer
    BY <1>1, HarmlessWrite DEF Vouches
  <2>2. /\ q \in Peer /\ q.out = Append(p.out, r) /\ q.posted = p.posted /\ q.ssl = "waiting"
        /\ q.trusted = p.trusted /\ q.state = p.state /\ q.is_client = p.is_client
        /\ q.error = p.error /\ q.rejected = p.rejected /\ q.refused = p.refused /\ q.ice = p.ice
    <3> HIDE DEF q
    <3> QED
      BY <1>1, <1>2, <2>1 DEF Put, Peer
  <2> HIDE DEF q
  <2>3. Grows(p, q) /\ Vouches(q, r) /\ Ordered(q) /\ Finishes(p, d, q) /\ Blames(p, d, q)
    BY <1>2, <2>2 DEF Grows, Vouches, Ordered, Finishes, Blames, Honest
  <2>4. Truthful(q)
    BY <1>1, <2>2, <2>3, Writes
  <2> QED
    BY <2>2, <2>3, <2>4 DEF Effect, Honest
<1>3. ASSUME p.ssl = "finishing", p.is_client, d = "server finished", q = [p EXCEPT !.ssl = "done"]
      PROVE  Effect(p, d, q)
  <2> HIDE DEF q
  <2>1. q \in Peer
    BY <1>1, <1>3 DEF Peer
  <2>2. /\ q.out = p.out /\ q.posted = p.posted /\ q.ssl = "done"
        /\ q.trusted = p.trusted /\ q.state = p.state /\ q.is_client = p.is_client
        /\ q.error = p.error /\ q.rejected = p.rejected /\ q.refused = p.refused /\ q.ice = p.ice
    BY <1>1, <1>3 DEF Peer
  <2>3. Grows(p, q) /\ Ordered(q) /\ Finishes(p, d, q) /\ Blames(p, d, q)
    BY <1>3, <2>2 DEF Grows, Ordered, Finishes, Blames, Honest
  <2>4. Truthful(q)
    BY <2>2, <2>3, Writes
  <2> QED
    BY <2>1, <2>3, <2>4 DEF Effect, Honest
<1>4. ASSUME d = "alert", q = [p EXCEPT !.ssl = "dead", !.error = "fatal"]
      PROVE  Effect(p, d, q)
  <2> HIDE DEF q
  <2>1. q \in Peer
    BY <1>1, <1>4 DEF Peer
  <2>2. /\ q.out = p.out /\ q.posted = p.posted /\ q.ssl = "dead"
        /\ q.trusted = p.trusted /\ q.state = p.state /\ q.is_client = p.is_client
        /\ q.rejected = p.rejected /\ q.refused = p.refused /\ q.ice = p.ice
    BY <1>1, <1>4 DEF Peer
  <2>3. Grows(p, q) /\ Finishes(p, d, q) /\ Blames(p, d, q)
    BY <1>4, <2>2 DEF Grows, Finishes, Blames, Cause
  <2>4. Truthful(q) /\ Ordered(q)
    BY <2>2, <2>3, Writes DEF Ordered
  <2> QED
    BY <2>1, <2>3, <2>4 DEF Effect, Honest
<1>5. CASE q = [p EXCEPT !.early = TRUE]
  <2> HIDE DEF q
  <2>1. q \in Peer /\ Alike(p, q)
    BY <1>1, <1>5 DEF Peer, Alike
  <2> QED
    BY <2>1, EffectUnseen
<1>6. \/ q = [Put(p, "hello") EXCEPT !.ssl = "waiting"] /\ p.ssl = "idle"
      \/ q = [Put(p, "certificate") EXCEPT !.ssl = "waiting"] /\ p.ssl = "idle"
      \/ q = Verify(p, "finishing", "finished") /\ p.is_client /\ p.ssl = "waiting"
      \/ /\ q = Verify(p, "done", "server finished") /\ ~p.is_client /\ p.ssl = "waiting"
         /\ d = "finished"
      \/ /\ q = [p EXCEPT !.ssl = "done"] /\ p.is_client /\ p.ssl = "finishing"
         /\ d = "server finished"
      \/ q = [p EXCEPT !.ssl = "dead", !.error = "fatal"] /\ d = "alert"
      \/ q = [p EXCEPT !.early = TRUE]
      \/ q = p
  BY DEF SSL_do_handshake
<1>7. CASE q = Verify(p, "finishing", "finished") /\ p.is_client /\ p.ssl = "waiting"
  BY <1>7, VerifyEffect
<1>8. CASE /\ q = Verify(p, "done", "server finished") /\ ~p.is_client /\ p.ssl = "waiting"
           /\ d = "finished"
  BY <1>8, VerifyEffect
<1>9. CASE q = p
  BY <1>9, EffectStutters
<1> HIDE DEF q
<1> QED
  BY <1>2, <1>3, <1>4, <1>5, <1>6, <1>7, <1>8, <1>9

\* Reading decrypted data; a server may repeat its last flight.
LEMMA ReadEffect ==
  ASSUME NEW p, Honest(p), p.state # "none", NEW d
  PROVE  Effect(p, d, SSL_read(p, d))
<1> DEFINE q == SSL_read(p, d)
<1> SUFFICES Effect(p, d, q)
  OBVIOUS
<1>1. p \in Peer
  BY DEF Honest
<1>2. \/ q = [p EXCEPT !.heard = TRUE, !.early = FALSE]
      \/ q = Put(p, "server finished") /\ ~p.is_client /\ p.state = "Connected"
      \/ q = p
  BY DEF SSL_read
<1>3. CASE q = [p EXCEPT !.heard = TRUE, !.early = FALSE]
  <2> HIDE DEF q
  <2>1. q \in Peer /\ Alike(p, q)
    BY <1>1, <1>3 DEF Peer, Alike
  <2> QED
    BY <2>1, EffectUnseen
<1>4. CASE q = Put(p, "server finished") /\ ~p.is_client /\ p.state = "Connected"
  <2>1. Vouches(p, "server finished") /\ "server finished" \in Flight
    BY <1>4 DEF Vouches, Honest, Ordered, Flight
  <2> QED
    BY <1>4, <2>1, HarmlessWrite
<1>5. CASE q = p
  BY <1>5, EffectStutters
<1> QED
  BY <1>2, <1>3, <1>4, <1>5

\* What is written is posted, or ICE refuses it.
LEMMA DrainEffect ==
  ASSUME NEW p, Honest(p), p.state # "none", NEW d
  PROVE  /\ Effect(p, d, drain_outbound(p))
         /\ drain_outbound(p).state = p.state /\ drain_outbound(p).ice = p.ice
<1> DEFINE q == drain_outbound(p)
<1> SUFFICES Effect(p, d, q) /\ q.state = p.state /\ q.ice = p.ice
  OBVIOUS
<1>1. p \in Peer /\ p.out \in Seq(Flight) /\ p.posted \in SUBSET Flight
  BY PeerFields DEF Honest
<1>2. CASE p.out = <<>> \/ p.ice = "up"
  <2>1. q = [p EXCEPT !.posted = p.posted \cup ToSet(p.out), !.out = <<>>]
    BY <1>1, <1>2 DEF drain_outbound, Peer
  <2>2. p.posted \cup ToSet(p.out) \subseteq Flight /\ <<>> \in Seq(Flight)
    BY <1>1, ToSetFlight
  <2> HIDE DEF q
  <2>3. q \in Peer
    BY <1>1, <2>1, <2>2 DEF Peer
  <2>4. /\ q.out = <<>> /\ q.posted = p.posted \cup ToSet(p.out) /\ q.ssl = p.ssl
        /\ q.trusted = p.trusted /\ q.state = p.state /\ q.is_client = p.is_client
        /\ q.error = p.error /\ q.rejected = p.rejected /\ q.refused = p.refused /\ q.ice = p.ice
    BY <1>1, <2>1 DEF Peer
  <2>5. Grows(p, q) /\ Ordered(q) /\ Finishes(p, d, q) /\ Blames(p, d, q)
    BY <2>4 DEF Grows, Ordered, Finishes, Blames, Honest
  <2>6. Truthful(q)
    BY <2>4, <2>5, VouchesGrows, ToSetEmpty DEF Honest, Truthful
  <2> QED
    BY <2>3, <2>4, <2>5, <2>6 DEF Effect, Honest
<1>3. CASE ~(p.out = <<>> \/ p.ice = "up")
  <2>1. q = [p EXCEPT !.out = Tail(p.out), !.refused = TRUE, !.missed = TRUE, !.error = "ice"]
    BY <1>1, <1>3 DEF drain_outbound, Peer
  <2>2. Tail(p.out) \in Seq(Flight) /\ ToSet(Tail(p.out)) \subseteq ToSet(p.out)
    BY <1>1, <1>3, ToSetTail
  <2> HIDE DEF q
  <2>3. q \in Peer
    BY <1>1, <2>1, <2>2 DEF Peer
  <2>4. /\ q.out = Tail(p.out) /\ q.posted = p.posted /\ q.ssl = p.ssl
        /\ q.trusted = p.trusted /\ q.state = p.state /\ q.is_client = p.is_client
        /\ q.rejected = p.rejected /\ q.refused /\ q.ice = p.ice
    BY <1>1, <2>1 DEF Peer
  <2>5. Grows(p, q) /\ Ordered(q) /\ Finishes(p, d, q) /\ Blames(p, d, q)
    BY <2>4 DEF Grows, Ordered, Finishes, Blames, Cause, Honest
  <2>6. Truthful(q)
    BY <2>2, <2>4, <2>5, VouchesGrows DEF Honest, Truthful
  <2> QED
    BY <2>3, <2>4, <2>5, <2>6 DEF Effect, Honest
<1> QED
  BY <1>2, <1>3

\* A step of the handshake, and what it writes.
LEMMA DriveEffect ==
  ASSUME NEW p, Honest(p), p.state \notin {"none", "Connected"}, NEW d
  PROVE  Effect(p, d, drive_handshake(p, d)) /\ drive_handshake(p, d).state # "none"
<1> DEFINE q == SSL_do_handshake(p, d)
           r == drain_outbound(q)
           s == drive_handshake(p, d)
<1>1. Effect(p, d, q) /\ Honest(q) /\ q.state # "none"
  BY HandshakeEffect DEF Effect, Grows
<1>2. Effect(q, "none", r) /\ Effect(p, d, r) /\ r.state # "none"
  BY <1>1, DrainEffect, EffectThen
<1>3. CASE r.error = "none" /\ r.ssl = "done"
  <2>1. s = [r EXCEPT !.state = "Connected"]
    BY <1>3 DEF drive_handshake
  <2>2. r \in Peer
    BY <1>2 DEF Effect, Honest
  <2> HIDE DEF q, r, s
  <2>3. s \in Peer
    BY <2>1, <2>2 DEF Peer
  <2>4. /\ s.state = "Connected" /\ s.out = r.out /\ s.posted = r.posted /\ s.ssl = r.ssl
        /\ s.trusted = r.trusted /\ s.is_client = r.is_client /\ s.error = r.error
        /\ s.rejected = r.rejected /\ s.refused = r.refused /\ s.ice = r.ice
    BY <2>1, <2>2 DEF Peer
  <2>5. Grows(r, s) /\ Ordered(s) /\ Finishes(r, "none", s) /\ Blames(r, "none", s)
    BY <1>2, <1>3, <2>4 DEF Grows, Ordered, Finishes, Blames, Effect, Honest
  <2>6. Truthful(s)
    BY <1>2, <2>4, <2>5, Writes DEF Effect
  <2>7. Effect(r, "none", s)
    BY <2>3, <2>5, <2>6 DEF Effect, Honest
  <2>8. Effect(p, d, s) /\ s.state # "none"
    BY <1>2, <2>4, <2>7, EffectThen
  <2> QED
    BY <2>8 DEF s
<1>4. CASE ~(r.error = "none" /\ r.ssl = "done")
  <2>1. s = r
    BY <1>4 DEF drive_handshake
  <2> QED
    BY <1>2, <2>1
<1> QED
  BY <1>3, <1>4

\* A transport fails for the cause its caller saw.
LEMMA FailEffect ==
  ASSUME NEW p, Honest(p), p.state # "none", NEW d, Cause(d, p)
  PROVE  Effect(p, d, fail_transport(p))
<1> DEFINE q == fail_transport(p)
<1> SUFFICES Effect(p, d, q)
  OBVIOUS
<1>1. CASE p.state \in {"Failed", "Closed"}
  <2>1. q = p
    BY <1>1 DEF fail_transport
  <2> QED
    BY <2>1, EffectStutters
<1>2. CASE p.state \notin {"Failed", "Closed"}
  <2>1. q = [p EXCEPT !.state = "Failed"] /\ p \in Peer
    BY <1>2 DEF fail_transport, Honest
  <2> HIDE DEF q
  <2>2. q \in Peer
    BY <2>1 DEF Peer
  <2>3. /\ q.state = "Failed" /\ q.out = p.out /\ q.posted = p.posted /\ q.ssl = p.ssl
        /\ q.trusted = p.trusted /\ q.is_client = p.is_client /\ q.error = p.error
        /\ q.rejected = p.rejected /\ q.refused = p.refused /\ q.ice = p.ice
    BY <2>1 DEF Peer
  <2>4. Grows(p, q) /\ Ordered(q) /\ Finishes(p, d, q) /\ Blames(p, d, q)
    BY <2>3 DEF Grows, Ordered, Finishes, Blames, Cause, Honest
  <2>5. Truthful(q)
    BY <2>3, <2>4, Writes
  <2> QED
    BY <2>2, <2>4, <2>5 DEF Effect, Honest
<1> QED
  BY <1>1, <1>2

\* start() forgives what the first flight meets.
LEMMA StartEffect ==
  ASSUME NEW p, Honest(p), p.state # "none"
  PROVE  Effect(p, "none", start(p)) /\ start(p).state # "none"
<1> DEFINE q == [p EXCEPT !.state = "Connecting"]
           s == drive_handshake(q, "none")
           r == [s EXCEPT !.error = "none"]
<1>1. CASE p.state = "New"
  <2>1. p \in Peer
    BY DEF Honest
  <2>2. q \in Peer
    BY <2>1 DEF Peer
  <2>3. /\ q.state = "Connecting" /\ q.out = p.out /\ q.posted = p.posted /\ q.ssl = p.ssl
        /\ q.trusted = p.trusted /\ q.is_client = p.is_client /\ q.error = p.error
        /\ q.rejected = p.rejected /\ q.refused = p.refused /\ q.ice = p.ice
    BY <2>1 DEF Peer
  <2>4. start(p) = IF p.is_client THEN r ELSE q
    BY <1>1 DEF start
  <2> HIDE DEF q
  <2>5. Grows(p, q) /\ Ordered(q) /\ Finishes(p, "none", q) /\ Blames(p, "none", q)
    BY <2>3 DEF Grows, Ordered, Finishes, Blames, Honest
  <2>6. Truthful(q)
    BY <2>3, <2>5, Writes
  <2>7. Effect(p, "none", q) /\ Honest(q)
    BY <2>2, <2>5, <2>6 DEF Effect, Honest
  <2>8. Effect(q, "none", s) /\ s.state # "none"
    BY <2>3, <2>7, DriveEffect
  <2>9. Honest(s) /\ s \in Peer
    BY <2>8 DEF Effect, Honest
  <2> HIDE DEF s
  <2>10. /\ r \in Peer /\ r.state = s.state /\ r.out = s.out /\ r.posted = s.posted
         /\ r.ssl = s.ssl /\ r.trusted = s.trusted /\ r.is_client = s.is_client
         /\ r.error = "none" /\ r.rejected = s.rejected /\ r.refused = s.refused
         /\ r.ice = s.ice
    BY <2>9 DEF Peer
  <2> HIDE DEF r
  <2>11. Grows(s, r) /\ Ordered(r) /\ Finishes(s, "none", r) /\ Blames(s, "none", r)
    BY <2>9, <2>10 DEF Grows, Ordered, Finishes, Blames, Honest
  <2>12. Truthful(r)
    BY <2>9, <2>10, <2>11, Writes
  <2>13. Effect(s, "none", r)
    BY <2>10, <2>11, <2>12 DEF Effect, Honest
  <2>14. Effect(p, "none", s)
    BY <2>7, <2>8, EffectThen
  <2>15. Effect(p, "none", r)
    BY <2>13, <2>14, EffectThen
  <2> QED
    BY <2>3, <2>4, <2>7, <2>8, <2>10, <2>15
<1>2. CASE p.state # "New"
  <2>1. start(p) = p
    BY <1>2 DEF start
  <2> QED
    BY <2>1, EffectStutters
<1> QED
  BY <1>1, <1>2

\* A datagram, from the shim to the last byte read.
LEMMA PumpEffect ==
  ASSUME NEW p, Honest(p), p.error = "none", NEW d
  PROVE  Effect(p, d, pump_inbound(p, d))
<1> DEFINE q == drive_handshake(p, d)
           r == pump_inbound(p, d)
<1> SUFFICES Effect(p, d, r)
  OBVIOUS
<1>1. CASE p.state = "Connecting"
  <2>1. Effect(p, d, q) /\ q.state # "none" /\ Honest(q)
    BY <1>1, DriveEffect DEF Effect
  <2>2. CASE q.error # "none"
    <3>1. r = fail_transport(q)
      BY <1>1, <2>2 DEF pump_inbound
    <3>2. Cause(d, q)
      BY <2>1, <2>2 DEF Effect, Blames
    <3>3. Effect(q, d, r) /\ r.state \in {q.state, "Failed"}
      BY <2>1, <3>1, <3>2, FailEffect DEF fail_transport, Honest, Peer
    <3>4. Grows(p, r) /\ Finishes(p, d, r) /\ Blames(p, d, r)
      BY <1>1, <2>1, <3>2, <3>3 DEF Effect, Grows, Finishes, Blames, Cause
    <3> QED
      BY <3>3, <3>4 DEF Effect
  <2>3. CASE q.error = "none" /\ q.state = "Connected"
    <3>1. r = SSL_read(q, "none")
      BY <1>1, <2>3 DEF pump_inbound
    <3>2. Effect(q, "none", r)
      BY <2>1, <3>1, ReadEffect
    <3> QED
      BY <1>1, <2>1, <3>2, EffectThen
  <2>4. CASE q.error = "none" /\ q.state # "Connected"
    <3>1. r = q
      BY <1>1, <2>4 DEF pump_inbound
    <3> QED
      BY <2>1, <3>1
  <2> QED
    BY <2>2, <2>3, <2>4
<1>2. CASE p.state = "Connected"
  <2>1. r = SSL_read(p, d)
    BY <1>2 DEF pump_inbound
  <2> QED
    BY <1>2, <2>1, ReadEffect
<1>3. CASE p.state \notin {"Connecting", "Connected"}
  <2>1. r = [p EXCEPT !.missed = TRUE] /\ p \in Peer
    BY <1>3 DEF pump_inbound, Honest
  <2> HIDE DEF r
  <2>2. r \in Peer /\ Alike(p, r)
    BY <2>1 DEF Peer, Alike
  <2> QED
    BY <2>2, EffectUnseen
<1> QED
  BY <1>1, <1>2, <1>3

\* The application's data.
LEMMA SendEffect ==
  ASSUME NEW p, Honest(p), p.state # "none"
  PROVE  Effect(p, "none", send(p))
<1> DEFINE q == [p EXCEPT !.sent = TRUE]
           r == Put(q, "data")
<1>1. q \in Peer /\ Alike(p, q) /\ "data" \in Flight
  BY DEF Honest, Peer, Alike, Flight
<1>2. Effect(p, "none", q) /\ Honest(q) /\ q.state # "none"
  BY <1>1, EffectUnseen DEF Effect, Alike
<1> HIDE DEF q
<1>3. Effect(q, "none", r)
  BY <1>1, <1>2, HarmlessWrite DEF Vouches
<1>4. Honest(r) /\ r.state # "none"
  BY <1>2, <1>3 DEF Effect, Grows
<1>5. Effect(r, "none", drain_outbound(r))
  BY <1>4, DrainEffect
<1>6. Effect(p, "none", r)
  BY <1>2, <1>3, EffectThen
<1>7. Effect(p, "none", drain_outbound(r))
  BY <1>5, <1>6, EffectThen
<1> QED
  BY <1>7 DEF send, q

-----------------------------------------------------------------------------
(* The invariant of the pair                                               *)

\* There are two ends.
LEMMA TwoEnds ==
  ASSUME NEW e \in End
  PROVE  /\ Other(e) \in End /\ Other(e) # e /\ Other(Other(e)) = e
         /\ \A f \in End : f = e \/ f = Other(e)
BY DEF End, Other

\* Whatever its handler does, an end becomes a peer that keeps the invariant:
\* it acts on a datagram the other one vouches for, or on its own.
LEMMA BecomeKeeps ==
  ASSUME IInv, NEW e \in End, NEW d, d = "none" \/ Vouches(peer[Other(e)], d),
         NEW q, Effect(peer[e], d, q), NEW rest, rest \subseteq net, Become(e, q, rest)
  PROVE  IInv'
<1> DEFINE x == Other(e)
           p == peer[e]
           new == [q EXCEPT !.posted = {}, !.error = "none"]
<1>1. /\ x \in End /\ x # e /\ Other(x) = e /\ Other(e) = x
      /\ \A f \in End : f = e \/ f = x
  BY TwoEnds
<1>2. /\ peer \in [End -> Peer] /\ Honest(p) /\ Honest(peer[x]) /\ Honest(q) /\ q \in Peer
      /\ Grows(p, q) /\ Finishes(p, d, q) /\ Blames(p, d, q)
  BY <1>1 DEF IInv, Effect, Honest
<1>3. /\ new \in Peer /\ new.posted = {} /\ new.error = "none"
      /\ new.state = q.state /\ new.out = q.out /\ new.ssl = q.ssl
      /\ new.trusted = q.trusted /\ new.is_client = q.is_client
      /\ new.rejected = q.rejected /\ new.refused = q.refused /\ new.ice = q.ice
  <2> HIDE DEF p
  <2> QED
    BY <1>2 DEF Peer
<1>4. peer' = [peer EXCEPT ![e] = new] /\ net' = rest \cup {Datagram(e, r) : r \in q.posted}
  BY DEF Become
<1> HIDE DEF new, x
<1>5. peer' \in [End -> Peer] /\ peer'[e] = new /\ peer'[x] = peer[x]
  <2> HIDE DEF p
  <2> QED
    BY <1>1, <1>2, <1>3, <1>4
<1>6. Grows(p, new) /\ Grows(q, new) /\ Ordered(new)
  BY <1>2, <1>3 DEF Grows, Ordered, Honest
<1>7. Honest(new)
  BY <1>2, <1>3, <1>6, VouchesGrows DEF Honest, Truthful
<1>8. \A f \in End : Grows(peer[f], peer'[f])
  BY <1>1, <1>5, <1>6 DEF Grows
<1>9. \A f \in End : Honest(peer'[f])
  BY <1>1, <1>2, <1>5, <1>7
<1>10. Settled'
  BY <1>1, <1>3, <1>5 DEF Settled, IInv
<1>11. Met'
  <2>1. ASSUME peer'[e].ssl = "done"
        PROVE  /\ peer'[x].trusted /\ peer'[x].state # "none"
               /\ peer'[x].is_client # peer'[e].is_client
    <3>1. p.state # "none" /\ new.ssl = "done" /\ q.ssl = "done"
      BY <1>2, <1>3, <1>5, <2>1 DEF Finishes, Honest, Ordered
    <3>2. new.is_client = p.is_client
      BY <1>6, <3>1 DEF Grows
    <3>3. CASE p.ssl = "done"
      BY <1>1, <1>5, <3>2, <3>3 DEF IInv, Met
    <3>4. CASE d = IF p.is_client THEN "server finished" ELSE "finished"
      <4>1. p.is_client \in BOOLEAN /\ peer[x].is_client \in BOOLEAN
        BY <1>2, PeerFields DEF Honest
      <4>2. /\ peer[x].trusted /\ peer[x].state # "none"
            /\ peer[x].is_client = ~p.is_client
        BY <1>1, <3>4, <4>1 DEF Vouches
      <4> QED
        BY <1>5, <3>2, <4>1, <4>2
    <3> QED
      BY <1>2, <3>1, <3>3, <3>4 DEF Finishes
  <2>2. ASSUME peer'[x].ssl = "done"
        PROVE  /\ peer'[e].trusted /\ peer'[e].state # "none"
               /\ peer'[e].is_client # peer'[x].is_client
    BY <1>1, <1>5, <1>6, <2>2 DEF IInv, Met, Grows
  <2> QED
    BY <1>1, <2>1, <2>2 DEF Met
<1>12. NetTruthful'
  <2>1. ASSUME NEW m \in rest
        PROVE  /\ m.to \in End /\ m.record \in Flight /\ m = [to |-> m.to, record |-> m.record]
               /\ Vouches(peer'[Other(m.to)], m.record)
    BY <1>8, TwoEnds, VouchesGrows DEF IInv, NetTruthful
  <2>2. ASSUME NEW r \in q.posted
        PROVE  LET m == Datagram(e, r)
               IN  /\ m.to \in End /\ m.record \in Flight /\ m = [to |-> m.to, record |-> m.record]
                   /\ Vouches(peer'[Other(m.to)], m.record)
    <3>1. r \in Flight /\ Vouches(q, r)
      BY <1>2, PeerFields DEF Honest, Truthful
    <3>2. Vouches(peer'[e], r)
      BY <1>5, <1>6, <3>1, VouchesGrows
    <3> QED
      BY <1>1, <3>1, <3>2 DEF Datagram
  <2> QED
    BY <1>4, <2>1, <2>2 DEF NetTruthful
<1>13. FailsForCause'
  <2>1. \A f \in End : peer[f].rejected => peer'[f].rejected
    BY <1>8 DEF Grows
  <2>2. ASSUME peer'[e].state = "Failed"
        PROVE  (\E f \in End : peer'[f].rejected) \/ peer'[e].ice = "failed" \/ peer'[e].refused
    <3>1. CASE p.state = "Failed"
      BY <1>8, <2>1, <3>1 DEF IInv, FailsForCause, Grows
    <3>2. CASE Cause(d, q)
      BY <1>1, <1>3, <1>5, <2>1, <3>2 DEF Cause, Vouches
    <3> QED
      BY <1>2, <1>3, <1>5, <2>2, <3>1, <3>2 DEF Blames
  <2>3. ASSUME peer'[x].state = "Failed"
        PROVE  (\E f \in End : peer'[f].rejected) \/ peer'[x].ice = "failed" \/ peer'[x].refused
    BY <1>1, <1>5, <2>1, <2>3 DEF IInv, FailsForCause
  <2> QED
    BY <1>1, <2>2, <2>3 DEF FailsForCause
<1> QED
  BY <1>5, <1>9, <1>10, <1>11, <1>12, <1>13 DEF IInv

-----------------------------------------------------------------------------
(* The theorems                                                            *)

\* The two ends before anything has happened.
LEMMA InitHolds == Init => IInv
<1> SUFFICES ASSUME Init PROVE IInv
  OBVIOUS
<1>1. \A e \in End : peer[e] = NoTransport
  BY DEF Init
<1>2. NoTransport \in Peer
  <2>1. <<>> \in Seq(Flight) /\ {} \in SUBSET Flight
    OBVIOUS
  <2> QED
    BY <2>1 DEF NoTransport, Peer
<1>3. Honest(NoTransport)
  BY <1>2, ToSetEmpty DEF Honest, Truthful, Ordered, NoTransport
<1>4. peer \in [End -> Peer]
  BY <1>2 DEF Init
<1>5. Settled /\ Met /\ FailsForCause
  BY <1>1 DEF Settled, Met, FailsForCause, NoTransport
<1>6. NetTruthful
  BY DEF Init, NetTruthful
<1> QED
  BY <1>1, <1>3, <1>4, <1>5, <1>6 DEF IInv

\* One step of anything keeps the invariant.
LEMMA StepHolds == IInv /\ [Next]_vars => IInv'
<1> SUFFICES ASSUME IInv, [Next]_vars PROVE IInv'
  OBVIOUS
<1>1. ASSUME NEW e \in End
      PROVE  /\ Other(e) \in End /\ peer[e] \in Peer /\ Honest(peer[e]) /\ peer[e].error = "none"
  BY TwoEnds DEF IInv, Settled, Honest
<1>2. ASSUME NEW e \in End, NEW q, Effect(peer[e], "none", q), Become(e, q, net)
      PROVE  IInv'
  BY <1>2, BecomeKeeps
<1>3. ASSUME UNCHANGED peer, net' \subseteq net
      PROVE  IInv'
  BY <1>3 DEF IInv, Settled, Met, NetTruthful, FailsForCause
<1>4. ASSUME NEW e \in End, set_remote_description(e)
      PROVE  IInv'
  BY <1>3, <1>4 DEF set_remote_description
<1>5. ASSUME NEW e \in End, New(e)
      PROVE  IInv'
  <2> DEFINE p == peer[e]
             q == [p EXCEPT !.state = "New", !.is_client = role[e] = "Active"]
  <2>1. p \in Peer /\ Honest(p) /\ p.state = "none"
    BY <1>1, <1>5 DEF New
  <2> HIDE DEF p
  <2>2. /\ q \in Peer /\ q.state = "New" /\ q.out = p.out /\ q.posted = p.posted
        /\ q.ssl = p.ssl /\ q.trusted = p.trusted /\ q.error = p.error
        /\ q.rejected = p.rejected /\ q.refused = p.refused /\ q.ice = p.ice
    BY <2>1 DEF Peer
  <2> HIDE DEF q
  <2>3. Grows(p, q) /\ Ordered(q) /\ Finishes(p, "none", q) /\ Blames(p, "none", q)
    BY <2>1, <2>2 DEF Grows, Ordered, Finishes, Blames, Honest
  <2>4. Truthful(q)
    BY <2>1, <2>2, <2>3, Writes
  <2>5. Effect(p, "none", q)
    BY <2>2, <2>3, <2>4 DEF Effect, Honest
  <2> QED
    BY <1>2, <1>5, <2>5 DEF New, p, q
<1>6. ASSUME NEW e \in End, set_remote_fingerprint(e)
      PROVE  IInv'
  <2> DEFINE p == peer[e]
             q(f) == [p EXCEPT !.pin = f]
  <2>1. PICK f \in Fingerprint : Become(e, q(f), net)
    BY <1>6 DEF set_remote_fingerprint
  <2>2. p \in Peer /\ Honest(p) /\ f \in {"match", "mismatch"}
    BY <1>1, PairAssumption
  <2>3. q(f) \in Peer /\ Alike(p, q(f))
    <3> HIDE DEF p
    <3> QED
      BY <2>2 DEF Peer, Alike
  <2> HIDE DEF q
  <2>4. Effect(p, "none", q(f))
    BY <2>2, <2>3, EffectUnseen
  <2> QED
    BY <1>2, <2>1, <2>4
<1>7. ASSUME NEW e \in End, Start(e)
      PROVE  IInv'
  <2>1. Effect(peer[e], "none", start(peer[e]))
    BY <1>1, <1>7, StartEffect DEF Start
  <2> QED
    BY <1>2, <1>7, <2>1 DEF Start
<1>8. ASSUME NEW e \in End, IceConnected(e)
      PROVE  IInv'
  <2> DEFINE o == peer[e]
             p == [o EXCEPT !.ice = "up"]
             q == IF p.state = "none" THEN p ELSE drain_outbound(start(p))
  <2>1. o \in Peer /\ Honest(o) /\ o.ice = "down" /\ Become(e, q, net)
    BY <1>1, <1>8 DEF IceConnected
  <2> HIDE DEF o
  <2>2. /\ p \in Peer /\ p.state = o.state /\ p.is_client = o.is_client /\ p.out = o.out
        /\ p.posted = o.posted /\ p.ssl = o.ssl /\ p.trusted = o.trusted /\ p.error = o.error
        /\ p.rejected = o.rejected /\ p.refused = o.refused /\ p.ice = "up"
    BY <2>1 DEF Peer
  <2> HIDE DEF p
  <2>3. Grows(o, p) /\ Ordered(p) /\ Finishes(o, "none", p) /\ Blames(o, "none", p)
    BY <2>1, <2>2 DEF Grows, Ordered, Finishes, Blames, Honest
  <2>4. Truthful(p)
    BY <2>1, <2>2, <2>3, Writes
  <2>5. Effect(o, "none", p) /\ Honest(p)
    BY <2>2, <2>3, <2>4 DEF Effect, Honest
  <2>6. CASE p.state = "none"
    BY <1>2, <2>1, <2>5, <2>6 DEF o
  <2>7. CASE p.state # "none"
    <3>1. Effect(p, "none", start(p)) /\ start(p).state # "none" /\ Honest(start(p))
      BY <2>5, <2>7, StartEffect DEF Effect
    <3>2. Effect(start(p), "none", drain_outbound(start(p)))
      BY <3>1, DrainEffect
    <3>3. Effect(o, "none", drain_outbound(start(p)))
      BY <2>2, <2>5, <2>7, <3>1, <3>2, EffectThen
    <3> QED
      BY <1>2, <2>1, <2>7, <3>3 DEF o
  <2> QED
    BY <2>6, <2>7
<1>9. ASSUME NEW e \in End, IceFailed(e)
      PROVE  IInv'
  <2> DEFINE o == peer[e]
             p == [o EXCEPT !.ice = "failed"]
             q == IF p.state \in {"none", "New"} THEN p ELSE fail_transport(p)
  <2>1. o \in Peer /\ Honest(o) /\ Become(e, q, net)
    BY <1>1, <1>9 DEF IceFailed
  <2> HIDE DEF o
  <2>2. /\ p \in Peer /\ p.state = o.state /\ p.is_client = o.is_client /\ p.out = o.out
        /\ p.posted = o.posted /\ p.ssl = o.ssl /\ p.trusted = o.trusted /\ p.error = o.error
        /\ p.rejected = o.rejected /\ p.refused = o.refused /\ p.ice = "failed"
    BY <2>1 DEF Peer
  <2> HIDE DEF p
  <2>3. Grows(o, p) /\ Ordered(p) /\ Finishes(o, "none", p) /\ Blames(o, "none", p)
    BY <2>1, <2>2 DEF Grows, Ordered, Finishes, Blames, Cause, Honest
  <2>4. Truthful(p)
    BY <2>1, <2>2, <2>3, Writes
  <2>5. Effect(o, "none", p) /\ Honest(p)
    BY <2>2, <2>3, <2>4 DEF Effect, Honest
  <2>6. CASE p.state \in {"none", "New"}
    BY <1>2, <2>1, <2>5, <2>6 DEF o
  <2>7. CASE p.state \notin {"none", "New"}
    <3>1. Effect(p, "none", fail_transport(p))
      BY <2>2, <2>5, <2>7, FailEffect DEF Cause
    <3>2. Effect(o, "none", fail_transport(p))
      BY <2>2, <2>5, <2>7, <3>1, EffectThen
    <3> QED
      BY <1>2, <2>1, <2>7, <3>2 DEF o
  <2> QED
    BY <2>6, <2>7
<1>10. ASSUME NEW e \in End, Send(e)
       PROVE  IInv'
  <2>1. Effect(peer[e], "none", send(peer[e]))
    BY <1>1, <1>10, SendEffect DEF Send
  <2> QED
    BY <1>2, <1>10, <2>1 DEF Send
<1>11. ASSUME NEW e \in End, Close(e)
       PROVE  IInv'
  <2> DEFINE p == peer[e]
             q == [p EXCEPT !.state = "Closed"]
  <2>1. p \in Peer /\ Honest(p) /\ p.state # "none" /\ Become(e, q, net)
    BY <1>1, <1>11 DEF Close
  <2> HIDE DEF p
  <2>2. /\ q \in Peer /\ q.state = "Closed" /\ q.is_client = p.is_client /\ q.out = p.out
        /\ q.posted = p.posted /\ q.ssl = p.ssl /\ q.trusted = p.trusted /\ q.error = p.error
        /\ q.rejected = p.rejected /\ q.refused = p.refused /\ q.ice = p.ice
    BY <2>1 DEF Peer
  <2> HIDE DEF q
  <2>3. Grows(p, q) /\ Ordered(q) /\ Finishes(p, "none", q) /\ Blames(p, "none", q)
    BY <2>1, <2>2 DEF Grows, Ordered, Finishes, Blames, Honest
  <2>4. Truthful(q)
    BY <2>1, <2>2, <2>3, Writes
  <2>5. Effect(p, "none", q)
    BY <2>2, <2>3, <2>4 DEF Effect, Honest
  <2> QED
    BY <1>2, <2>1, <2>5 DEF p
<1>12. ASSUME NEW m \in net, NEW rest, rest \subseteq net,
              Become(m.to, pump_inbound(peer[m.to], m.record), rest)
       PROVE  IInv'
  <2>1. m.to \in End /\ Vouches(peer[Other(m.to)], m.record)
    BY DEF IInv, NetTruthful
  <2>2. Effect(peer[m.to], m.record, pump_inbound(peer[m.to], m.record))
    BY <1>1, <2>1, PumpEffect
  <2> QED
    BY <1>12, <2>1, <2>2, BecomeKeeps
<1>13. ASSUME NEW m \in net, Deliver(m)
       PROVE  IInv'
  BY <1>12, <1>13 DEF Deliver
<1>14. ASSUME NEW m \in net, Repeat(m)
       PROVE  IInv'
  BY <1>12, <1>14 DEF Repeat
<1>15. ASSUME NEW m \in net, Lose(m)
       PROVE  IInv'
  BY <1>3, <1>15 DEF Lose
<1>16. CASE UNCHANGED vars
  BY <1>3, <1>16 DEF vars
<1> QED
  BY <1>4, <1>5, <1>6, <1>7, <1>8, <1>9, <1>10, <1>11, <1>13, <1>14, <1>15, <1>16 DEF Next

\* Whatever the roles and the fingerprints, and however many datagrams are
\* lost, repeated or reordered: what a peer has come to, and what is under
\* way, is true of the other peer.
THEOREM Invariant == Spec => []IInv
BY InitHolds, StepHolds, PTL DEF Spec

\* dtls_transport.rs:634-684 verifies before the handshake goes on, so a peer
\* that set_state(Connected) (778-817) made Connected, and its peer, have both
\* verified the other's certificate, and one of them is the client.
THEOREM TrustIsMutual == Spec => []MutualTrust
<1>1. IInv => MutualTrust
  BY DEF IInv, Honest, Ordered, Met, MutualTrust
<1> QED
  BY <1>1, Invariant, PTL

\* dtls_transport.rs:738-776 and 477-490 fail a transport: never because of
\* the network alone.
THEOREM NoFailureWithoutCause == Spec => []FailsForCause
<1>1. IInv => FailsForCause
  BY DEF IInv
<1> QED
  BY <1>1, Invariant, PTL
=============================================================================

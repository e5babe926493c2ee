---------------------------- MODULE DtlsTransport ----------------------------
(***************************************************************************)
(* src/dtls_transport.rs: the DTLS layer.  OpenSSL and its two memory BIOs *)
(* sit behind one non-reentrant mutex (inner); closed, started, state and  *)
(* the callbacks are cells of their own.  Every access is an action.       *)
(*                                                                         *)
(* The environment is the ICE layer, seen through its callbacks and its    *)
(* send(): it comes up on the driver task, fails there, is closed by an    *)
(* application thread, and hands datagrams over on the driver task.        *)
(* OpenSSL is external: ssl is how far the handshake got, and each call    *)
(* may do what OpenSSL may do with the records it has been fed.            *)
(***************************************************************************)
EXTENDS Naturals

CONSTANTS User,         \* application threads
          driver,       \* the libjuice driver task
          Calls,        \* Calls[u]: the operations user u may call
          Listener,     \* callback sets
          Fingerprint,  \* what may be pinned: "match", "mismatch"
          Transient,    \* may ice.send() fail although ICE is connected?
          BioRecords    \* bound on the records a memory BIO holds

Thread == User \cup {driver}
nobody == "nobody"

Op == {"start", "send", "close", "ice close", "fingerprint", "set_callbacks"}
DtlsState == {"New", "Connecting", "Connected", "Failed", "Closed"}

ASSUME DtlsAssumption ==
  /\ driver \notin User /\ nobody \notin Thread
  /\ Calls \in [User -> SUBSET Op]
  /\ Listener # {}
  /\ Fingerprint \subseteq {"match", "mismatch"}
  /\ Transient \in BOOLEAN
  /\ BioRecords \in Nat \ {0}

VARIABLES closed,          \* AtomicBool
          started,         \* AtomicBool
          state,           \* Mutex<DtlsState>
          is_client,       \* captured from ice.role() by new()
          expected,        \* the pinned remote fingerprint, "unset" before
          callbacks,       \* Mutex<DtlsTransportCallbacks>
          hooked,          \* has start() installed its hooks on ICE?
          ice,             \* the ICE layer: down, up, failed, closed
          inner,           \* holder of the inner mutex
          handshake_done,  \* Inner::handshake_done
          ssl,             \* OpenSSL: idle, start, verified, done, dead
          in_bio, out_bio, \* records in the memory BIOs
          pc, ctx,         \* what t does next, and inside which operation
          err,             \* SSL_get_error after t's SSL_do_handshake
          clone,           \* the callback set t has cloned from
          owes,            \* the state t has set and not announced
          told,            \* history: how often each state was announced
          trusted,         \* history: was the peer's fingerprint ever pinned?
          sent, refused,   \* history: a record went out; a record was refused
          start_died       \* history: it died in start(), and no datagram came since

cells == <<closed, started, state, is_client, expected, callbacks>>
tls == <<handshake_done, ssl, in_bio, out_bio>>
locals == <<ctx, err, clone, owes>>
history == <<told, trusted, sent, refused, start_died>>
vars == <<cells, hooked, ice, inner, tls, pc, locals, history>>

Init ==
  /\ closed = FALSE /\ started = FALSE
  /\ state = "New"
  /\ is_client \in BOOLEAN
  /\ expected = "unset"
  /\ callbacks \in Listener
  /\ hooked = FALSE
  /\ ice = "down"
  /\ inner = nobody
  /\ handshake_done = FALSE /\ ssl = "idle" /\ in_bio = 0 /\ out_bio = 0
  /\ pc = [t \in Thread |-> "idle"]
  /\ ctx = [t \in Thread |-> "none"]
  /\ err = [t \in Thread |-> "want"]
  /\ clone = [t \in Thread |-> callbacks]
  /\ owes = [t \in Thread |-> "none"]
  /\ told = [s \in DtlsState |-> 0]
  /\ trusted = FALSE /\ sent = FALSE /\ refused = FALSE /\ start_died = FALSE

(* Operators named X_Slip are not used by any action: each is X after a    *)
(* plausible mistake, kept beside X to show which property notices it.     *)

Goto(t, from, to) == pc[t] = from /\ pc' = [pc EXCEPT ![t] = to]

Enter(t, op) == ctx' = [ctx EXCEPT ![t] = op]

\* A user calls an operation that starts by loading closed.
Begin(u, op, to) ==
  /\ op \in Calls[u]
  /\ ~closed
  /\ Goto(u, "idle", to)
  /\ Enter(u, op)

Lock(t) == inner = nobody /\ inner' = t

\* Where start() and drive_handshake_locked() return to.
AfterStart(t) == IF ctx[t] = "auto" THEN "hook:lock" ELSE "idle"
AfterDrive(t) == IF ctx[t] = "pump" THEN "pump:check connected" ELSE "unlock"
AfterError(t) == IF ctx[t] = "pump" THEN "pump:fail" ELSE "unlock"

-----------------------------------------------------------------------------
(* Announcing: the state has been set, the callback is cloned and called.  *)
(* Connected is announced by drive_handshake_locked, with inner held.      *)

NotifyClone(t) ==
  /\ Goto(t, "notify", "call")
  /\ clone' = [clone EXCEPT ![t] = callbacks]
  /\ UNCHANGED <<cells, hooked, ice, inner, tls, ctx, err, owes, history>>

NotifyCall(t) ==
  /\ Goto(t, "call", CASE owes[t] = "Connecting" -> "start:snapshot"
                       [] owes[t] = "Connected" -> AfterDrive(t)
                       [] OTHER -> "idle")
  /\ told' = [told EXCEPT ![owes[t]] = @ + 1]
  /\ owes' = [owes EXCEPT ![t] = "none"]
  /\ UNCHANGED <<cells, hooked, ice, inner, tls, ctx, err, clone, trusted, sent, refused,
                 start_died>>

SetState(t, s) ==
  /\ state' = s
  /\ owes' = [owes EXCEPT ![t] = s]

-----------------------------------------------------------------------------
(* start()                                                                 *)

StartCheckClosed(u) ==
  /\ Begin(u, "start", "start:swap started")
  /\ UNCHANGED <<cells, hooked, ice, inner, tls, err, clone, owes, history>>

StartSwapStarted(t) ==
  /\ Goto(t, "start:swap started", IF started THEN AfterStart(t) ELSE "start:set state")
  /\ started' = TRUE
  /\ UNCHANGED <<closed, state, is_client, expected, callbacks, hooked, ice, inner, tls,
                 locals, history>>

StartSetState(t) ==
  /\ Goto(t, "start:set state", IF state = "New" THEN "notify" ELSE AfterStart(t))
  /\ IF state = "New" THEN SetState(t, "Connecting") ELSE UNCHANGED <<state, owes>>
  /\ UNCHANGED <<closed, started, is_client, expected, callbacks, hooked, ice, inner, tls,
                 ctx, err, clone, history>>

\* prev = ice.callbacks(), then ice.set_callbacks(prev chained with the hooks)
StartSnapshot(t) ==
  /\ Goto(t, "start:snapshot", "start:install")
  /\ UNCHANGED <<cells, hooked, ice, inner, tls, locals, history>>

StartInstall(t) ==
  /\ Goto(t, "start:install", "start:lock")
  /\ hooked' = TRUE
  /\ UNCHANGED <<cells, ice, inner, tls, locals, history>>

StartLock(t) ==
  /\ Lock(t)
  /\ Goto(t, "start:lock", IF is_client THEN "drive" ELSE "unlock")
  /\ UNCHANGED <<cells, hooked, ice, tls, locals, history>>

-----------------------------------------------------------------------------
(* drive_handshake_locked() and drain_outbound_locked(), inner held.       *)

\* nothing pinned taken for nothing to compare
VerifyPeer_Slip == expected # "mismatch"

\* The verify callback: nothing pinned, or another certificate, is refused.
VerifyPeer == expected = "match"

\* What SSL_do_handshake may make of the records it has been fed: how far
\* the handshake gets, and what SSL_get_error says.  The first call meets
\* at most a ClientHello; the flight with the client's certificate also
\* completes the handshake of the server.  A fatal error needs no record:
\* the client's first call may meet one.
HandshakeOutcome ==
  LET at == IF ssl = "idle" THEN "start" ELSE ssl
      fed == in_bio > 0
  IN  {o \in {"start", "verified", "done", "dead"} \X {"want", "none", "fatal"} :
         \/ o = <<at, "want">> /\ at \in {"start", "verified"}
         \/ o = <<"verified", "want">> /\ fed /\ ssl = "start" /\ VerifyPeer
         \/ o = <<"done", "none">> /\ at = "done"
         \/ o = <<"done", "none">> /\ fed /\ at = "verified"
         \/ o = <<"done", "none">> /\ fed /\ ssl = "start" /\ VerifyPeer /\ ~is_client
         \/ o = <<"dead", "fatal">> /\ at # "done"}

\* The first call of a client queues the ClientHello, if it gets that far.
Queued(result) ==
  (IF is_client /\ ssl = "idle" /\ result # "fatal" THEN out_bio + 1 ELSE out_bio)..BioRecords

\* The pump takes a fatal error to fail_transport(), start() returns it.
DiesInStart(t, progress) ==
  ctx[t] # "pump" /\ (start_died \/ (progress = "dead" /\ ssl # "dead"))

\* a fatal error returned before the alert is drained
Drive_Slip(t) ==
  /\ \E o \in HandshakeOutcome :
        /\ Goto(t, "drive", IF o[2] = "fatal" THEN AfterError(t) ELSE "drain")
        /\ ssl' = o[1]
        /\ err' = [err EXCEPT ![t] = o[2]]
        /\ in_bio' \in IF o[2] = "none" THEN 0..in_bio ELSE {0}
        /\ out_bio' \in Queued(o[2])
        /\ start_died' = DiesInStart(t, o[1])
  /\ UNCHANGED <<cells, hooked, ice, inner, handshake_done, ctx, clone, owes,
                 told, trusted, sent, refused>>

Drive(t) ==
  /\ Goto(t, "drive", "drain")
  /\ \E o \in HandshakeOutcome :
        /\ ssl' = o[1]
        /\ err' = [err EXCEPT ![t] = o[2]]
        /\ in_bio' \in IF o[2] = "none" THEN 0..in_bio ELSE {0}
        /\ out_bio' \in Queued(o[2])
        /\ start_died' = DiesInStart(t, o[1])
  /\ UNCHANGED <<cells, hooked, ice, inner, handshake_done, ctx, clone, owes,
                 told, trusted, sent, refused>>

\* What ice.send() answers.
SendOutcome ==
  CASE ice = "closed" -> {"Closed"}
    [] ice = "up" -> IF Transient THEN {"Ok", "Juice"} ELSE {"Ok"}
    [] OTHER -> {"Juice"}

AfterDrain(t) == IF ctx[t] \in {"hook", "send"} THEN "unlock" ELSE "drive:result"

DrainEmpty(t) ==
  /\ out_bio = 0
  /\ Goto(t, "drain", AfterDrain(t))
  /\ UNCHANGED <<cells, hooked, ice, inner, tls, locals, history>>

\* BIO_read takes the record out before ice.send() is asked.
DrainSend(t) ==
  /\ out_bio > 0
  /\ out_bio' = out_bio - 1
  /\ \E o \in SendOutcome :
        /\ Goto(t, "drain", CASE o = "Ok" -> "drain"
                              [] o = "Closed" -> AfterDrain(t)
                              [] OTHER -> AfterError(t))
        /\ sent' = (sent \/ o = "Ok")
        /\ refused' = (refused \/ o # "Ok")
  /\ UNCHANGED <<cells, hooked, ice, inner, handshake_done, ssl, in_bio, locals, told, trusted,
                 start_died>>

\* handshake_done not looked at
DriveResult_Slip(t) ==
  /\ Goto(t, "drive:result",
          CASE err[t] = "fatal" -> AfterError(t)
            [] err[t] = "none" -> "drive:set connected"
            [] OTHER -> AfterDrive(t))
  /\ handshake_done' = (handshake_done \/ err[t] = "none")
  /\ UNCHANGED <<cells, hooked, ice, inner, ssl, in_bio, out_bio, locals, history>>

DriveResult(t) ==
  /\ Goto(t, "drive:result",
          CASE err[t] = "fatal" -> AfterError(t)
            [] err[t] = "none" /\ ~handshake_done -> "drive:set connected"
            [] OTHER -> AfterDrive(t))
  /\ handshake_done' = (handshake_done \/ err[t] = "none")
  /\ UNCHANGED <<cells, hooked, ice, inner, ssl, in_bio, out_bio, locals, history>>

\* inner released before Connected is announced
DriveSetConnected_Slip(t) ==
  /\ Goto(t, "drive:set connected", "notify")
  /\ SetState(t, "Connected")
  /\ inner' = nobody
  /\ UNCHANGED <<closed, started, is_client, expected, callbacks, hooked, ice, tls,
                 ctx, err, clone, history>>

\* Whatever the state has become since it was last looked at.
DriveSetConnected(t) ==
  /\ Goto(t, "drive:set connected", "notify")
  /\ SetState(t, "Connected")
  /\ UNCHANGED <<closed, started, is_client, expected, callbacks, hooked, ice, inner, tls,
                 ctx, err, clone, history>>

\* The guard goes out of scope: start() and the hook's drain return, and so on.
Unlock(t) ==
  /\ Goto(t, "unlock", AfterStart(t))
  /\ inner' = nobody
  /\ UNCHANGED <<cells, hooked, ice, tls, locals, history>>

-----------------------------------------------------------------------------
(* The hooks on ICE's on_state_change.                                     *)

\* Connected or Completed: start(), whatever it answers, then drain.  The
\* event may come late, after ICE has been closed.
IceUp ==
  /\ ice' = IF ice = "closed" THEN ice ELSE "up"
  /\ Goto(driver, "idle", IF closed THEN "hook:lock" ELSE "start:swap started")
  /\ Enter(driver, "auto")
  /\ UNCHANGED <<cells, hooked, inner, tls, err, clone, owes, history>>

HookLock(t) ==
  /\ Lock(t)
  /\ Goto(t, "hook:lock", "drain")
  /\ Enter(t, "hook")
  /\ UNCHANGED <<cells, hooked, ice, tls, err, clone, owes, history>>

\* Failed on the driver task, Closed on the thread that closes ICE.
IceDown(t, how) ==
  /\ ice # "closed"
  /\ ice' = how
  /\ Goto(t, "idle", IF hooked THEN "fail:set state" ELSE "idle")
  /\ UNCHANGED <<cells, hooked, inner, tls, locals, history>>

IceFails == IceDown(driver, "failed")
IceCloses(u) == "ice close" \in Calls[u] /\ IceDown(u, "closed")

\* Closed not spared
FailSetState_Slip(t) ==
  /\ Goto(t, "fail:set state", IF state = "Failed" THEN "idle" ELSE "notify")
  /\ IF state = "Failed" THEN UNCHANGED <<state, owes>> ELSE SetState(t, "Failed")
  /\ UNCHANGED <<closed, started, is_client, expected, callbacks, hooked, ice, inner, tls,
                 ctx, err, clone, history>>

FailSetState(t) ==
  /\ Goto(t, "fail:set state", IF state \in {"Failed", "Closed"} THEN "idle" ELSE "notify")
  /\ IF state \in {"Failed", "Closed"} THEN UNCHANGED <<state, owes>> ELSE SetState(t, "Failed")
  /\ UNCHANGED <<closed, started, is_client, expected, callbacks, hooked, ice, inner, tls,
                 ctx, err, clone, history>>

-----------------------------------------------------------------------------
(* pump_inbound(), installed as ICE's on_data by start().                  *)

PumpDatagram ==
  /\ hooked /\ ice # "down" /\ ~closed
  /\ Goto(driver, "idle", "pump:lock")
  /\ Enter(driver, "pump")
  /\ UNCHANGED <<cells, hooked, ice, inner, tls, err, clone, owes, history>>

\* Lock, BIO_write; a write that fails drops the datagram and the guard.
PumpWrite ==
  /\ inner = nobody
  /\ \/ /\ in_bio < BioRecords
        /\ in_bio' = in_bio + 1
        /\ inner' = driver
        /\ Goto(driver, "pump:lock", "pump:read state")
     \/ /\ Goto(driver, "pump:lock", "idle")
        /\ UNCHANGED <<in_bio, inner>>
  /\ UNCHANGED <<cells, hooked, ice, handshake_done, ssl, out_bio, locals, history>>

PumpReadState ==
  /\ Goto(driver, "pump:read state",
          IF state = "Connecting" THEN "drive" ELSE "pump:check connected")
  /\ UNCHANGED <<cells, hooked, ice, inner, tls, locals, history>>

PumpCheckConnected ==
  /\ Goto(driver, "pump:check connected", IF state = "Connected" THEN "read" ELSE "unlock")
  /\ UNCHANGED <<cells, hooked, ice, inner, tls, locals, history>>

\* only logged
PumpFail_Slip ==
  /\ Goto(driver, "pump:fail", "idle")
  /\ inner' = nobody
  /\ UNCHANGED <<cells, hooked, ice, tls, locals, history>>

\* drop(g), then fail_transport().
PumpFail ==
  /\ Goto(driver, "pump:fail", "fail:set state")
  /\ inner' = nobody
  /\ UNCHANGED <<cells, hooked, ice, tls, locals, history>>

\* a record taken although there was none
SslRead_Slip ==
  /\ \E result \in {"data", "none", "zero return"} :
        /\ in_bio' = in_bio - 1
        /\ Goto(driver, "read", CASE result = "data" -> "read:clone"
                                  [] result = "none" -> "unlock"
                                  [] OTHER -> "read:peer closed")
  /\ out_bio' = out_bio
  /\ UNCHANGED <<cells, hooked, ice, inner, handshake_done, ssl, locals, history>>

\* SSL_read: data, nothing to read (or an error, only logged), close_notify.
\* A repeated Finished makes it queue the last flight again; no drain follows.
SslRead ==
  /\ \E result \in {"data", "none", "zero return"} :
        /\ result # "none" => in_bio > 0
        /\ in_bio' = IF result = "none" THEN 0 ELSE in_bio - 1
        /\ Goto(driver, "read", CASE result = "data" -> "read:clone"
                                  [] result = "none" -> "unlock"
                                  [] OTHER -> "read:peer closed")
  /\ out_bio' \in IF in_bio > 0 THEN out_bio..BioRecords ELSE {out_bio}
  /\ UNCHANGED <<cells, hooked, ice, inner, handshake_done, ssl, locals, history>>

ReadClone ==
  /\ Goto(driver, "read:clone", "read:call")
  /\ clone' = [clone EXCEPT ![driver] = callbacks]
  /\ UNCHANGED <<cells, hooked, ice, inner, tls, ctx, err, owes, history>>

\* on_data, with inner held; then the next SSL_read.
ReadCall ==
  /\ Goto(driver, "read:call", "read")
  /\ UNCHANGED <<cells, hooked, ice, inner, tls, locals, history>>

\* no drop(g)
ReadPeerClosed_Slip ==
  /\ Goto(driver, "read:peer closed", "close:swap closed")
  /\ UNCHANGED <<cells, hooked, ice, inner, tls, locals, history>>

\* drop(g), then bridge_close().
ReadPeerClosed ==
  /\ Goto(driver, "read:peer closed", "close:swap closed")
  /\ inner' = nobody
  /\ UNCHANGED <<cells, hooked, ice, tls, locals, history>>

-----------------------------------------------------------------------------
(* close() and bridge_close()                                              *)

close(u) ==
  /\ "close" \in Calls[u]
  /\ Goto(u, "idle", "close:swap closed")
  /\ UNCHANGED <<cells, hooked, ice, inner, tls, locals, history>>

CloseSwapClosed(t) ==
  /\ Goto(t, "close:swap closed", IF closed THEN "idle" ELSE "close:set state")
  /\ closed' = TRUE
  /\ UNCHANGED <<started, state, is_client, expected, callbacks, hooked, ice, inner, tls,
                 locals, history>>

\* Closed not announced
CloseSetState_Slip(t) ==
  /\ Goto(t, "close:set state", "idle")
  /\ state' = "Closed"
  /\ UNCHANGED <<closed, started, is_client, expected, callbacks, hooked, ice, inner, tls,
                 locals, history>>

CloseSetState(t) ==
  /\ Goto(t, "close:set state", IF state = "Closed" THEN "idle" ELSE "notify")
  /\ IF state = "Closed" THEN UNCHANGED <<state, owes>> ELSE SetState(t, "Closed")
  /\ UNCHANGED <<closed, started, is_client, expected, callbacks, hooked, ice, inner, tls,
                 ctx, err, clone, history>>

-----------------------------------------------------------------------------
(* send(), set_remote_fingerprint(), set_callbacks()                       *)

SendCheckClosed(u) ==
  /\ Begin(u, "send", "send:check state")
  /\ UNCHANGED <<cells, hooked, ice, inner, tls, err, clone, owes, history>>

SendCheckState(t) ==
  /\ Goto(t, "send:check state", IF state = "Connected" THEN "send:lock" ELSE "idle")
  /\ UNCHANGED <<cells, hooked, ice, inner, tls, locals, history>>

\* Lock and SSL_write, which queues a record or fails.
SendWrite(t) ==
  /\ Lock(t)
  /\ \/ out_bio < BioRecords /\ out_bio' = out_bio + 1 /\ Goto(t, "send:lock", "drain")
     \/ UNCHANGED out_bio /\ Goto(t, "send:lock", "unlock")
  /\ UNCHANGED <<cells, hooked, ice, handshake_done, ssl, in_bio, locals, history>>

set_remote_fingerprint(u, fp) ==
  /\ "fingerprint" \in Calls[u] /\ pc[u] = "idle"
  /\ expected' = fp
  /\ trusted' = (trusted \/ fp = "match")
  /\ UNCHANGED <<closed, started, state, is_client, callbacks, hooked, ice, inner, tls, pc,
                 locals, told, sent, refused, start_died>>

set_callbacks(u, l) ==
  /\ "set_callbacks" \in Calls[u] /\ pc[u] = "idle"
  /\ callbacks' = l
  /\ UNCHANGED <<closed, started, state, is_client, expected, hooked, ice, inner, tls, pc,
                 locals, history>>

-----------------------------------------------------------------------------
Acquire(t) ==
  \/ StartLock(t) \/ HookLock(t) \/ SendWrite(t)
  \/ t = driver /\ PumpWrite

Step(t) ==
  \/ NotifyClone(t) \/ NotifyCall(t)
  \/ StartSwapStarted(t) \/ StartSetState(t) \/ StartSnapshot(t) \/ StartInstall(t)
  \/ Drive(t) \/ DrainEmpty(t) \/ DrainSend(t) \/ DriveResult(t) \/ DriveSetConnected(t)
  \/ Unlock(t)
  \/ FailSetState(t)
  \/ CloseSwapClosed(t) \/ CloseSetState(t)
  \/ SendCheckState(t)

DriverStep ==
  \/ PumpReadState \/ PumpCheckConnected \/ PumpFail
  \/ SslRead \/ ReadClone \/ ReadCall \/ ReadPeerClosed

Call(u) ==
  \/ IceCloses(u)
  \/ StartCheckClosed(u) \/ close(u) \/ SendCheckClosed(u)
  \/ \E fp \in Fingerprint : set_remote_fingerprint(u, fp)
  \/ \E l \in Listener : set_callbacks(u, l)

Event == IceUp \/ IceFails \/ PumpDatagram

Next ==
  \/ \E t \in Thread : Acquire(t) \/ Step(t)
  \/ DriverStep
  \/ \E u \in User : Call(u)
  \/ Event

\* Threads inside a call keep running; parking_lot hands a contended mutex
\* to a waiting thread eventually, which is strong fairness of Acquire.
Fairness ==
  /\ \A t \in Thread : WF_vars(Step(t)) /\ SF_vars(Acquire(t))
  /\ WF_vars(DriverStep)

Safe == Init /\ [][Next]_vars

Spec == Safe /\ Fairness

-----------------------------------------------------------------------------
(* Properties.                                                             *)

\* Where a thread holds inner, where it waits for it, and the rest.
Locked == {"drive", "drain", "drive:result", "drive:set connected", "unlock",
           "pump:read state", "pump:check connected", "pump:fail",
           "read", "read:clone", "read:call", "read:peer closed"}
Waiting == {"start:lock", "hook:lock", "send:lock", "pump:lock"}
Label == Locked \cup Waiting \cup
         {"idle", "notify", "call", "start:swap started", "start:set state",
          "start:snapshot", "start:install", "fail:set state",
          "close:swap closed", "close:set state", "send:check state"}

TypeOK ==
  /\ closed \in BOOLEAN /\ started \in BOOLEAN /\ is_client \in BOOLEAN
  /\ state \in DtlsState
  /\ expected \in Fingerprint \cup {"unset"}
  /\ callbacks \in Listener
  /\ hooked \in BOOLEAN /\ ice \in {"down", "up", "failed", "closed"}
  /\ inner \in Thread \cup {nobody}
  /\ handshake_done \in BOOLEAN
  /\ ssl \in {"idle", "start", "verified", "done", "dead"}
  /\ in_bio \in 0..BioRecords /\ out_bio \in 0..BioRecords
  /\ pc \in [Thread -> Label]
  /\ ctx \in [Thread -> {"none", "start", "auto", "hook", "pump", "send"}]
  /\ err \in [Thread -> {"want", "none", "fatal"}]
  /\ clone \in [Thread -> Listener]
  /\ owes \in [Thread -> DtlsState \cup {"none"}]
  /\ told \in [DtlsState -> Nat]
  /\ trusted \in BOOLEAN /\ sent \in BOOLEAN /\ refused \in BOOLEAN
  /\ start_died \in BOOLEAN

Quiet == \A t \in Thread : pc[t] = "idle"

(* "Idempotent": however start(), its automatic twin, the handshake driven *)
(* from two places and close() race, each of their states is announced at  *)
(* most once.  (Failed is not: Connected may overwrite it, see below.)     *)
AnnouncedAtMostOnce == \A s \in {"Connecting", "Connected", "Closed"} : told[s] <= 1

(* inner is not reentrant, so nobody may wait for it while holding it; and *)
(* Connecting, Failed and Closed are announced with inner free, so that a  *)
(* listener may call back into the transport.                              *)
NeverHeldTwice ==
  \A t \in Thread :
     inner = t => /\ pc[t] \notin Waiting
                  /\ pc[t] \in {"notify", "call"} => owes[t] = "Connected"

(* The peer is authenticated by the pinned fingerprint only: without one   *)
(* that matches there is no Connected, in whatever order the calls and the *)
(* datagrams come.                                                         *)
NoConnectWithoutPin == told["Connected"] > 0 \/ state = "Connected" => trusted

(* The application hears Connected before it is given any data, although   *)
(* the thread that finishes the handshake may not be the one that reads.   *)
ConnectedBeforeData == pc[driver] \in {"read:clone", "read:call"} => told["Connected"] = 1

(* A handshake that OpenSSL has given up does not look alive once a        *)
(* datagram has met it: the pump sees the error, its own or the one that   *)
(* start() met before and only returned, and fails the transport.          *)
DeadMeansFailed == Quiet /\ ssl = "dead" /\ ~start_died => state \in {"Failed", "Closed"}

(* "Always drain whatever records OpenSSL queued": until the handshake is  *)
(* done, what ICE has not refused has been handed to it.                   *)
NothingStranded == Quiet /\ ~handshake_done /\ ~refused => out_bio = 0

(* Every call returns, close() is announced: the driver task and the       *)
(* application threads cannot block each other for good on inner.          *)
CallsReturn == \A t \in Thread : pc[t] # "idle" ~> pc[t] = "idle"
CloseAnnounced == closed ~> told["Closed"] = 1

(* The abstract promise: each change of the state is announced once, by    *)
(* the thread that made it.  Connected may come over Failed and Closed.    *)
DtlsEdge ==
  {<<"New", "Connecting">>}
    \cup {<<s, "Connected">> : s \in {"Connecting", "Failed", "Closed"}}
    \cup {<<s, "Failed">> : s \in {"Connecting", "Connected"}}
    \cup {<<s, "Closed">> : s \in DtlsState \ {"Closed"}}

L == INSTANCE Lifecycle
       WITH Actor <- Thread, Status <- DtlsState, Initial <- "New", Edge <- DtlsEdge,
            Nothing <- "none", status <- state,
            heard <- {"New"} \cup {s \in DtlsState : told[s] > 0}

AnnouncesEveryChange == L!Spec

-----------------------------------------------------------------------------
(* What the comments claim and the interleavings refute.                   *)

(* Connected: "application records can be sent and received".  The         *)
(* handshake sets it without looking, over a Closed set since: send()      *)
(* then answers Closed for good.                                           *)
ConnectedCanSend == Quiet /\ state = "Connected" => ~closed

(* "ClientHello bytes pushed during a prior start() may have been          *)
(* stranded ...  Now that we're Connected, push them": the drain that ICE  *)
(* refused has already taken them out of the BIO, and nothing asks OpenSSL *)
(* to send them again.                                                     *)
HelloSent ==
  Quiet /\ is_client /\ ssl # "dead" /\ state = "Connecting" /\ ice = "up" => sent
=============================================================================

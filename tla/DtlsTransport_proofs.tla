------------------------ MODULE DtlsTransport_proofs ------------------------
(***************************************************************************)
(* What holds of DtlsTransport for every set of threads, callback sets and *)
(* BIO sizes, whoever may call what, and whatever OpenSSL makes of the     *)
(* records.  The invariant is a stack of layers: each is kept by every     *)
(* step given the layers before it, so each has a lemma of its own.        *)
(***************************************************************************)
EXTENDS DtlsTransport, TLAPS

\* TypeOK by kind of variable.
CellsTyped ==
  /\ closed \in BOOLEAN /\ started \in BOOLEAN /\ is_client \in BOOLEAN
  /\ state \in DtlsState
  /\ expected \in Fingerprint \cup {"unset"}
  /\ callbacks \in Listener
  /\ hooked \in BOOLEAN /\ ice \in {"down", "up", "failed", "closed"}
  /\ inner \in Thread \cup {nobody}

TlsTyped ==
  /\ handshake_done \in BOOLEAN
  /\ ssl \in {"idle", "start", "verified", "done", "dead"}
  /\ in_bio \in 0..BioRecords /\ out_bio \in 0..BioRecords

LocalsTyped ==
  /\ ctx \in [Thread -> {"none", "start", "auto", "hook", "pump", "send"}]
  /\ err \in [Thread -> {"want", "none", "fatal"}]
  /\ clone \in [Thread -> Listener]
  /\ owes \in [Thread -> DtlsState \cup {"none"}]

HistoryTyped ==
  /\ told \in [DtlsState -> Nat]
  /\ trusted \in BOOLEAN /\ sent \in BOOLEAN /\ refused \in BOOLEAN
  /\ start_died \in BOOLEAN

Labelled == pc \in [Thread -> Label]

\* An announcement is owed exactly while t is on its way to make it.
Debts == \A t \in Thread : owes[t] # "none" <=> pc[t] \in {"notify", "call"}

\* Who holds inner can be read off the program counters.
Holds(t) == pc[t] \in Locked \/ owes[t] = "Connected"

Mutex == \A t \in Thread : Holds(t) <=> inner = t

\* Only the driver task pumps, and only after start() has hooked ICE.
PumpLabel == {"pump:lock", "pump:read state", "pump:check connected", "pump:fail",
              "read", "read:clone", "read:call", "read:peer closed"}

Contexts ==
  \A t \in Thread : /\ pc[t] \in PumpLabel => ctx[t] = "pump"
                    /\ ctx[t] = "pump" => t = driver /\ hooked

\* Connecting is set before anything else of start() happens.
PastConnecting == {"start:snapshot", "start:install", "start:lock", "drive", "fail:set state"}

NotNew ==
  /\ hooked \/ ssl # "idle" => state # "New"
  /\ \A t \in Thread : pc[t] \in PastConnecting \/ owes[t] # "none" => state # "New"

\* The handshake completes behind a fingerprint that matched, and whoever
\* is about to say so has seen it complete.
Pinned ==
  /\ ssl \in {"verified", "done"} \/ expected = "match" => trusted
  /\ state = "Connected" \/ told["Connected"] # 0 \/ handshake_done => ssl = "done"
  /\ \A t \in Thread :
        err[t] = "none" \/ pc[t] = "drive:set connected" \/ owes[t] = "Connected" => ssl = "done"

\* One thread wins the swap on started, another (or the same) the one on
\* closed, and a third finds handshake_done unset under the mutex: each
\* alone may announce its state, and has not done so before.
Starting(t) == pc[t] = "start:set state" \/ owes[t] = "Connecting"
Finishing(t) == pc[t] = "drive:set connected" \/ owes[t] = "Connected"
Closing(t) == pc[t] = "close:set state" \/ owes[t] = "Closed"

SoleStarter ==
  /\ told["Connecting"] \in {0, 1}
  /\ ~started => told["Connecting"] = 0
  /\ \A t \in Thread : Starting(t) => started /\ told["Connecting"] = 0
  /\ \A t, u \in Thread : Starting(t) /\ Starting(u) => t = u

SoleFinisher ==
  /\ told["Connected"] \in {0, 1}
  /\ ~handshake_done => told["Connected"] = 0
  /\ \A t \in Thread : Finishing(t) => handshake_done /\ told["Connected"] = 0

SoleCloser ==
  /\ told["Closed"] \in {0, 1}
  /\ ~closed => told["Closed"] = 0
  /\ \A t \in Thread : Closing(t) => closed /\ told["Closed"] = 0
  /\ \A t, u \in Thread : Closing(t) /\ Closing(u) => t = u

\* Connected is announced, or being announced with inner held; the pump,
\* which needs inner, reads application data only after that.
HeardConnected ==
  /\ state = "Connected" => told["Connected"] = 1 \/ \E t \in Thread : owes[t] = "Connected"
  /\ pc[driver] \in {"read", "read:clone", "read:call"} => told["Connected"] = 1

\* The pump that meets a fatal error is on its way to fail the transport.
Dead ==
  ssl = "dead" /\ ~start_died =>
    \/ state \in {"Failed", "Closed"}
    \/ pc[driver] \in {"drain", "drive:result"} /\ ctx[driver] = "pump" /\ err[driver] = "fatal"
    \/ pc[driver] \in {"pump:fail", "fail:set state"}

\* What the handshake has queued and ICE has not refused is being drained.
Drained == ~handshake_done /\ ~refused /\ out_bio > 0 => \E t \in Thread : pc[t] = "drain"

IInv ==
  /\ TypeOK /\ Debts /\ Mutex /\ Contexts /\ NotNew /\ Pinned
  /\ SoleStarter /\ SoleFinisher /\ SoleCloser
  /\ HeardConnected /\ Dead /\ Drained

-----------------------------------------------------------------------------
(* What the model's operators do, as far as the layers need it.            *)

LEMMA TypeParts == TypeOK <=> CellsTyped /\ TlsTyped /\ LocalsTyped /\ HistoryTyped /\ Labelled
  BY DEF TypeOK, CellsTyped, TlsTyped, LocalsTyped, HistoryTyped, Labelled

\* The first announcement of a state is counted as one.
LEMMA CallCounts ==
  ASSUME TypeOK, NEW s \in DtlsState, told[s] = 0, told' = [told EXCEPT ![s] = @ + 1]
  PROVE  told'[s] = 1
  BY DEF TypeOK

\* The pump reads application data only when the handshake is done.
LEMMA ReadsWhenDone ==
  ASSUME HeardConnected, Pinned, pc[driver] = "read"
  PROVE  ssl = "done"
<1>1. told["Connected"] = 1
  BY DEF HeardConnected
<1> QED BY <1>1 DEF Pinned

\* Where the drain loop goes; it goes on unless ICE refused the record.
LEMMA DrainGoes ==
  ASSUME NEW t \in Thread, DrainSend(t)
  PROVE  \E to \in {"drain", AfterDrain(t), AfterError(t)} :
            Goto(t, "drain", to) /\ (~refused' => to = "drain")
<1>1. PICK o \in SendOutcome :
        /\ Goto(t, "drain", CASE o = "Ok" -> "drain"
                              [] o = "Closed" -> AfterDrain(t)
                              [] OTHER -> AfterError(t))
        /\ refused' = (refused \/ o # "Ok")
  BY DEF DrainSend
<1>2. CASE o = "Ok"
  BY <1>1, <1>2
<1>3. CASE o = "Closed"
  BY <1>1, <1>3
<1>4. CASE o \notin {"Ok", "Closed"}
  BY <1>1, <1>4
<1> QED BY <1>2, <1>3, <1>4

\* What one SSL_do_handshake may do: it completes only behind a fingerprint
\* that matches, is fatal when it gives up, and leaves a record only when it is done.
LEMMA DriveDoes ==
  ASSUME TypeOK, NEW t \in Thread, Drive(t)
  PROVE  /\ Goto(t, "drive", "drain")
         /\ \A u \in Thread \ {t} : err'[u] = err[u]
         /\ ssl = "done" => ssl' = "done"
         /\ err'[t] = "none" => ssl' = "done"
         /\ ssl' \in {"verified", "done"} => ssl \in {"verified", "done"} \/ expected = "match"
         /\ ssl' = "dead" => err'[t] = "fatal" /\ (ssl # "dead" => start_died' = (ctx[t] # "pump"))
         /\ ssl' # "idle"
<1>1. PICK o \in HandshakeOutcome :
        /\ Goto(t, "drive", "drain")
        /\ ssl' = o[1]
        /\ err' = [err EXCEPT ![t] = o[2]]
        /\ start_died' = DiesInStart(t, o[1])
  BY DEF Drive
<1>2. err'[t] = o[2] /\ \A u \in Thread \ {t} : err'[u] = err[u]
  BY <1>1 DEF TypeOK
<1>3. /\ ssl = "done" => o[1] = "done"
      /\ o[2] = "none" => o[1] = "done"
      /\ o[1] \in {"verified", "done"} => ssl \in {"verified", "done"} \/ expected = "match"
      /\ o[1] = "dead" => o[2] = "fatal"
      /\ o[1] # "idle"
  BY DEF HandshakeOutcome, VerifyPeer, TypeOK
<1>4. o[1] = "dead" /\ ssl # "dead" => start_died' = (ctx[t] # "pump")
  BY <1>1 DEF DiesInStart
<1> QED BY <1>1, <1>2, <1>3, <1>4

\* How one thread's step can leave the mutex right: it neither comes nor
\* goes, it takes the free mutex, or it drops it.
LEMMA HolderKept ==
  ASSUME Mutex, NEW t \in Thread, Holds(t)' <=> Holds(t), inner' = inner,
         \A u \in Thread \ {t} : pc'[u] = pc[u] /\ owes'[u] = owes[u]
  PROVE  Mutex'
  BY DEF Mutex, Holds

LEMMA HolderTakes ==
  ASSUME Mutex, NEW t \in Thread, Holds(t)', inner = nobody, inner' = t,
         \A u \in Thread \ {t} : pc'[u] = pc[u] /\ owes'[u] = owes[u]
  PROVE  Mutex'
<1>1. nobody \notin Thread
  BY DtlsAssumption
<1> QED BY <1>1 DEF Mutex, Holds

LEMMA HolderLeaves ==
  ASSUME Mutex, NEW t \in Thread, Holds(t), ~Holds(t)', inner' = nobody,
         \A u \in Thread \ {t} : pc'[u] = pc[u] /\ owes'[u] = owes[u]
  PROVE  Mutex'
<1>1. nobody \notin Thread
  BY DtlsAssumption
<1> QED BY <1>1 DEF Mutex, Holds

StartersKept ==
  /\ UNCHANGED <<started, told["Connecting"]>>
  /\ \A t \in Thread : Starting(t)' => Starting(t)

ClosersKept ==
  /\ UNCHANGED <<closed, told["Closed"]>>
  /\ \A t \in Thread : Closing(t)' => Closing(t)

-----------------------------------------------------------------------------
(* The layers.                                                             *)

\* The cells keep their types.
LEMMA KeepsCells == CellsTyped /\ [Next]_vars => CellsTyped'
<1> SUFFICES ASSUME CellsTyped, [Next]_vars PROVE CellsTyped'
  OBVIOUS
<1> User \subseteq Thread /\ driver \in Thread /\ nobody \notin Thread
  BY DtlsAssumption DEF Thread
<1> USE DEF CellsTyped, DtlsState, Goto, cells, tls, locals, history
<1>1. ASSUME NEW t \in Thread, NotifyClone(t) PROVE CellsTyped'
  BY <1>1 DEF NotifyClone
<1>2. ASSUME NEW t \in Thread, NotifyCall(t) PROVE CellsTyped'
  BY <1>2 DEF NotifyCall
<1>3. ASSUME NEW u \in User, StartCheckClosed(u) PROVE CellsTyped'
  BY <1>3 DEF StartCheckClosed, Begin, Enter
<1>4. ASSUME NEW t \in Thread, StartSwapStarted(t) PROVE CellsTyped'
  BY <1>4 DEF StartSwapStarted
<1>5. ASSUME NEW t \in Thread, StartSetState(t) PROVE CellsTyped'
  BY <1>5 DEF StartSetState, SetState
<1>6. ASSUME NEW t \in Thread, StartSnapshot(t) PROVE CellsTyped'
  BY <1>6 DEF StartSnapshot
<1>7. ASSUME NEW t \in Thread, StartInstall(t) PROVE CellsTyped'
  BY <1>7 DEF StartInstall
<1>8. ASSUME NEW t \in Thread, StartLock(t) PROVE CellsTyped'
  BY <1>8 DEF StartLock, Lock
<1>9. ASSUME NEW t \in Thread, Drive(t) PROVE CellsTyped'
  BY <1>9 DEF Drive
<1>10. ASSUME NEW t \in Thread, DrainEmpty(t) PROVE CellsTyped'
  BY <1>10 DEF DrainEmpty
<1>11. ASSUME NEW t \in Thread, DrainSend(t) PROVE CellsTyped'
  BY <1>11 DEF DrainSend
<1>12. ASSUME NEW t \in Thread, DriveResult(t) PROVE CellsTyped'
  BY <1>12 DEF DriveResult
<1>13. ASSUME NEW t \in Thread, DriveSetConnected(t) PROVE CellsTyped'
  BY <1>13 DEF DriveSetConnected, SetState
<1>14. ASSUME NEW t \in Thread, Unlock(t) PROVE CellsTyped'
  BY <1>14 DEF Unlock
<1>15. ASSUME IceUp PROVE CellsTyped'
  BY <1>15 DEF IceUp, Enter
<1>16. ASSUME NEW t \in Thread, HookLock(t) PROVE CellsTyped'
  BY <1>16 DEF HookLock, Lock, Enter
<1>17. ASSUME IceFails PROVE CellsTyped'
  BY <1>17 DEF IceFails, IceDown
<1>18. ASSUME NEW u \in User, IceCloses(u) PROVE CellsTyped'
  BY <1>18 DEF IceCloses, IceDown
<1>19. ASSUME NEW t \in Thread, FailSetState(t) PROVE CellsTyped'
  BY <1>19 DEF FailSetState, SetState
<1>20. ASSUME PumpDatagram PROVE CellsTyped'
  BY <1>20 DEF PumpDatagram, Enter
<1>21. ASSUME PumpWrite PROVE CellsTyped'
  BY <1>21 DEF PumpWrite
<1>22. ASSUME PumpReadState PROVE CellsTyped'
  BY <1>22 DEF PumpReadState
<1>23. ASSUME PumpCheckConnected PROVE CellsTyped'
  BY <1>23 DEF PumpCheckConnected
<1>24. ASSUME PumpFail PROVE CellsTyped'
  BY <1>24 DEF PumpFail
<1>25. ASSUME SslRead PROVE CellsTyped'
  BY <1>25 DEF SslRead
<1>26. ASSUME ReadClone PROVE CellsTyped'
  BY <1>26 DEF ReadClone
<1>27. ASSUME ReadCall PROVE CellsTyped'
  BY <1>27 DEF ReadCall
<1>28. ASSUME ReadPeerClosed PROVE CellsTyped'
  BY <1>28 DEF ReadPeerClosed
<1>29. ASSUME NEW u \in User, close(u) PROVE CellsTyped'
  BY <1>29 DEF close
<1>30. ASSUME NEW t \in Thread, CloseSwapClosed(t) PROVE CellsTyped'
  BY <1>30 DEF CloseSwapClosed
<1>31. ASSUME NEW t \in Thread, CloseSetState(t) PROVE CellsTyped'
  BY <1>31 DEF CloseSetState, SetState
<1>32. ASSUME NEW u \in User, SendCheckClosed(u) PROVE CellsTyped'
  BY <1>32 DEF SendCheckClosed, Begin, Enter
<1>33. ASSUME NEW t \in Thread, SendCheckState(t) PROVE CellsTyped'
  BY <1>33 DEF SendCheckState
<1>34. ASSUME NEW t \in Thread, SendWrite(t) PROVE CellsTyped'
  BY <1>34 DEF SendWrite, Lock
<1>35. ASSUME NEW u \in User, NEW fp \in Fingerprint, set_remote_fingerprint(u, fp) PROVE CellsTyped'
  BY <1>35 DEF set_remote_fingerprint
<1>36. ASSUME NEW u \in User, NEW l \in Listener, set_callbacks(u, l) PROVE CellsTyped'
  BY <1>36 DEF set_callbacks
<1>37. CASE UNCHANGED vars
  BY <1>37 DEF vars
<1> QED BY <1>1, <1>2, <1>3, <1>4, <1>5, <1>6, <1>7, <1>8, <1>9, <1>10, <1>11, <1>12, <1>13,
  <1>14, <1>15, <1>16, <1>17, <1>18, <1>19, <1>20, <1>21, <1>22, <1>23, <1>24, <1>25, <1>26,
  <1>27, <1>28, <1>29, <1>30, <1>31, <1>32, <1>33, <1>34, <1>35, <1>36, <1>37 DEF Next, Acquire,
  Step, DriverStep, Call, Event

\* OpenSSL and its BIOs keep their types, the BIOs within their bound.
LEMMA KeepsTls == TlsTyped /\ [Next]_vars => TlsTyped'
<1> SUFFICES ASSUME TlsTyped, [Next]_vars PROVE TlsTyped'
  OBVIOUS
<1> User \subseteq Thread /\ driver \in Thread /\ nobody \notin Thread
  BY DtlsAssumption DEF Thread
<1> USE DEF TlsTyped, Goto, cells, tls, locals, history
<1>1. ASSUME NEW t \in Thread,
               NotifyClone(t) \/ NotifyCall(t) \/ StartSwapStarted(t) \/ StartSetState(t)
            \/ StartSnapshot(t) \/ StartInstall(t) \/ StartLock(t) \/ DrainEmpty(t)
     PROVE  TlsTyped'
  BY <1>1 DEF NotifyClone, NotifyCall, StartSwapStarted, StartSetState, SetState, StartSnapshot,
    StartInstall, StartLock, Lock, DrainEmpty
<1>2. ASSUME NEW u \in User,
               StartCheckClosed(u) \/ IceCloses(u) \/ close(u) \/ SendCheckClosed(u)
     PROVE  TlsTyped'
  BY <1>2 DEF StartCheckClosed, Begin, Enter, IceCloses, IceDown, close, SendCheckClosed
<1>3. ASSUME NEW t \in Thread, Drive(t) PROVE TlsTyped'
  <2>1. PICK o \in HandshakeOutcome :
          /\ ssl' = o[1]
          /\ in_bio' \in IF o[2] = "none" THEN 0..in_bio ELSE {0}
    BY <1>3 DEF Drive
  <2>2. ssl' \in {"start", "verified", "done", "dead"}
    BY <2>1 DEF HandshakeOutcome
  <2>3. in_bio' \in 0..BioRecords
    BY <2>1, DtlsAssumption
  <2>4. handshake_done' = handshake_done /\ out_bio' \in 0..BioRecords
    BY <1>3, DtlsAssumption DEF Drive, Queued
  <2> QED BY <2>2, <2>3, <2>4
<1>4. ASSUME NEW t \in Thread, DrainSend(t) PROVE TlsTyped'
  BY <1>4, DtlsAssumption DEF DrainSend
<1>5. ASSUME NEW t \in Thread,
               DriveResult(t) \/ DriveSetConnected(t) \/ Unlock(t) \/ HookLock(t)
            \/ FailSetState(t) \/ CloseSwapClosed(t) \/ CloseSetState(t)
            \/ SendCheckState(t)
     PROVE  TlsTyped'
  BY <1>5 DEF DriveResult, DriveSetConnected, SetState, Unlock, HookLock, Lock, Enter,
    FailSetState, CloseSwapClosed, CloseSetState, SendCheckState
<1>6. CASE IceUp \/ IceFails \/ PumpDatagram \/ PumpReadState \/ PumpCheckConnected
        \/ PumpFail \/ ReadClone \/ ReadCall
  BY <1>6 DEF IceUp, Enter, IceFails, IceDown, PumpDatagram, PumpReadState, PumpCheckConnected,
    PumpFail, ReadClone, ReadCall
<1>7. ASSUME PumpWrite PROVE TlsTyped'
  <2>1. in_bio' = in_bio \/ (in_bio < BioRecords /\ in_bio' = in_bio + 1)
    BY <1>7 DEF PumpWrite
  <2>2. UNCHANGED <<handshake_done, ssl, out_bio>>
    BY <1>7 DEF PumpWrite
  <2> QED BY <2>1, <2>2, DtlsAssumption
<1>8. ASSUME SslRead PROVE TlsTyped'
  <2>1. in_bio' = 0 \/ (in_bio > 0 /\ in_bio' = in_bio - 1)
    BY <1>8 DEF SslRead
  <2>2. out_bio' = out_bio \/ out_bio' \in out_bio..BioRecords
    BY <1>8 DEF SslRead
  <2>3. UNCHANGED <<handshake_done, ssl>>
    BY <1>8 DEF SslRead
  <2> QED BY <2>1, <2>2, <2>3, DtlsAssumption
<1>9. ASSUME ReadPeerClosed PROVE TlsTyped'
  BY <1>9 DEF ReadPeerClosed
<1>10. ASSUME NEW t \in Thread, SendWrite(t) PROVE TlsTyped'
  BY <1>10, DtlsAssumption DEF SendWrite
<1>11. ASSUME NEW u \in User, NEW fp \in Fingerprint, set_remote_fingerprint(u, fp) PROVE TlsTyped'
  BY <1>11 DEF set_remote_fingerprint
<1>12. ASSUME NEW u \in User, NEW l \in Listener, set_callbacks(u, l) PROVE TlsTyped'
  BY <1>12 DEF set_callbacks
<1>13. CASE UNCHANGED vars
  BY <1>13 DEF vars
<1> QED BY <1>1, <1>2, <1>3, <1>4, <1>5, <1>6, <1>7, <1>8, <1>9, <1>10, <1>11, <1>12, <1>13 DEF
  Next, Acquire, Step, DriverStep, Call, Event

\* Each thread's own variables keep their types.
LEMMA KeepsLocals == CellsTyped /\ LocalsTyped /\ [Next]_vars => LocalsTyped'
<1> SUFFICES ASSUME CellsTyped, LocalsTyped, [Next]_vars PROVE LocalsTyped'
  OBVIOUS
<1> User \subseteq Thread /\ driver \in Thread /\ nobody \notin Thread
  BY DtlsAssumption DEF Thread
<1> USE DEF LocalsTyped, CellsTyped, DtlsState, Goto, cells, tls, locals, history
<1>1. ASSUME NEW t \in Thread, NotifyClone(t) PROVE LocalsTyped'
  BY <1>1 DEF NotifyClone
<1>2. ASSUME NEW t \in Thread, NotifyCall(t) PROVE LocalsTyped'
  BY <1>2 DEF NotifyCall
<1>3. ASSUME NEW u \in User, StartCheckClosed(u) PROVE LocalsTyped'
  BY <1>3 DEF StartCheckClosed, Begin, Enter
<1>4. ASSUME NEW t \in Thread, StartSwapStarted(t) PROVE LocalsTyped'
  BY <1>4 DEF StartSwapStarted
<1>5. ASSUME NEW t \in Thread, StartSetState(t) PROVE LocalsTyped'
  BY <1>5 DEF StartSetState, SetState
<1>6. ASSUME NEW t \in Thread, StartSnapshot(t) PROVE LocalsTyped'
  BY <1>6 DEF StartSnapshot
<1>7. ASSUME NEW t \in Thread, StartInstall(t) PROVE LocalsTyped'
  BY <1>7 DEF StartInstall
<1>8. ASSUME NEW t \in Thread, StartLock(t) PROVE LocalsTyped'
  BY <1>8 DEF StartLock, Lock
<1>9. ASSUME NEW t \in Thread, Drive(t) PROVE LocalsTyped'
  <2>1. PICK o \in HandshakeOutcome : err' = [err EXCEPT ![t] = o[2]]
    BY <1>9 DEF Drive
  <2>2. o[2] \in {"want", "none", "fatal"}
    BY DEF HandshakeOutcome
  <2> QED BY <1>9, <2>1, <2>2 DEF Drive
<1>10. ASSUME NEW t \in Thread, DrainEmpty(t) PROVE LocalsTyped'
  BY <1>10 DEF DrainEmpty
<1>11. ASSUME NEW t \in Thread, DrainSend(t) PROVE LocalsTyped'
  BY <1>11 DEF DrainSend
<1>12. ASSUME NEW t \in Thread, DriveResult(t) PROVE LocalsTyped'
  BY <1>12 DEF DriveResult
<1>13. ASSUME NEW t \in Thread, DriveSetConnected(t) PROVE LocalsTyped'
  BY <1>13 DEF DriveSetConnected, SetState
<1>14. ASSUME NEW t \in Thread, Unlock(t) PROVE LocalsTyped'
  BY <1>14 DEF Unlock
<1>15. ASSUME IceUp PROVE LocalsTyped'
  BY <1>15 DEF IceUp, Enter
<1>16. ASSUME NEW t \in Thread, HookLock(t) PROVE LocalsTyped'
  BY <1>16 DEF HookLock, Lock, Enter
<1>17. ASSUME IceFails PROVE LocalsTyped'
  BY <1>17 DEF IceFails, IceDown
<1>18. ASSUME NEW u \in User, IceCloses(u) PROVE LocalsTyped'
  BY <1>18 DEF IceCloses, IceDown
<1>19. ASSUME NEW t \in Thread, FailSetState(t) PROVE LocalsTyped'
  BY <1>19 DEF FailSetState, SetState
<1>20. ASSUME PumpDatagram PROVE LocalsTyped'
  BY <1>20 DEF PumpDatagram, Enter
<1>21. ASSUME PumpWrite PROVE LocalsTyped'
  BY <1>21 DEF PumpWrite
<1>22. ASSUME PumpReadState PROVE LocalsTyped'
  BY <1>22 DEF PumpReadState
<1>23. ASSUME PumpCheckConnected PROVE LocalsTyped'
  BY <1>23 DEF PumpCheckConnected
<1>24. ASSUME PumpFail PROVE LocalsTyped'
  BY <1>24 DEF PumpFail
<1>25. ASSUME SslRead PROVE LocalsTyped'
  BY <1>25 DEF SslRead
<1>26. ASSUME ReadClone PROVE LocalsTyped'
  BY <1>26 DEF ReadClone
<1>27. ASSUME ReadCall PROVE LocalsTyped'
  BY <1>27 DEF ReadCall
<1>28. ASSUME ReadPeerClosed PROVE LocalsTyped'
  BY <1>28 DEF ReadPeerClosed
<1>29. ASSUME NEW u \in User, close(u) PROVE LocalsTyped'
  BY <1>29 DEF close
<1>30. ASSUME NEW t \in Thread, CloseSwapClosed(t) PROVE LocalsTyped'
  BY <1>30 DEF CloseSwapClosed
<1>31. ASSUME NEW t \in Thread, CloseSetState(t) PROVE LocalsTyped'
  BY <1>31 DEF CloseSetState, SetState
<1>32. ASSUME NEW u \in User, SendCheckClosed(u) PROVE LocalsTyped'
  BY <1>32 DEF SendCheckClosed, Begin, Enter
<1>33. ASSUME NEW t \in Thread, SendCheckState(t) PROVE LocalsTyped'
  BY <1>33 DEF SendCheckState
<1>34. ASSUME NEW t \in Thread, SendWrite(t) PROVE LocalsTyped'
  BY <1>34 DEF SendWrite, Lock
<1>35. ASSUME NEW u \in User, NEW fp \in Fingerprint, set_remote_fingerprint(u, fp) PROVE LocalsTyped'
  BY <1>35 DEF set_remote_fingerprint
<1>36. ASSUME NEW u \in User, NEW l \in Listener, set_callbacks(u, l) PROVE LocalsTyped'
  BY <1>36 DEF set_callbacks
<1>37. CASE UNCHANGED vars
  BY <1>37 DEF vars
<1> QED BY <1>1, <1>2, <1>3, <1>4, <1>5, <1>6, <1>7, <1>8, <1>9, <1>10, <1>11, <1>12, <1>13,
  <1>14, <1>15, <1>16, <1>17, <1>18, <1>19, <1>20, <1>21, <1>22, <1>23, <1>24, <1>25, <1>26,
  <1>27, <1>28, <1>29, <1>30, <1>31, <1>32, <1>33, <1>34, <1>35, <1>36, <1>37 DEF Next, Acquire,
  Step, DriverStep, Call, Event

\* The histories keep their types; only a state is ever announced.
LEMMA KeepsHistory == LocalsTyped /\ HistoryTyped /\ Debts /\ [Next]_vars => HistoryTyped'
<1> SUFFICES ASSUME LocalsTyped, HistoryTyped, Debts, [Next]_vars PROVE HistoryTyped'
  OBVIOUS
<1> User \subseteq Thread /\ driver \in Thread /\ nobody \notin Thread
  BY DtlsAssumption DEF Thread
<1> USE DEF LocalsTyped, HistoryTyped, DtlsState, Goto, cells, tls, locals, history
<1>1. ASSUME NEW t \in Thread,
               NotifyClone(t) \/ StartSwapStarted(t) \/ StartSetState(t) \/ StartSnapshot(t)
            \/ StartInstall(t) \/ StartLock(t) \/ DrainEmpty(t) \/ DrainSend(t)
     PROVE  HistoryTyped'
  BY <1>1 DEF NotifyClone, StartSwapStarted, StartSetState, SetState, StartSnapshot,
    StartInstall, StartLock, Lock, DrainEmpty, DrainSend
<1>2. ASSUME NEW t \in Thread, NotifyCall(t) PROVE HistoryTyped'
  <2>1. told' = [told EXCEPT ![owes[t]] = @ + 1] /\ UNCHANGED <<trusted, sent, refused, start_died>>
    BY <1>2 DEF NotifyCall
  <2>2. owes[t] \in DtlsState
    BY <1>2 DEF NotifyCall, Debts
  <2> QED BY <2>1, <2>2
<1>3. ASSUME NEW u \in User,
               StartCheckClosed(u) \/ IceCloses(u) \/ close(u) \/ SendCheckClosed(u)
     PROVE  HistoryTyped'
  BY <1>3 DEF StartCheckClosed, Begin, Enter, IceCloses, IceDown, close, SendCheckClosed
<1>4. ASSUME NEW t \in Thread, Drive(t) PROVE HistoryTyped'
  <2>1. PICK o \in HandshakeOutcome : start_died' = DiesInStart(t, o[1])
    BY <1>4 DEF Drive
  <2>2. start_died' \in BOOLEAN
    BY <2>1 DEF DiesInStart
  <2> QED BY <1>4, <2>2 DEF Drive
<1>5. ASSUME NEW t \in Thread,
               DriveResult(t) \/ DriveSetConnected(t) \/ Unlock(t) \/ HookLock(t)
            \/ FailSetState(t) \/ CloseSwapClosed(t) \/ CloseSetState(t)
            \/ SendCheckState(t)
     PROVE  HistoryTyped'
  BY <1>5 DEF DriveResult, DriveSetConnected, SetState, Unlock, HookLock, Lock, Enter,
    FailSetState, CloseSwapClosed, CloseSetState, SendCheckState
<1>6. CASE IceUp \/ IceFails \/ PumpDatagram \/ PumpWrite \/ PumpReadState
        \/ PumpCheckConnected \/ PumpFail \/ SslRead
  BY <1>6 DEF IceUp, Enter, IceFails, IceDown, PumpDatagram, PumpWrite, PumpReadState,
    PumpCheckConnected, PumpFail, SslRead
<1>7. CASE ReadClone \/ ReadCall \/ ReadPeerClosed
  BY <1>7 DEF ReadClone, ReadCall, ReadPeerClosed
<1>8. ASSUME NEW t \in Thread, SendWrite(t) PROVE HistoryTyped'
  BY <1>8 DEF SendWrite, Lock
<1>9. ASSUME NEW u \in User, NEW fp \in Fingerprint, set_remote_fingerprint(u, fp) PROVE HistoryTyped'
  BY <1>9 DEF set_remote_fingerprint
<1>10. ASSUME NEW u \in User, NEW l \in Listener, set_callbacks(u, l) PROVE HistoryTyped'
  BY <1>10 DEF set_callbacks
<1>11. CASE UNCHANGED vars
  BY <1>11 DEF vars
<1> QED BY <1>1, <1>2, <1>3, <1>4, <1>5, <1>6, <1>7, <1>8, <1>9, <1>10, <1>11 DEF Next, Acquire,
  Step, DriverStep, Call, Event

\* No thread leaves the program.
LEMMA KeepsLabels == Labelled /\ [Next]_vars => Labelled'
<1> SUFFICES ASSUME Labelled, [Next]_vars PROVE Labelled'
  OBVIOUS
<1> User \subseteq Thread /\ driver \in Thread /\ nobody \notin Thread
  BY DtlsAssumption DEF Thread
<1> USE DEF Labelled, Label, Locked, Waiting, Goto
<1>1. ASSUME NEW t \in Thread,
               NotifyClone(t) \/ StartSwapStarted(t) \/ StartSnapshot(t) \/ StartInstall(t)
     PROVE  Labelled'
  BY <1>1 DEF NotifyClone, StartSwapStarted, AfterStart, StartSnapshot, StartInstall
<1>2. ASSUME NEW t \in Thread, NotifyCall(t) PROVE Labelled'
  BY <1>2 DEF NotifyCall, AfterDrive
<1>3. ASSUME NEW u \in User,
               StartCheckClosed(u) \/ IceCloses(u) \/ close(u) \/ SendCheckClosed(u)
     PROVE  Labelled'
  BY <1>3 DEF StartCheckClosed, Begin, Enter, IceCloses, IceDown, close, SendCheckClosed
<1>4. ASSUME NEW t \in Thread, StartSetState(t) PROVE Labelled'
  BY <1>4 DEF StartSetState, AfterStart, SetState
<1>5. ASSUME NEW t \in Thread, StartLock(t) PROVE Labelled'
  BY <1>5 DEF StartLock, Lock
<1>6. ASSUME NEW t \in Thread, Drive(t) PROVE Labelled'
  BY <1>6 DEF Drive
<1>7. ASSUME NEW t \in Thread,
               DrainEmpty(t) \/ Unlock(t) \/ CloseSwapClosed(t) \/ SendCheckState(t)
     PROVE  Labelled'
  BY <1>7 DEF DrainEmpty, AfterDrain, Unlock, AfterStart, CloseSwapClosed, SendCheckState
<1>8. ASSUME NEW t \in Thread, DrainSend(t) PROVE Labelled'
  BY <1>8 DEF DrainSend, AfterDrain, AfterError
<1>9. ASSUME NEW t \in Thread, DriveResult(t) PROVE Labelled'
  BY <1>9 DEF DriveResult, AfterError, AfterDrive
<1>10. ASSUME NEW t \in Thread, DriveSetConnected(t) PROVE Labelled'
  BY <1>10 DEF DriveSetConnected, SetState
<1>11. CASE IceUp \/ IceFails \/ PumpDatagram \/ PumpReadState
  BY <1>11 DEF IceUp, Enter, IceFails, IceDown, PumpDatagram, PumpReadState
<1>12. ASSUME NEW t \in Thread, HookLock(t) PROVE Labelled'
  BY <1>12 DEF HookLock, Lock, Enter
<1>13. ASSUME NEW t \in Thread, FailSetState(t) PROVE Labelled'
  BY <1>13 DEF FailSetState, SetState
<1>14. ASSUME PumpWrite PROVE Labelled'
  BY <1>14 DEF PumpWrite
<1>15. CASE PumpCheckConnected \/ PumpFail \/ ReadClone \/ ReadCall
  BY <1>15 DEF PumpCheckConnected, PumpFail, ReadClone, ReadCall
<1>16. ASSUME SslRead PROVE Labelled'
  BY <1>16 DEF SslRead
<1>17. ASSUME ReadPeerClosed PROVE Labelled'
  BY <1>17 DEF ReadPeerClosed
<1>18. ASSUME NEW t \in Thread, CloseSetState(t) PROVE Labelled'
  BY <1>18 DEF CloseSetState, SetState
<1>19. ASSUME NEW t \in Thread, SendWrite(t) PROVE Labelled'
  BY <1>19 DEF SendWrite, Lock
<1>20. ASSUME NEW u \in User, NEW fp \in Fingerprint, set_remote_fingerprint(u, fp) PROVE Labelled'
  BY <1>20 DEF set_remote_fingerprint
<1>21. ASSUME NEW u \in User, NEW l \in Listener, set_callbacks(u, l) PROVE Labelled'
  BY <1>21 DEF set_callbacks
<1>22. CASE UNCHANGED vars
  BY <1>22 DEF vars
<1> QED BY <1>1, <1>2, <1>3, <1>4, <1>5, <1>6, <1>7, <1>8, <1>9, <1>10, <1>11, <1>12, <1>13,
  <1>14, <1>15, <1>16, <1>17, <1>18, <1>19, <1>20, <1>21, <1>22 DEF Next, Acquire, Step,
  DriverStep, Call, Event

\* So the type invariant is kept, by the debts alone.
LEMMA KeepsTypes == TypeOK /\ Debts /\ [Next]_vars => TypeOK'
<1> SUFFICES ASSUME TypeOK, Debts, [Next]_vars PROVE TypeOK'
  OBVIOUS
<1>1. CellsTyped /\ TlsTyped /\ LocalsTyped /\ HistoryTyped /\ Labelled
  BY TypeParts
<1>2. CellsTyped' /\ TlsTyped' /\ LocalsTyped' /\ HistoryTyped' /\ Labelled'
  BY <1>1, KeepsCells, KeepsTls, KeepsLocals, KeepsHistory, KeepsLabels
<1> QED BY <1>2 DEF TypeOK, CellsTyped, TlsTyped, LocalsTyped, HistoryTyped, Labelled

\* Every change of the state is followed by notify, and by nothing else.
LEMMA KeepsDebts == TypeOK /\ Debts /\ [Next]_vars => Debts'
<1> SUFFICES ASSUME TypeOK, Debts, [Next]_vars PROVE Debts'
  OBVIOUS
<1> User \subseteq Thread /\ driver \in Thread /\ nobody \notin Thread
  BY DtlsAssumption DEF Thread
<1> USE DEF TypeOK, Debts, Goto, cells, tls, locals, history
<1>1. ASSUME NEW t \in Thread, NotifyClone(t) PROVE Debts'
  BY <1>1 DEF NotifyClone
<1>2. ASSUME NEW t \in Thread, NotifyCall(t) PROVE Debts'
  BY <1>2 DEF NotifyCall, AfterDrive
<1>3. ASSUME NEW u \in User, StartCheckClosed(u) PROVE Debts'
  BY <1>3 DEF StartCheckClosed, Begin, Enter
<1>4. ASSUME NEW t \in Thread, StartSwapStarted(t) PROVE Debts'
  BY <1>4 DEF StartSwapStarted, AfterStart
<1>5. ASSUME NEW t \in Thread, StartSetState(t) PROVE Debts'
  BY <1>5 DEF StartSetState, AfterStart, SetState
<1>6. ASSUME NEW t \in Thread, StartSnapshot(t) PROVE Debts'
  BY <1>6 DEF StartSnapshot
<1>7. ASSUME NEW t \in Thread, StartInstall(t) PROVE Debts'
  BY <1>7 DEF StartInstall
<1>8. ASSUME NEW t \in Thread, StartLock(t) PROVE Debts'
  BY <1>8 DEF StartLock, Lock
<1>9. ASSUME NEW t \in Thread, Drive(t) PROVE Debts'
  BY <1>9 DEF Drive
<1>10. ASSUME NEW t \in Thread, DrainEmpty(t) PROVE Debts'
  BY <1>10 DEF DrainEmpty, AfterDrain
<1>11. ASSUME NEW t \in Thread, DrainSend(t) PROVE Debts'
  <2>1. PICK to \in {"drain", AfterDrain(t), AfterError(t)} : Goto(t, "drain", to)
    BY <1>11, DrainGoes
  <2> QED BY <1>11, <2>1 DEF DrainSend, AfterDrain, AfterError
<1>12. ASSUME NEW t \in Thread, DriveResult(t) PROVE Debts'
  BY <1>12 DEF DriveResult, AfterError, AfterDrive
<1>13. ASSUME NEW t \in Thread, DriveSetConnected(t) PROVE Debts'
  BY <1>13 DEF DriveSetConnected, SetState
<1>14. ASSUME NEW t \in Thread, Unlock(t) PROVE Debts'
  BY <1>14 DEF Unlock, AfterStart
<1>15. ASSUME IceUp PROVE Debts'
  BY <1>15 DEF IceUp, Enter
<1>16. ASSUME NEW t \in Thread, HookLock(t) PROVE Debts'
  BY <1>16 DEF HookLock, Lock, Enter
<1>17. ASSUME IceFails PROVE Debts'
  BY <1>17 DEF IceFails, IceDown
<1>18. ASSUME NEW u \in User, IceCloses(u) PROVE Debts'
  BY <1>18 DEF IceCloses, IceDown
<1>19. ASSUME NEW t \in Thread, FailSetState(t) PROVE Debts'
  BY <1>19 DEF FailSetState, SetState
<1>20. ASSUME PumpDatagram PROVE Debts'
  BY <1>20 DEF PumpDatagram, Enter
<1>21. ASSUME PumpWrite PROVE Debts'
  BY <1>21 DEF PumpWrite
<1>22. ASSUME PumpReadState PROVE Debts'
  BY <1>22 DEF PumpReadState
<1>23. ASSUME PumpCheckConnected PROVE Debts'
  BY <1>23 DEF PumpCheckConnected
<1>24. ASSUME PumpFail PROVE Debts'
  BY <1>24 DEF PumpFail
<1>25. ASSUME SslRead PROVE Debts'
  <2>1. PICK to \in {"read:clone", "unlock", "read:peer closed"} : Goto(driver, "read", to)
    BY <1>25 DEF SslRead
  <2> QED BY <1>25, <2>1 DEF SslRead
<1>26. ASSUME ReadClone PROVE Debts'
  BY <1>26 DEF ReadClone
<1>27. ASSUME ReadCall PROVE Debts'
  BY <1>27 DEF ReadCall
<1>28. ASSUME ReadPeerClosed PROVE Debts'
  BY <1>28 DEF ReadPeerClosed
<1>29. ASSUME NEW u \in User, close(u) PROVE Debts'
  BY <1>29 DEF close
<1>30. ASSUME NEW t \in Thread, CloseSwapClosed(t) PROVE Debts'
  BY <1>30 DEF CloseSwapClosed
<1>31. ASSUME NEW t \in Thread, CloseSetState(t) PROVE Debts'
  BY <1>31 DEF CloseSetState, SetState
<1>32. ASSUME NEW u \in User, SendCheckClosed(u) PROVE Debts'
  BY <1>32 DEF SendCheckClosed, Begin, Enter
<1>33. ASSUME NEW t \in Thread, SendCheckState(t) PROVE Debts'
  BY <1>33 DEF SendCheckState
<1>34. ASSUME NEW t \in Thread, SendWrite(t) PROVE Debts'
  <2>1. PICK to \in {"drain", "unlock"} : Goto(t, "send:lock", to)
    BY <1>34 DEF SendWrite
  <2> QED BY <1>34, <2>1 DEF SendWrite, Lock
<1>35. ASSUME NEW u \in User, NEW fp \in Fingerprint, set_remote_fingerprint(u, fp) PROVE Debts'
  BY <1>35 DEF set_remote_fingerprint
<1>36. ASSUME NEW u \in User, NEW l \in Listener, set_callbacks(u, l) PROVE Debts'
  BY <1>36 DEF set_callbacks
<1>37. CASE UNCHANGED vars
  BY <1>37 DEF vars
<1> QED BY <1>1, <1>2, <1>3, <1>4, <1>5, <1>6, <1>7, <1>8, <1>9, <1>10, <1>11, <1>12, <1>13,
  <1>14, <1>15, <1>16, <1>17, <1>18, <1>19, <1>20, <1>21, <1>22, <1>23, <1>24, <1>25, <1>26,
  <1>27, <1>28, <1>29, <1>30, <1>31, <1>32, <1>33, <1>34, <1>35, <1>36, <1>37 DEF Next, Acquire,
  Step, DriverStep, Call, Event

\* inner is taken where it is free and dropped by its holder, on every path.
LEMMA KeepsMutex == TypeOK /\ Debts /\ Mutex /\ [Next]_vars => Mutex'
<1> SUFFICES ASSUME TypeOK, Debts, Mutex, [Next]_vars PROVE Mutex'
  OBVIOUS
<1> User \subseteq Thread /\ driver \in Thread /\ nobody \notin Thread
  BY DtlsAssumption DEF Thread
<1> USE DEF TypeOK, Debts, Goto, cells, tls, locals, history
<1>1. ASSUME NEW t \in Thread, NotifyClone(t) PROVE Mutex'
  BY <1>1 DEF NotifyClone, Mutex, Holds, Locked
<1>2. ASSUME NEW t \in Thread, NotifyCall(t) PROVE Mutex'
  <2>1. Holds(t)' <=> Holds(t)
    BY <1>2 DEF NotifyCall, AfterDrive, Holds, Locked
  <2>2. inner' = inner /\ \A u \in Thread \ {t} : pc'[u] = pc[u] /\ owes'[u] = owes[u]
    BY <1>2 DEF NotifyCall
  <2> QED BY <2>1, <2>2, HolderKept
<1>3. ASSUME NEW u \in User, StartCheckClosed(u) PROVE Mutex'
  BY <1>3 DEF StartCheckClosed, Begin, Enter, Mutex, Holds, Locked
<1>4. ASSUME NEW t \in Thread, StartSwapStarted(t) PROVE Mutex'
  BY <1>4 DEF StartSwapStarted, AfterStart, Mutex, Holds, Locked
<1>5. ASSUME NEW t \in Thread, StartSetState(t) PROVE Mutex'
  <2>1. Holds(t)' <=> Holds(t)
    BY <1>5 DEF StartSetState, AfterStart, SetState, Holds, Locked
  <2>2. inner' = inner /\ \A u \in Thread \ {t} : pc'[u] = pc[u] /\ owes'[u] = owes[u]
    BY <1>5 DEF StartSetState, SetState
  <2> QED BY <2>1, <2>2, HolderKept
<1>6. ASSUME NEW t \in Thread, StartSnapshot(t) PROVE Mutex'
  BY <1>6 DEF StartSnapshot, Mutex, Holds, Locked
<1>7. ASSUME NEW t \in Thread, StartInstall(t) PROVE Mutex'
  BY <1>7 DEF StartInstall, Mutex, Holds, Locked
<1>8. ASSUME NEW t \in Thread, StartLock(t) PROVE Mutex'
  <2>1. Holds(t)' /\ inner = nobody /\ inner' = t
    BY <1>8 DEF StartLock, Lock, Holds, Locked
  <2>2. \A u \in Thread \ {t} : pc'[u] = pc[u] /\ owes'[u] = owes[u]
    BY <1>8 DEF StartLock, Lock
  <2> QED BY <2>1, <2>2, HolderTakes
<1>9. ASSUME NEW t \in Thread, Drive(t) PROVE Mutex'
  BY <1>9 DEF Drive, Mutex, Holds, Locked
<1>10. ASSUME NEW t \in Thread, DrainEmpty(t) PROVE Mutex'
  BY <1>10 DEF DrainEmpty, AfterDrain, Mutex, Holds, Locked
<1>11. ASSUME NEW t \in Thread, DrainSend(t) PROVE Mutex'
  <2>1. PICK to \in {"drain", AfterDrain(t), AfterError(t)} : Goto(t, "drain", to)
    BY <1>11, DrainGoes
  <2>2. Holds(t) /\ Holds(t)'
    BY <2>1 DEF AfterDrain, AfterError, Holds, Locked
  <2>3. inner' = inner /\ \A u \in Thread \ {t} : pc'[u] = pc[u] /\ owes'[u] = owes[u]
    BY <1>11, <2>1 DEF DrainSend
  <2> QED BY <2>2, <2>3, HolderKept
<1>12. ASSUME NEW t \in Thread, DriveResult(t) PROVE Mutex'
  BY <1>12 DEF DriveResult, AfterError, AfterDrive, Mutex, Holds, Locked
<1>13. ASSUME NEW t \in Thread, DriveSetConnected(t) PROVE Mutex'
  BY <1>13 DEF DriveSetConnected, SetState, Mutex, Holds, Locked
<1>14. ASSUME NEW t \in Thread, Unlock(t) PROVE Mutex'
  <2>1. Holds(t) /\ ~Holds(t)' /\ inner' = nobody
    BY <1>14 DEF Unlock, AfterStart, Holds, Locked
  <2>2. \A u \in Thread \ {t} : pc'[u] = pc[u] /\ owes'[u] = owes[u]
    BY <1>14 DEF Unlock
  <2> QED BY <2>1, <2>2, HolderLeaves
<1>15. ASSUME IceUp PROVE Mutex'
  BY <1>15 DEF IceUp, Enter, Mutex, Holds, Locked
<1>16. ASSUME NEW t \in Thread, HookLock(t) PROVE Mutex'
  <2>1. Holds(t)' /\ inner = nobody /\ inner' = t
    BY <1>16 DEF HookLock, Lock, Enter, Holds, Locked
  <2>2. \A u \in Thread \ {t} : pc'[u] = pc[u] /\ owes'[u] = owes[u]
    BY <1>16 DEF HookLock, Lock, Enter
  <2> QED BY <2>1, <2>2, HolderTakes
<1>17. ASSUME IceFails PROVE Mutex'
  BY <1>17 DEF IceFails, IceDown, Mutex, Holds, Locked
<1>18. ASSUME NEW u \in User, IceCloses(u) PROVE Mutex'
  BY <1>18 DEF IceCloses, IceDown, Mutex, Holds, Locked
<1>19. ASSUME NEW t \in Thread, FailSetState(t) PROVE Mutex'
  <2>1. Holds(t)' <=> Holds(t)
    BY <1>19 DEF FailSetState, SetState, Holds, Locked
  <2>2. inner' = inner /\ \A u \in Thread \ {t} : pc'[u] = pc[u] /\ owes'[u] = owes[u]
    BY <1>19 DEF FailSetState, SetState
  <2> QED BY <2>1, <2>2, HolderKept
<1>20. ASSUME PumpDatagram PROVE Mutex'
  BY <1>20 DEF PumpDatagram, Enter, Mutex, Holds, Locked
<1>21. ASSUME PumpWrite PROVE Mutex'
  <2>1. CASE inner' = driver /\ Goto(driver, "pump:lock", "pump:read state")
    <3>1. Holds(driver)' /\ inner = nobody
      BY <1>21, <2>1 DEF PumpWrite, Holds, Locked
    <3>2. \A u \in Thread \ {driver} : pc'[u] = pc[u] /\ owes'[u] = owes[u]
      BY <1>21, <2>1 DEF PumpWrite
    <3> QED BY <2>1, <3>1, <3>2, HolderTakes
  <2>2. CASE inner' = inner /\ Goto(driver, "pump:lock", "idle")
    <3>1. ~Holds(driver)' /\ ~Holds(driver)
      BY <1>21, <2>2 DEF PumpWrite, Holds, Locked
    <3>2. \A u \in Thread \ {driver} : pc'[u] = pc[u] /\ owes'[u] = owes[u]
      BY <1>21, <2>2 DEF PumpWrite
    <3> QED BY <2>2, <3>1, <3>2, HolderKept
  <2> QED BY <1>21, <2>1, <2>2 DEF PumpWrite
<1>22. ASSUME PumpReadState PROVE Mutex'
  BY <1>22 DEF PumpReadState, Mutex, Holds, Locked
<1>23. ASSUME PumpCheckConnected PROVE Mutex'
  BY <1>23 DEF PumpCheckConnected, Mutex, Holds, Locked
<1>24. ASSUME PumpFail PROVE Mutex'
  <2>1. Holds(driver) /\ ~Holds(driver)' /\ inner' = nobody
    BY <1>24 DEF PumpFail, Holds, Locked
  <2>2. \A u \in Thread \ {driver} : pc'[u] = pc[u] /\ owes'[u] = owes[u]
    BY <1>24 DEF PumpFail
  <2> QED BY <2>1, <2>2, HolderLeaves
<1>25. ASSUME SslRead PROVE Mutex'
  <2>1. PICK to \in {"read:clone", "unlock", "read:peer closed"} : Goto(driver, "read", to)
    BY <1>25 DEF SslRead
  <2>2. Holds(driver) /\ Holds(driver)'
    BY <2>1 DEF Holds, Locked
  <2>3. inner' = inner /\ \A u \in Thread \ {driver} : pc'[u] = pc[u] /\ owes'[u] = owes[u]
    BY <1>25, <2>1 DEF SslRead
  <2> QED BY <2>2, <2>3, HolderKept
<1>26. ASSUME ReadClone PROVE Mutex'
  BY <1>26 DEF ReadClone, Mutex, Holds, Locked
<1>27. ASSUME ReadCall PROVE Mutex'
  BY <1>27 DEF ReadCall, Mutex, Holds, Locked
<1>28. ASSUME ReadPeerClosed PROVE Mutex'
  <2>1. Holds(driver) /\ ~Holds(driver)' /\ inner' = nobody
    BY <1>28 DEF ReadPeerClosed, Holds, Locked
  <2>2. \A u \in Thread \ {driver} : pc'[u] = pc[u] /\ owes'[u] = owes[u]
    BY <1>28 DEF ReadPeerClosed
  <2> QED BY <2>1, <2>2, HolderLeaves
<1>29. ASSUME NEW u \in User, close(u) PROVE Mutex'
  BY <1>29 DEF close, Mutex, Holds, Locked
<1>30. ASSUME NEW t \in Thread, CloseSwapClosed(t) PROVE Mutex'
  BY <1>30 DEF CloseSwapClosed, Mutex, Holds, Locked
<1>31. ASSUME NEW t \in Thread, CloseSetState(t) PROVE Mutex'
  <2>1. Holds(t)' <=> Holds(t)
    BY <1>31 DEF CloseSetState, SetState, Holds, Locked
  <2>2. inner' = inner /\ \A u \in Thread \ {t} : pc'[u] = pc[u] /\ owes'[u] = owes[u]
    BY <1>31 DEF CloseSetState, SetState
  <2> QED BY <2>1, <2>2, HolderKept
<1>32. ASSUME NEW u \in User, SendCheckClosed(u) PROVE Mutex'
  BY <1>32 DEF SendCheckClosed, Begin, Enter, Mutex, Holds, Locked
<1>33. ASSUME NEW t \in Thread, SendCheckState(t) PROVE Mutex'
  BY <1>33 DEF SendCheckState, Mutex, Holds, Locked
<1>34. ASSUME NEW t \in Thread, SendWrite(t) PROVE Mutex'
  <2>1. Holds(t)' /\ inner = nobody /\ inner' = t
    BY <1>34 DEF SendWrite, Lock, Holds, Locked
  <2>2. \A u \in Thread \ {t} : pc'[u] = pc[u] /\ owes'[u] = owes[u]
    BY <1>34 DEF SendWrite, Lock
  <2> QED BY <2>1, <2>2, HolderTakes
<1>35. ASSUME NEW u \in User, NEW fp \in Fingerprint, set_remote_fingerprint(u, fp) PROVE Mutex'
  BY <1>35 DEF set_remote_fingerprint, Mutex, Holds, Locked
<1>36. ASSUME NEW u \in User, NEW l \in Listener, set_callbacks(u, l) PROVE Mutex'
  BY <1>36 DEF set_callbacks, Mutex, Holds, Locked
<1>37. CASE UNCHANGED vars
  BY <1>37 DEF vars, Mutex, Holds
<1> QED BY <1>1, <1>2, <1>3, <1>4, <1>5, <1>6, <1>7, <1>8, <1>9, <1>10, <1>11, <1>12, <1>13,
  <1>14, <1>15, <1>16, <1>17, <1>18, <1>19, <1>20, <1>21, <1>22, <1>23, <1>24, <1>25, <1>26,
  <1>27, <1>28, <1>29, <1>30, <1>31, <1>32, <1>33, <1>34, <1>35, <1>36, <1>37 DEF Next, Acquire,
  Step, DriverStep, Call, Event

\* The pump is entered by the driver task, past hooks that are never removed.
LEMMA KeepsContexts == TypeOK /\ Debts /\ Contexts /\ [Next]_vars => Contexts'
<1> SUFFICES ASSUME TypeOK, Debts, Contexts, [Next]_vars PROVE Contexts'
  OBVIOUS
<1> User \subseteq Thread /\ driver \in Thread /\ nobody \notin Thread
  BY DtlsAssumption DEF Thread
<1> USE DEF TypeOK, Debts, Contexts, PumpLabel, Goto, cells, tls, locals, history
<1>1. ASSUME NEW t \in Thread, NotifyClone(t) PROVE Contexts'
  BY <1>1 DEF NotifyClone
<1>2. ASSUME NEW t \in Thread, NotifyCall(t) PROVE Contexts'
  BY <1>2 DEF NotifyCall, AfterDrive
<1>3. ASSUME NEW u \in User, StartCheckClosed(u) PROVE Contexts'
  BY <1>3 DEF StartCheckClosed, Begin, Enter
<1>4. ASSUME NEW t \in Thread, StartSwapStarted(t) PROVE Contexts'
  BY <1>4 DEF StartSwapStarted, AfterStart
<1>5. ASSUME NEW t \in Thread, StartSetState(t) PROVE Contexts'
  BY <1>5 DEF StartSetState, AfterStart, SetState
<1>6. ASSUME NEW t \in Thread, StartSnapshot(t) PROVE Contexts'
  BY <1>6 DEF StartSnapshot
<1>7. ASSUME NEW t \in Thread, StartInstall(t) PROVE Contexts'
  BY <1>7 DEF StartInstall
<1>8. ASSUME NEW t \in Thread, StartLock(t) PROVE Contexts'
  BY <1>8 DEF StartLock, Lock
<1>9. ASSUME NEW t \in Thread, Drive(t) PROVE Contexts'
  BY <1>9 DEF Drive
<1>10. ASSUME NEW t \in Thread, DrainEmpty(t) PROVE Contexts'
  BY <1>10 DEF DrainEmpty, AfterDrain
<1>11. ASSUME NEW t \in Thread, DrainSend(t) PROVE Contexts'
  <2>1. PICK to \in {"drain", AfterDrain(t), AfterError(t)} : Goto(t, "drain", to)
    BY <1>11, DrainGoes
  <2> QED BY <1>11, <2>1 DEF DrainSend, AfterDrain, AfterError
<1>12. ASSUME NEW t \in Thread, DriveResult(t) PROVE Contexts'
  BY <1>12 DEF DriveResult, AfterError, AfterDrive
<1>13. ASSUME NEW t \in Thread, DriveSetConnected(t) PROVE Contexts'
  BY <1>13 DEF DriveSetConnected, SetState
<1>14. ASSUME NEW t \in Thread, Unlock(t) PROVE Contexts'
  BY <1>14 DEF Unlock, AfterStart
<1>15. ASSUME IceUp PROVE Contexts'
  BY <1>15 DEF IceUp, Enter
<1>16. ASSUME NEW t \in Thread, HookLock(t) PROVE Contexts'
  BY <1>16 DEF HookLock, Lock, Enter
<1>17. ASSUME IceFails PROVE Contexts'
  BY <1>17 DEF IceFails, IceDown
<1>18. ASSUME NEW u \in User, IceCloses(u) PROVE Contexts'
  BY <1>18 DEF IceCloses, IceDown
<1>19. ASSUME NEW t \in Thread, FailSetState(t) PROVE Contexts'
  BY <1>19 DEF FailSetState, SetState
<1>20. ASSUME PumpDatagram PROVE Contexts'
  BY <1>20 DEF PumpDatagram, Enter
<1>21. ASSUME PumpWrite PROVE Contexts'
  <2>1. PICK to \in {"pump:read state", "idle"} : Goto(driver, "pump:lock", to)
    BY <1>21 DEF PumpWrite
  <2> QED BY <1>21, <2>1 DEF PumpWrite
<1>22. ASSUME PumpReadState PROVE Contexts'
  BY <1>22 DEF PumpReadState
<1>23. ASSUME PumpCheckConnected PROVE Contexts'
  BY <1>23 DEF PumpCheckConnected
<1>24. ASSUME PumpFail PROVE Contexts'
  BY <1>24 DEF PumpFail
<1>25. ASSUME SslRead PROVE Contexts'
  <2>1. PICK to \in {"read:clone", "unlock", "read:peer closed"} : Goto(driver, "read", to)
    BY <1>25 DEF SslRead
  <2> QED BY <1>25, <2>1 DEF SslRead
<1>26. ASSUME ReadClone PROVE Contexts'
  BY <1>26 DEF ReadClone
<1>27. ASSUME ReadCall PROVE Contexts'
  BY <1>27 DEF ReadCall
<1>28. ASSUME ReadPeerClosed PROVE Contexts'
  BY <1>28 DEF ReadPeerClosed
<1>29. ASSUME NEW u \in User, close(u) PROVE Contexts'
  BY <1>29 DEF close
<1>30. ASSUME NEW t \in Thread, CloseSwapClosed(t) PROVE Contexts'
  BY <1>30 DEF CloseSwapClosed
<1>31. ASSUME NEW t \in Thread, CloseSetState(t) PROVE Contexts'
  BY <1>31 DEF CloseSetState, SetState
<1>32. ASSUME NEW u \in User, SendCheckClosed(u) PROVE Contexts'
  BY <1>32 DEF SendCheckClosed, Begin, Enter
<1>33. ASSUME NEW t \in Thread, SendCheckState(t) PROVE Contexts'
  BY <1>33 DEF SendCheckState
<1>34. ASSUME NEW t \in Thread, SendWrite(t) PROVE Contexts'
  <2>1. PICK to \in {"drain", "unlock"} : Goto(t, "send:lock", to)
    BY <1>34 DEF SendWrite
  <2> QED BY <1>34, <2>1 DEF SendWrite, Lock
<1>35. ASSUME NEW u \in User, NEW fp \in Fingerprint, set_remote_fingerprint(u, fp) PROVE Contexts'
  BY <1>35 DEF set_remote_fingerprint
<1>36. ASSUME NEW u \in User, NEW l \in Listener, set_callbacks(u, l) PROVE Contexts'
  BY <1>36 DEF set_callbacks
<1>37. CASE UNCHANGED vars
  BY <1>37 DEF vars
<1> QED BY <1>1, <1>2, <1>3, <1>4, <1>5, <1>6, <1>7, <1>8, <1>9, <1>10, <1>11, <1>12, <1>13,
  <1>14, <1>15, <1>16, <1>17, <1>18, <1>19, <1>20, <1>21, <1>22, <1>23, <1>24, <1>25, <1>26,
  <1>27, <1>28, <1>29, <1>30, <1>31, <1>32, <1>33, <1>34, <1>35, <1>36, <1>37 DEF Next, Acquire,
  Step, DriverStep, Call, Event

\* New is left before the hooks and OpenSSL are touched, and never comes back.
LEMMA KeepsNotNew == TypeOK /\ Debts /\ Contexts /\ NotNew /\ [Next]_vars => NotNew'
<1> SUFFICES ASSUME TypeOK, Debts, Contexts, NotNew, [Next]_vars PROVE NotNew'
  OBVIOUS
<1> User \subseteq Thread /\ driver \in Thread /\ nobody \notin Thread
  BY DtlsAssumption DEF Thread
<1> USE DEF TypeOK, Debts, Contexts, PumpLabel, NotNew, PastConnecting, Goto, cells, tls,
  locals, history
<1>1. ASSUME NEW t \in Thread, NotifyClone(t) PROVE NotNew'
  BY <1>1 DEF NotifyClone
<1>2. ASSUME NEW t \in Thread, NotifyCall(t) PROVE NotNew'
  BY <1>2 DEF NotifyCall, AfterDrive
<1>3. ASSUME NEW u \in User, StartCheckClosed(u) PROVE NotNew'
  BY <1>3 DEF StartCheckClosed, Begin, Enter
<1>4. ASSUME NEW t \in Thread, StartSwapStarted(t) PROVE NotNew'
  BY <1>4 DEF StartSwapStarted, AfterStart
<1>5. ASSUME NEW t \in Thread, StartSetState(t) PROVE NotNew'
  BY <1>5 DEF StartSetState, AfterStart, SetState
<1>6. ASSUME NEW t \in Thread, StartSnapshot(t) PROVE NotNew'
  BY <1>6 DEF StartSnapshot
<1>7. ASSUME NEW t \in Thread, StartInstall(t) PROVE NotNew'
  BY <1>7 DEF StartInstall
<1>8. ASSUME NEW t \in Thread, StartLock(t) PROVE NotNew'
  BY <1>8 DEF StartLock, Lock
<1>9. ASSUME NEW t \in Thread, Drive(t) PROVE NotNew'
  BY <1>9 DEF Drive
<1>10. ASSUME NEW t \in Thread, DrainEmpty(t) PROVE NotNew'
  BY <1>10 DEF DrainEmpty, AfterDrain
<1>11. ASSUME NEW t \in Thread, DrainSend(t) PROVE NotNew'
  <2>1. PICK to \in {"drain", AfterDrain(t), AfterError(t)} : Goto(t, "drain", to)
    BY <1>11, DrainGoes
  <2> QED BY <1>11, <2>1 DEF DrainSend, AfterDrain, AfterError
<1>12. ASSUME NEW t \in Thread, DriveResult(t) PROVE NotNew'
  BY <1>12 DEF DriveResult, AfterError, AfterDrive
<1>13. ASSUME NEW t \in Thread, DriveSetConnected(t) PROVE NotNew'
  BY <1>13 DEF DriveSetConnected, SetState
<1>14. ASSUME NEW t \in Thread, Unlock(t) PROVE NotNew'
  BY <1>14 DEF Unlock, AfterStart
<1>15. ASSUME IceUp PROVE NotNew'
  BY <1>15 DEF IceUp, Enter
<1>16. ASSUME NEW t \in Thread, HookLock(t) PROVE NotNew'
  BY <1>16 DEF HookLock, Lock, Enter
<1>17. ASSUME IceFails PROVE NotNew'
  BY <1>17 DEF IceFails, IceDown
<1>18. ASSUME NEW u \in User, IceCloses(u) PROVE NotNew'
  BY <1>18 DEF IceCloses, IceDown
<1>19. ASSUME NEW t \in Thread, FailSetState(t) PROVE NotNew'
  BY <1>19 DEF FailSetState, SetState
<1>20. ASSUME PumpDatagram PROVE NotNew'
  BY <1>20 DEF PumpDatagram, Enter
<1>21. ASSUME PumpWrite PROVE NotNew'
  BY <1>21 DEF PumpWrite
<1>22. ASSUME PumpReadState PROVE NotNew'
  BY <1>22 DEF PumpReadState
<1>23. ASSUME PumpCheckConnected PROVE NotNew'
  BY <1>23 DEF PumpCheckConnected
<1>24. ASSUME PumpFail PROVE NotNew'
  BY <1>24 DEF PumpFail
<1>25. ASSUME SslRead PROVE NotNew'
  <2>1. PICK to \in {"read:clone", "unlock", "read:peer closed"} : Goto(driver, "read", to)
    BY <1>25 DEF SslRead
  <2> QED BY <1>25, <2>1 DEF SslRead
<1>26. ASSUME ReadClone PROVE NotNew'
  BY <1>26 DEF ReadClone
<1>27. ASSUME ReadCall PROVE NotNew'
  BY <1>27 DEF ReadCall
<1>28. ASSUME ReadPeerClosed PROVE NotNew'
  BY <1>28 DEF ReadPeerClosed
<1>29. ASSUME NEW u \in User, close(u) PROVE NotNew'
  BY <1>29 DEF close
<1>30. ASSUME NEW t \in Thread, CloseSwapClosed(t) PROVE NotNew'
  BY <1>30 DEF CloseSwapClosed
<1>31. ASSUME NEW t \in Thread, CloseSetState(t) PROVE NotNew'
  BY <1>31 DEF CloseSetState, SetState
<1>32. ASSUME NEW u \in User, SendCheckClosed(u) PROVE NotNew'
  BY <1>32 DEF SendCheckClosed, Begin, Enter
<1>33. ASSUME NEW t \in Thread, SendCheckState(t) PROVE NotNew'
  BY <1>33 DEF SendCheckState
<1>34. ASSUME NEW t \in Thread, SendWrite(t) PROVE NotNew'
  <2>1. PICK to \in {"drain", "unlock"} : Goto(t, "send:lock", to)
    BY <1>34 DEF SendWrite
  <2> QED BY <1>34, <2>1 DEF SendWrite, Lock
<1>35. ASSUME NEW u \in User, NEW fp \in Fingerprint, set_remote_fingerprint(u, fp) PROVE NotNew'
  BY <1>35 DEF set_remote_fingerprint
<1>36. ASSUME NEW u \in User, NEW l \in Listener, set_callbacks(u, l) PROVE NotNew'
  BY <1>36 DEF set_callbacks
<1>37. CASE UNCHANGED vars
  BY <1>37 DEF vars
<1> QED BY <1>1, <1>2, <1>3, <1>4, <1>5, <1>6, <1>7, <1>8, <1>9, <1>10, <1>11, <1>12, <1>13,
  <1>14, <1>15, <1>16, <1>17, <1>18, <1>19, <1>20, <1>21, <1>22, <1>23, <1>24, <1>25, <1>26,
  <1>27, <1>28, <1>29, <1>30, <1>31, <1>32, <1>33, <1>34, <1>35, <1>36, <1>37 DEF Next, Acquire,
  Step, DriverStep, Call, Event

\* The verify callback asks for the pinned fingerprint; done is final.
LEMMA KeepsPinned == TypeOK /\ Debts /\ Pinned /\ [Next]_vars => Pinned'
<1> SUFFICES ASSUME TypeOK, Debts, Pinned, [Next]_vars PROVE Pinned'
  OBVIOUS
<1> User \subseteq Thread /\ driver \in Thread /\ nobody \notin Thread
  BY DtlsAssumption DEF Thread
<1> USE DEF TypeOK, Debts, Pinned, Goto, cells, tls, locals, history
<1>1. ASSUME NEW t \in Thread, NotifyClone(t) PROVE Pinned'
  BY <1>1 DEF NotifyClone
<1>2. ASSUME NEW t \in Thread, NotifyCall(t) PROVE Pinned'
  <2>1. told'["Connected"] # 0 => told["Connected"] # 0 \/ owes[t] = "Connected"
    BY <1>2 DEF NotifyCall, DtlsState
  <2>2. ssl' = ssl /\ pc'[t] # "drive:set connected"
    BY <1>2 DEF NotifyCall, AfterDrive
  <2> QED BY <1>2, <2>1, <2>2 DEF NotifyCall
<1>3. ASSUME NEW u \in User, StartCheckClosed(u) PROVE Pinned'
  BY <1>3 DEF StartCheckClosed, Begin, Enter
<1>4. ASSUME NEW t \in Thread, StartSwapStarted(t) PROVE Pinned'
  BY <1>4 DEF StartSwapStarted, AfterStart
<1>5. ASSUME NEW t \in Thread, StartSetState(t) PROVE Pinned'
  BY <1>5 DEF StartSetState, AfterStart, SetState
<1>6. ASSUME NEW t \in Thread, StartSnapshot(t) PROVE Pinned'
  BY <1>6 DEF StartSnapshot
<1>7. ASSUME NEW t \in Thread, StartInstall(t) PROVE Pinned'
  BY <1>7 DEF StartInstall
<1>8. ASSUME NEW t \in Thread, StartLock(t) PROVE Pinned'
  BY <1>8 DEF StartLock, Lock
<1>9. ASSUME NEW t \in Thread, Drive(t) PROVE Pinned'
  <2>1. UNCHANGED <<expected, trusted, state, told, handshake_done, owes>>
    BY <1>9 DEF Drive
  <2>2. \A u \in Thread : pc'[u] = "drive:set connected" => pc[u] = "drive:set connected"
    BY <1>9, DriveDoes
  <2> QED BY <1>9, <2>1, <2>2, DriveDoes
<1>10. ASSUME NEW t \in Thread, DrainEmpty(t) PROVE Pinned'
  BY <1>10 DEF DrainEmpty, AfterDrain
<1>11. ASSUME NEW t \in Thread, DrainSend(t) PROVE Pinned'
  <2>1. PICK to \in {"drain", AfterDrain(t), AfterError(t)} : Goto(t, "drain", to)
    BY <1>11, DrainGoes
  <2> QED BY <1>11, <2>1 DEF DrainSend, AfterDrain, AfterError
<1>12. ASSUME NEW t \in Thread, DriveResult(t) PROVE Pinned'
  BY <1>12 DEF DriveResult, AfterError, AfterDrive
<1>13. ASSUME NEW t \in Thread, DriveSetConnected(t) PROVE Pinned'
  BY <1>13 DEF DriveSetConnected, SetState
<1>14. ASSUME NEW t \in Thread, Unlock(t) PROVE Pinned'
  BY <1>14 DEF Unlock, AfterStart
<1>15. ASSUME IceUp PROVE Pinned'
  BY <1>15 DEF IceUp, Enter
<1>16. ASSUME NEW t \in Thread, HookLock(t) PROVE Pinned'
  BY <1>16 DEF HookLock, Lock, Enter
<1>17. ASSUME IceFails PROVE Pinned'
  BY <1>17 DEF IceFails, IceDown
<1>18. ASSUME NEW u \in User, IceCloses(u) PROVE Pinned'
  BY <1>18 DEF IceCloses, IceDown
<1>19. ASSUME NEW t \in Thread, FailSetState(t) PROVE Pinned'
  BY <1>19 DEF FailSetState, SetState
<1>20. ASSUME PumpDatagram PROVE Pinned'
  BY <1>20 DEF PumpDatagram, Enter
<1>21. ASSUME PumpWrite PROVE Pinned'
  BY <1>21 DEF PumpWrite
<1>22. ASSUME PumpReadState PROVE Pinned'
  BY <1>22 DEF PumpReadState
<1>23. ASSUME PumpCheckConnected PROVE Pinned'
  BY <1>23 DEF PumpCheckConnected
<1>24. ASSUME PumpFail PROVE Pinned'
  BY <1>24 DEF PumpFail
<1>25. ASSUME SslRead PROVE Pinned'
  <2>1. PICK to \in {"read:clone", "unlock", "read:peer closed"} : Goto(driver, "read", to)
    BY <1>25 DEF SslRead
  <2> QED BY <1>25, <2>1 DEF SslRead
<1>26. ASSUME ReadClone PROVE Pinned'
  BY <1>26 DEF ReadClone
<1>27. ASSUME ReadCall PROVE Pinned'
  BY <1>27 DEF ReadCall
<1>28. ASSUME ReadPeerClosed PROVE Pinned'
  BY <1>28 DEF ReadPeerClosed
<1>29. ASSUME NEW u \in User, close(u) PROVE Pinned'
  BY <1>29 DEF close
<1>30. ASSUME NEW t \in Thread, CloseSwapClosed(t) PROVE Pinned'
  BY <1>30 DEF CloseSwapClosed
<1>31. ASSUME NEW t \in Thread, CloseSetState(t) PROVE Pinned'
  BY <1>31 DEF CloseSetState, SetState
<1>32. ASSUME NEW u \in User, SendCheckClosed(u) PROVE Pinned'
  BY <1>32 DEF SendCheckClosed, Begin, Enter
<1>33. ASSUME NEW t \in Thread, SendCheckState(t) PROVE Pinned'
  BY <1>33 DEF SendCheckState
<1>34. ASSUME NEW t \in Thread, SendWrite(t) PROVE Pinned'
  <2>1. PICK to \in {"drain", "unlock"} : Goto(t, "send:lock", to)
    BY <1>34 DEF SendWrite
  <2> QED BY <1>34, <2>1 DEF SendWrite, Lock
<1>35. ASSUME NEW u \in User, NEW fp \in Fingerprint, set_remote_fingerprint(u, fp) PROVE Pinned'
  BY <1>35 DEF set_remote_fingerprint
<1>36. ASSUME NEW u \in User, NEW l \in Listener, set_callbacks(u, l) PROVE Pinned'
  BY <1>36 DEF set_callbacks
<1>37. CASE UNCHANGED vars
  BY <1>37 DEF vars
<1> QED BY <1>1, <1>2, <1>3, <1>4, <1>5, <1>6, <1>7, <1>8, <1>9, <1>10, <1>11, <1>12, <1>13,
  <1>14, <1>15, <1>16, <1>17, <1>18, <1>19, <1>20, <1>21, <1>22, <1>23, <1>24, <1>25, <1>26,
  <1>27, <1>28, <1>29, <1>30, <1>31, <1>32, <1>33, <1>34, <1>35, <1>36, <1>37 DEF Next, Acquire,
  Step, DriverStep, Call, Event

\* Every other step makes nobody a starter.
LEMMA StarterSteps == TypeOK /\ Debts /\ [Next]_vars => StartersKept \/ \E v \in Thread :
  StartSwapStarted(v) \/ (NotifyCall(v) /\ owes[v] = "Connecting")
<1> SUFFICES ASSUME TypeOK, Debts, [Next]_vars PROVE StartersKept \/ \E v \in Thread :
  StartSwapStarted(v) \/ (NotifyCall(v) /\ owes[v] = "Connecting")
  OBVIOUS
<1> User \subseteq Thread /\ driver \in Thread /\ nobody \notin Thread
  BY DtlsAssumption DEF Thread
<1> USE DEF TypeOK, Debts, StartersKept, Starting, DtlsState, Goto, cells, tls, locals, history
<1>1. ASSUME NEW t \in Thread, NotifyClone(t) PROVE StartersKept \/ \E v \in Thread : StartSwapStarted(v) \/ (NotifyCall(v) /\ owes[v] = "Connecting")
  BY <1>1 DEF NotifyClone
<1>2. ASSUME NEW t \in Thread, NotifyCall(t) PROVE StartersKept \/ \E v \in Thread : StartSwapStarted(v) \/ (NotifyCall(v) /\ owes[v] = "Connecting")
  BY <1>2 DEF NotifyCall, AfterDrive
<1>3. ASSUME NEW u \in User, StartCheckClosed(u) PROVE StartersKept \/ \E v \in Thread : StartSwapStarted(v) \/ (NotifyCall(v) /\ owes[v] = "Connecting")
  BY <1>3 DEF StartCheckClosed, Begin, Enter
<1>4. ASSUME NEW t \in Thread, StartSwapStarted(t) PROVE StartersKept \/ \E v \in Thread : StartSwapStarted(v) \/ (NotifyCall(v) /\ owes[v] = "Connecting")
  <2>1. \E v \in Thread : StartSwapStarted(v) \/ (NotifyCall(v) /\ owes[v] = "Connecting")
    BY <1>4
  <2> HIDE DEF StartersKept
  <2> QED BY <2>1
<1>5. ASSUME NEW t \in Thread, StartSetState(t) PROVE StartersKept \/ \E v \in Thread : StartSwapStarted(v) \/ (NotifyCall(v) /\ owes[v] = "Connecting")
  BY <1>5 DEF StartSetState, AfterStart, SetState
<1>6. ASSUME NEW t \in Thread, StartSnapshot(t) PROVE StartersKept \/ \E v \in Thread : StartSwapStarted(v) \/ (NotifyCall(v) /\ owes[v] = "Connecting")
  BY <1>6 DEF StartSnapshot
<1>7. ASSUME NEW t \in Thread, StartInstall(t) PROVE StartersKept \/ \E v \in Thread : StartSwapStarted(v) \/ (NotifyCall(v) /\ owes[v] = "Connecting")
  BY <1>7 DEF StartInstall
<1>8. ASSUME NEW t \in Thread, StartLock(t) PROVE StartersKept \/ \E v \in Thread : StartSwapStarted(v) \/ (NotifyCall(v) /\ owes[v] = "Connecting")
  BY <1>8 DEF StartLock, Lock
<1>9. ASSUME NEW t \in Thread, Drive(t) PROVE StartersKept \/ \E v \in Thread : StartSwapStarted(v) \/ (NotifyCall(v) /\ owes[v] = "Connecting")
  BY <1>9 DEF Drive
<1>10. ASSUME NEW t \in Thread, DrainEmpty(t) PROVE StartersKept \/ \E v \in Thread : StartSwapStarted(v) \/ (NotifyCall(v) /\ owes[v] = "Connecting")
  BY <1>10 DEF DrainEmpty, AfterDrain
<1>11. ASSUME NEW t \in Thread, DrainSend(t) PROVE StartersKept \/ \E v \in Thread : StartSwapStarted(v) \/ (NotifyCall(v) /\ owes[v] = "Connecting")
  <2>1. PICK to \in {"drain", AfterDrain(t), AfterError(t)} : Goto(t, "drain", to)
    BY <1>11, DrainGoes
  <2> QED BY <1>11, <2>1 DEF DrainSend, AfterDrain, AfterError
<1>12. ASSUME NEW t \in Thread, DriveResult(t) PROVE StartersKept \/ \E v \in Thread : StartSwapStarted(v) \/ (NotifyCall(v) /\ owes[v] = "Connecting")
  BY <1>12 DEF DriveResult, AfterError, AfterDrive
<1>13. ASSUME NEW t \in Thread, DriveSetConnected(t) PROVE StartersKept \/ \E v \in Thread : StartSwapStarted(v) \/ (NotifyCall(v) /\ owes[v] = "Connecting")
  BY <1>13 DEF DriveSetConnected, SetState
<1>14. ASSUME NEW t \in Thread, Unlock(t) PROVE StartersKept \/ \E v \in Thread : StartSwapStarted(v) \/ (NotifyCall(v) /\ owes[v] = "Connecting")
  BY <1>14 DEF Unlock, AfterStart
<1>15. ASSUME IceUp PROVE StartersKept \/ \E v \in Thread : StartSwapStarted(v) \/ (NotifyCall(v) /\ owes[v] = "Connecting")
  BY <1>15 DEF IceUp, Enter
<1>16. ASSUME NEW t \in Thread, HookLock(t) PROVE StartersKept \/ \E v \in Thread : StartSwapStarted(v) \/ (NotifyCall(v) /\ owes[v] = "Connecting")
  BY <1>16 DEF HookLock, Lock, Enter
<1>17. ASSUME IceFails PROVE StartersKept \/ \E v \in Thread : StartSwapStarted(v) \/ (NotifyCall(v) /\ owes[v] = "Connecting")
  BY <1>17 DEF IceFails, IceDown
<1>18. ASSUME NEW u \in User, IceCloses(u) PROVE StartersKept \/ \E v \in Thread : StartSwapStarted(v) \/ (NotifyCall(v) /\ owes[v] = "Connecting")
  BY <1>18 DEF IceCloses, IceDown
<1>19. ASSUME NEW t \in Thread, FailSetState(t) PROVE StartersKept \/ \E v \in Thread : StartSwapStarted(v) \/ (NotifyCall(v) /\ owes[v] = "Connecting")
  BY <1>19 DEF FailSetState, SetState
<1>20. ASSUME PumpDatagram PROVE StartersKept \/ \E v \in Thread : StartSwapStarted(v) \/ (NotifyCall(v) /\ owes[v] = "Connecting")
  BY <1>20 DEF PumpDatagram, Enter
<1>21. ASSUME PumpWrite PROVE StartersKept \/ \E v \in Thread : StartSwapStarted(v) \/ (NotifyCall(v) /\ owes[v] = "Connecting")
  BY <1>21 DEF PumpWrite
<1>22. ASSUME PumpReadState PROVE StartersKept \/ \E v \in Thread : StartSwapStarted(v) \/ (NotifyCall(v) /\ owes[v] = "Connecting")
  BY <1>22 DEF PumpReadState
<1>23. ASSUME PumpCheckConnected PROVE StartersKept \/ \E v \in Thread : StartSwapStarted(v) \/ (NotifyCall(v) /\ owes[v] = "Connecting")
  BY <1>23 DEF PumpCheckConnected
<1>24. ASSUME PumpFail PROVE StartersKept \/ \E v \in Thread : StartSwapStarted(v) \/ (NotifyCall(v) /\ owes[v] = "Connecting")
  BY <1>24 DEF PumpFail
<1>25. ASSUME SslRead PROVE StartersKept \/ \E v \in Thread : StartSwapStarted(v) \/ (NotifyCall(v) /\ owes[v] = "Connecting")
  <2>1. PICK to \in {"read:clone", "unlock", "read:peer closed"} : Goto(driver, "read", to)
    BY <1>25 DEF SslRead
  <2> QED BY <1>25, <2>1 DEF SslRead
<1>26. ASSUME ReadClone PROVE StartersKept \/ \E v \in Thread : StartSwapStarted(v) \/ (NotifyCall(v) /\ owes[v] = "Connecting")
  BY <1>26 DEF ReadClone
<1>27. ASSUME ReadCall PROVE StartersKept \/ \E v \in Thread : StartSwapStarted(v) \/ (NotifyCall(v) /\ owes[v] = "Connecting")
  BY <1>27 DEF ReadCall
<1>28. ASSUME ReadPeerClosed PROVE StartersKept \/ \E v \in Thread : StartSwapStarted(v) \/ (NotifyCall(v) /\ owes[v] = "Connecting")
  BY <1>28 DEF ReadPeerClosed
<1>29. ASSUME NEW u \in User, close(u) PROVE StartersKept \/ \E v \in Thread : StartSwapStarted(v) \/ (NotifyCall(v) /\ owes[v] = "Connecting")
  BY <1>29 DEF close
<1>30. ASSUME NEW t \in Thread, CloseSwapClosed(t) PROVE StartersKept \/ \E v \in Thread : StartSwapStarted(v) \/ (NotifyCall(v) /\ owes[v] = "Connecting")
  BY <1>30 DEF CloseSwapClosed
<1>31. ASSUME NEW t \in Thread, CloseSetState(t) PROVE StartersKept \/ \E v \in Thread : StartSwapStarted(v) \/ (NotifyCall(v) /\ owes[v] = "Connecting")
  BY <1>31 DEF CloseSetState, SetState
<1>32. ASSUME NEW u \in User, SendCheckClosed(u) PROVE StartersKept \/ \E v \in Thread : StartSwapStarted(v) \/ (NotifyCall(v) /\ owes[v] = "Connecting")
  BY <1>32 DEF SendCheckClosed, Begin, Enter
<1>33. ASSUME NEW t \in Thread, SendCheckState(t) PROVE StartersKept \/ \E v \in Thread : StartSwapStarted(v) \/ (NotifyCall(v) /\ owes[v] = "Connecting")
  BY <1>33 DEF SendCheckState
<1>34. ASSUME NEW t \in Thread, SendWrite(t) PROVE StartersKept \/ \E v \in Thread : StartSwapStarted(v) \/ (NotifyCall(v) /\ owes[v] = "Connecting")
  <2>1. PICK to \in {"drain", "unlock"} : Goto(t, "send:lock", to)
    BY <1>34 DEF SendWrite
  <2> QED BY <1>34, <2>1 DEF SendWrite, Lock
<1>35. ASSUME NEW u \in User, NEW fp \in Fingerprint, set_remote_fingerprint(u, fp) PROVE StartersKept \/ \E v \in Thread : StartSwapStarted(v) \/ (NotifyCall(v) /\ owes[v] = "Connecting")
  BY <1>35 DEF set_remote_fingerprint
<1>36. ASSUME NEW u \in User, NEW l \in Listener, set_callbacks(u, l) PROVE StartersKept \/ \E v \in Thread : StartSwapStarted(v) \/ (NotifyCall(v) /\ owes[v] = "Connecting")
  BY <1>36 DEF set_callbacks
<1>37. CASE UNCHANGED vars
  BY <1>37 DEF vars
<1> QED BY <1>1, <1>2, <1>3, <1>4, <1>5, <1>6, <1>7, <1>8, <1>9, <1>10, <1>11, <1>12, <1>13,
  <1>14, <1>15, <1>16, <1>17, <1>18, <1>19, <1>20, <1>21, <1>22, <1>23, <1>24, <1>25, <1>26,
  <1>27, <1>28, <1>29, <1>30, <1>31, <1>32, <1>33, <1>34, <1>35, <1>36, <1>37 DEF Next, Acquire,
  Step, DriverStep, Call, Event

\* started is swapped once.
LEMMA KeepsSoleStarter == TypeOK /\ Debts /\ SoleStarter /\ [Next]_vars => SoleStarter'
<1> SUFFICES ASSUME TypeOK, Debts, SoleStarter, [Next]_vars PROVE SoleStarter'
  OBVIOUS
<1> USE DEF TypeOK, SoleStarter
<1>1. CASE StartersKept
  BY <1>1 DEF StartersKept
<1>2. ASSUME NEW t \in Thread, StartSwapStarted(t) PROVE SoleStarter'
  <2>1. UNCHANGED told /\ started'
    BY <1>2 DEF StartSwapStarted, history
  <2>2. \A u \in Thread : Starting(u)' => Starting(u) \/ (u = t /\ ~started)
    BY <1>2 DEF StartSwapStarted, Goto, locals, AfterStart, Starting
  <2> QED BY <2>1, <2>2
<1>3. ASSUME NEW t \in Thread, NotifyCall(t), owes[t] = "Connecting" PROVE SoleStarter'
  <2>1. started /\ told["Connecting"] = 0 /\ \A u \in Thread : Starting(u) => u = t
    BY <1>3 DEF Starting
  <2>2. \A u \in Thread : Starting(u)' => Starting(u) /\ u # t
    BY <1>3 DEF NotifyCall, Goto, Starting
  <2>3. started' = started /\ told'["Connecting"] = 1
    BY <1>3, <2>1 DEF NotifyCall, cells, DtlsState
  <2> QED BY <2>1, <2>2, <2>3
<1> QED BY <1>1, <1>2, <1>3, StarterSteps

\* handshake_done is set once, with inner held.
LEMMA KeepsSoleFinisher == TypeOK /\ Debts /\ Mutex /\ SoleFinisher /\ [Next]_vars =>
  SoleFinisher'
<1> SUFFICES ASSUME TypeOK, Debts, Mutex, SoleFinisher, [Next]_vars PROVE SoleFinisher'
  OBVIOUS
<1> User \subseteq Thread /\ driver \in Thread /\ nobody \notin Thread
  BY DtlsAssumption DEF Thread
<1> USE DEF TypeOK, Debts, SoleFinisher, Finishing, DtlsState, Goto, cells, tls, locals, history
<1>1. ASSUME NEW t \in Thread, NotifyClone(t) PROVE SoleFinisher'
  BY <1>1 DEF NotifyClone
<1>2. ASSUME NEW t \in Thread, NotifyCall(t) PROVE SoleFinisher'
  <2>1. \A u \in Thread : Finishing(u)' => Finishing(u) /\ u # t
    BY <1>2 DEF NotifyCall, AfterDrive
  <2>2. CASE owes[t] = "Connected"
    <3>0. inner = t /\ handshake_done /\ told["Connected"] = 0
      BY <2>2 DEF Mutex, Holds
    <3>1. \A u \in Thread : Finishing(u) => u = t
      BY <3>0 DEF Mutex, Holds, Locked
    <3>2. handshake_done' = handshake_done /\ told' = [told EXCEPT !["Connected"] = @ + 1]
      BY <1>2, <2>2 DEF NotifyCall
    <3>3. told'["Connected"] = 1
      BY <3>0, <3>2, CallCounts
    <3> QED BY <2>1, <3>0, <3>1, <3>2, <3>3
  <2>3. CASE owes[t] # "Connected"
    BY <1>2, <2>1, <2>3 DEF NotifyCall
  <2> QED BY <2>2, <2>3
<1>3. ASSUME NEW u \in User, StartCheckClosed(u) PROVE SoleFinisher'
  BY <1>3 DEF StartCheckClosed, Begin, Enter
<1>4. ASSUME NEW t \in Thread, StartSwapStarted(t) PROVE SoleFinisher'
  BY <1>4 DEF StartSwapStarted, AfterStart
<1>5. ASSUME NEW t \in Thread, StartSetState(t) PROVE SoleFinisher'
  BY <1>5 DEF StartSetState, AfterStart, SetState
<1>6. ASSUME NEW t \in Thread, StartSnapshot(t) PROVE SoleFinisher'
  BY <1>6 DEF StartSnapshot
<1>7. ASSUME NEW t \in Thread, StartInstall(t) PROVE SoleFinisher'
  BY <1>7 DEF StartInstall
<1>8. ASSUME NEW t \in Thread, StartLock(t) PROVE SoleFinisher'
  BY <1>8 DEF StartLock, Lock
<1>9. ASSUME NEW t \in Thread, Drive(t) PROVE SoleFinisher'
  BY <1>9 DEF Drive
<1>10. ASSUME NEW t \in Thread, DrainEmpty(t) PROVE SoleFinisher'
  BY <1>10 DEF DrainEmpty, AfterDrain
<1>11. ASSUME NEW t \in Thread, DrainSend(t) PROVE SoleFinisher'
  <2>1. PICK to \in {"drain", AfterDrain(t), AfterError(t)} : Goto(t, "drain", to)
    BY <1>11, DrainGoes
  <2> QED BY <1>11, <2>1 DEF DrainSend, AfterDrain, AfterError
<1>12. ASSUME NEW t \in Thread, DriveResult(t) PROVE SoleFinisher'
  BY <1>12 DEF DriveResult, AfterError, AfterDrive
<1>13. ASSUME NEW t \in Thread, DriveSetConnected(t) PROVE SoleFinisher'
  BY <1>13 DEF DriveSetConnected, SetState
<1>14. ASSUME NEW t \in Thread, Unlock(t) PROVE SoleFinisher'
  BY <1>14 DEF Unlock, AfterStart
<1>15. ASSUME IceUp PROVE SoleFinisher'
  BY <1>15 DEF IceUp, Enter
<1>16. ASSUME NEW t \in Thread, HookLock(t) PROVE SoleFinisher'
  BY <1>16 DEF HookLock, Lock, Enter
<1>17. ASSUME IceFails PROVE SoleFinisher'
  BY <1>17 DEF IceFails, IceDown
<1>18. ASSUME NEW u \in User, IceCloses(u) PROVE SoleFinisher'
  BY <1>18 DEF IceCloses, IceDown
<1>19. ASSUME NEW t \in Thread, FailSetState(t) PROVE SoleFinisher'
  <2>1. CASE state \in {"Failed", "Closed"}
    BY <1>19, <2>1 DEF FailSetState
  <2>2. CASE state \notin {"Failed", "Closed"}
    BY <1>19, <2>2 DEF FailSetState, SetState
  <2> QED BY <2>1, <2>2
<1>20. ASSUME PumpDatagram PROVE SoleFinisher'
  BY <1>20 DEF PumpDatagram, Enter
<1>21. ASSUME PumpWrite PROVE SoleFinisher'
  <2>1. PICK to \in {"pump:read state", "idle"} : Goto(driver, "pump:lock", to)
    BY <1>21 DEF PumpWrite
  <2> QED BY <1>21, <2>1 DEF PumpWrite
<1>22. ASSUME PumpReadState PROVE SoleFinisher'
  BY <1>22 DEF PumpReadState
<1>23. ASSUME PumpCheckConnected PROVE SoleFinisher'
  BY <1>23 DEF PumpCheckConnected
<1>24. ASSUME PumpFail PROVE SoleFinisher'
  BY <1>24 DEF PumpFail
<1>25. ASSUME SslRead PROVE SoleFinisher'
  <2>1. PICK to \in {"read:clone", "unlock", "read:peer closed"} : Goto(driver, "read", to)
    BY <1>25 DEF SslRead
  <2> QED BY <1>25, <2>1 DEF SslRead
<1>26. ASSUME ReadClone PROVE SoleFinisher'
  BY <1>26 DEF ReadClone
<1>27. ASSUME ReadCall PROVE SoleFinisher'
  BY <1>27 DEF ReadCall
<1>28. ASSUME ReadPeerClosed PROVE SoleFinisher'
  BY <1>28 DEF ReadPeerClosed
<1>29. ASSUME NEW u \in User, close(u) PROVE SoleFinisher'
  BY <1>29 DEF close
<1>30. ASSUME NEW t \in Thread, CloseSwapClosed(t) PROVE SoleFinisher'
  BY <1>30 DEF CloseSwapClosed
<1>31. ASSUME NEW t \in Thread, CloseSetState(t) PROVE SoleFinisher'
  BY <1>31 DEF CloseSetState, SetState
<1>32. ASSUME NEW u \in User, SendCheckClosed(u) PROVE SoleFinisher'
  BY <1>32 DEF SendCheckClosed, Begin, Enter
<1>33. ASSUME NEW t \in Thread, SendCheckState(t) PROVE SoleFinisher'
  BY <1>33 DEF SendCheckState
<1>34. ASSUME NEW t \in Thread, SendWrite(t) PROVE SoleFinisher'
  <2>1. PICK to \in {"drain", "unlock"} : Goto(t, "send:lock", to)
    BY <1>34 DEF SendWrite
  <2> QED BY <1>34, <2>1 DEF SendWrite, Lock
<1>35. ASSUME NEW u \in User, NEW fp \in Fingerprint, set_remote_fingerprint(u, fp) PROVE SoleFinisher'
  BY <1>35 DEF set_remote_fingerprint
<1>36. ASSUME NEW u \in User, NEW l \in Listener, set_callbacks(u, l) PROVE SoleFinisher'
  BY <1>36 DEF set_callbacks
<1>37. CASE UNCHANGED vars
  BY <1>37 DEF vars
<1> QED BY <1>1, <1>2, <1>3, <1>4, <1>5, <1>6, <1>7, <1>8, <1>9, <1>10, <1>11, <1>12, <1>13,
  <1>14, <1>15, <1>16, <1>17, <1>18, <1>19, <1>20, <1>21, <1>22, <1>23, <1>24, <1>25, <1>26,
  <1>27, <1>28, <1>29, <1>30, <1>31, <1>32, <1>33, <1>34, <1>35, <1>36, <1>37 DEF Next, Acquire,
  Step, DriverStep, Call, Event

\* Every other step makes nobody a closer.
LEMMA CloserSteps == TypeOK /\ Debts /\ [Next]_vars => ClosersKept \/ \E v \in Thread :
  CloseSwapClosed(v) \/ (NotifyCall(v) /\ owes[v] = "Closed")
<1> SUFFICES ASSUME TypeOK, Debts, [Next]_vars PROVE ClosersKept \/ \E v \in Thread :
  CloseSwapClosed(v) \/ (NotifyCall(v) /\ owes[v] = "Closed")
  OBVIOUS
<1> User \subseteq Thread /\ driver \in Thread /\ nobody \notin Thread
  BY DtlsAssumption DEF Thread
<1> USE DEF TypeOK, Debts, ClosersKept, Closing, DtlsState, Goto, cells, tls, locals, history
<1>1. ASSUME NEW t \in Thread, NotifyClone(t) PROVE ClosersKept \/ \E v \in Thread : CloseSwapClosed(v) \/ (NotifyCall(v) /\ owes[v] = "Closed")
  BY <1>1 DEF NotifyClone
<1>2. ASSUME NEW t \in Thread, NotifyCall(t) PROVE ClosersKept \/ \E v \in Thread : CloseSwapClosed(v) \/ (NotifyCall(v) /\ owes[v] = "Closed")
  BY <1>2 DEF NotifyCall, AfterDrive
<1>3. ASSUME NEW u \in User, StartCheckClosed(u) PROVE ClosersKept \/ \E v \in Thread : CloseSwapClosed(v) \/ (NotifyCall(v) /\ owes[v] = "Closed")
  BY <1>3 DEF StartCheckClosed, Begin, Enter
<1>4. ASSUME NEW t \in Thread, StartSwapStarted(t) PROVE ClosersKept \/ \E v \in Thread : CloseSwapClosed(v) \/ (NotifyCall(v) /\ owes[v] = "Closed")
  BY <1>4 DEF StartSwapStarted, AfterStart
<1>5. ASSUME NEW t \in Thread, StartSetState(t) PROVE ClosersKept \/ \E v \in Thread : CloseSwapClosed(v) \/ (NotifyCall(v) /\ owes[v] = "Closed")
  BY <1>5 DEF StartSetState, AfterStart, SetState
<1>6. ASSUME NEW t \in Thread, StartSnapshot(t) PROVE ClosersKept \/ \E v \in Thread : CloseSwapClosed(v) \/ (NotifyCall(v) /\ owes[v] = "Closed")
  BY <1>6 DEF StartSnapshot
<1>7. ASSUME NEW t \in Thread, StartInstall(t) PROVE ClosersKept \/ \E v \in Thread : CloseSwapClosed(v) \/ (NotifyCall(v) /\ owes[v] = "Closed")
  BY <1>7 DEF StartInstall
<1>8. ASSUME NEW t \in Thread, StartLock(t) PROVE ClosersKept \/ \E v \in Thread : CloseSwapClosed(v) \/ (NotifyCall(v) /\ owes[v] = "Closed")
  BY <1>8 DEF StartLock, Lock
<1>9. ASSUME NEW t \in Thread, Drive(t) PROVE ClosersKept \/ \E v \in Thread : CloseSwapClosed(v) \/ (NotifyCall(v) /\ owes[v] = "Closed")
  BY <1>9 DEF Drive
<1>10. ASSUME NEW t \in Thread, DrainEmpty(t) PROVE ClosersKept \/ \E v \in Thread : CloseSwapClosed(v) \/ (NotifyCall(v) /\ owes[v] = "Closed")
  BY <1>10 DEF DrainEmpty, AfterDrain
<1>11. ASSUME NEW t \in Thread, DrainSend(t) PROVE ClosersKept \/ \E v \in Thread : CloseSwapClosed(v) \/ (NotifyCall(v) /\ owes[v] = "Closed")
  <2>1. PICK to \in {"drain", AfterDrain(t), AfterError(t)} : Goto(t, "drain", to)
    BY <1>11, DrainGoes
  <2> QED BY <1>11, <2>1 DEF DrainSend, AfterDrain, AfterError
<1>12. ASSUME NEW t \in Thread, DriveResult(t) PROVE ClosersKept \/ \E v \in Thread : CloseSwapClosed(v) \/ (NotifyCall(v) /\ owes[v] = "Closed")
  BY <1>12 DEF DriveResult, AfterError, AfterDrive
<1>13. ASSUME NEW t \in Thread, DriveSetConnected(t) PROVE ClosersKept \/ \E v \in Thread : CloseSwapClosed(v) \/ (NotifyCall(v) /\ owes[v] = "Closed")
  BY <1>13 DEF DriveSetConnected, SetState
<1>14. ASSUME NEW t \in Thread, Unlock(t) PROVE ClosersKept \/ \E v \in Thread : CloseSwapClosed(v) \/ (NotifyCall(v) /\ owes[v] = "Closed")
  BY <1>14 DEF Unlock, AfterStart
<1>15. ASSUME IceUp PROVE ClosersKept \/ \E v \in Thread : CloseSwapClosed(v) \/ (NotifyCall(v) /\ owes[v] = "Closed")
  BY <1>15 DEF IceUp, Enter
<1>16. ASSUME NEW t \in Thread, HookLock(t) PROVE ClosersKept \/ \E v \in Thread : CloseSwapClosed(v) \/ (NotifyCall(v) /\ owes[v] = "Closed")
  BY <1>16 DEF HookLock, Lock, Enter
<1>17. ASSUME IceFails PROVE ClosersKept \/ \E v \in Thread : CloseSwapClosed(v) \/ (NotifyCall(v) /\ owes[v] = "Closed")
  BY <1>17 DEF IceFails, IceDown
<1>18. ASSUME NEW u \in User, IceCloses(u) PROVE ClosersKept \/ \E v \in Thread : CloseSwapClosed(v) \/ (NotifyCall(v) /\ owes[v] = "Closed")
  BY <1>18 DEF IceCloses, IceDown
<1>19. ASSUME NEW t \in Thread, FailSetState(t) PROVE ClosersKept \/ \E v \in Thread : CloseSwapClosed(v) \/ (NotifyCall(v) /\ owes[v] = "Closed")
  BY <1>19 DEF FailSetState, SetState
<1>20. ASSUME PumpDatagram PROVE ClosersKept \/ \E v \in Thread : CloseSwapClosed(v) \/ (NotifyCall(v) /\ owes[v] = "Closed")
  BY <1>20 DEF PumpDatagram, Enter
<1>21. ASSUME PumpWrite PROVE ClosersKept \/ \E v \in Thread : CloseSwapClosed(v) \/ (NotifyCall(v) /\ owes[v] = "Closed")
  BY <1>21 DEF PumpWrite
<1>22. ASSUME PumpReadState PROVE ClosersKept \/ \E v \in Thread : CloseSwapClosed(v) \/ (NotifyCall(v) /\ owes[v] = "Closed")
  BY <1>22 DEF PumpReadState
<1>23. ASSUME PumpCheckConnected PROVE ClosersKept \/ \E v \in Thread : CloseSwapClosed(v) \/ (NotifyCall(v) /\ owes[v] = "Closed")
  BY <1>23 DEF PumpCheckConnected
<1>24. ASSUME PumpFail PROVE ClosersKept \/ \E v \in Thread : CloseSwapClosed(v) \/ (NotifyCall(v) /\ owes[v] = "Closed")
  BY <1>24 DEF PumpFail
<1>25. ASSUME SslRead PROVE ClosersKept \/ \E v \in Thread : CloseSwapClosed(v) \/ (NotifyCall(v) /\ owes[v] = "Closed")
  <2>1. PICK to \in {"read:clone", "unlock", "read:peer closed"} : Goto(driver, "read", to)
    BY <1>25 DEF SslRead
  <2> QED BY <1>25, <2>1 DEF SslRead
<1>26. ASSUME ReadClone PROVE ClosersKept \/ \E v \in Thread : CloseSwapClosed(v) \/ (NotifyCall(v) /\ owes[v] = "Closed")
  BY <1>26 DEF ReadClone
<1>27. ASSUME ReadCall PROVE ClosersKept \/ \E v \in Thread : CloseSwapClosed(v) \/ (NotifyCall(v) /\ owes[v] = "Closed")
  BY <1>27 DEF ReadCall
<1>28. ASSUME ReadPeerClosed PROVE ClosersKept \/ \E v \in Thread : CloseSwapClosed(v) \/ (NotifyCall(v) /\ owes[v] = "Closed")
  BY <1>28 DEF ReadPeerClosed
<1>29. ASSUME NEW u \in User, close(u) PROVE ClosersKept \/ \E v \in Thread : CloseSwapClosed(v) \/ (NotifyCall(v) /\ owes[v] = "Closed")
  BY <1>29 DEF close
<1>30. ASSUME NEW t \in Thread, CloseSwapClosed(t) PROVE ClosersKept \/ \E v \in Thread : CloseSwapClosed(v) \/ (NotifyCall(v) /\ owes[v] = "Closed")
  <2>1. \E v \in Thread : CloseSwapClosed(v) \/ (NotifyCall(v) /\ owes[v] = "Closed")
    BY <1>30
  <2> HIDE DEF ClosersKept
  <2> QED BY <2>1
<1>31. ASSUME NEW t \in Thread, CloseSetState(t) PROVE ClosersKept \/ \E v \in Thread : CloseSwapClosed(v) \/ (NotifyCall(v) /\ owes[v] = "Closed")
  BY <1>31 DEF CloseSetState, SetState
<1>32. ASSUME NEW u \in User, SendCheckClosed(u) PROVE ClosersKept \/ \E v \in Thread : CloseSwapClosed(v) \/ (NotifyCall(v) /\ owes[v] = "Closed")
  BY <1>32 DEF SendCheckClosed, Begin, Enter
<1>33. ASSUME NEW t \in Thread, SendCheckState(t) PROVE ClosersKept \/ \E v \in Thread : CloseSwapClosed(v) \/ (NotifyCall(v) /\ owes[v] = "Closed")
  BY <1>33 DEF SendCheckState
<1>34. ASSUME NEW t \in Thread, SendWrite(t) PROVE ClosersKept \/ \E v \in Thread : CloseSwapClosed(v) \/ (NotifyCall(v) /\ owes[v] = "Closed")
  <2>1. PICK to \in {"drain", "unlock"} : Goto(t, "send:lock", to)
    BY <1>34 DEF SendWrite
  <2> QED BY <1>34, <2>1 DEF SendWrite, Lock
<1>35. ASSUME NEW u \in User, NEW fp \in Fingerprint, set_remote_fingerprint(u, fp) PROVE ClosersKept \/ \E v \in Thread : CloseSwapClosed(v) \/ (NotifyCall(v) /\ owes[v] = "Closed")
  BY <1>35 DEF set_remote_fingerprint
<1>36. ASSUME NEW u \in User, NEW l \in Listener, set_callbacks(u, l) PROVE ClosersKept \/ \E v \in Thread : CloseSwapClosed(v) \/ (NotifyCall(v) /\ owes[v] = "Closed")
  BY <1>36 DEF set_callbacks
<1>37. CASE UNCHANGED vars
  BY <1>37 DEF vars
<1> QED BY <1>1, <1>2, <1>3, <1>4, <1>5, <1>6, <1>7, <1>8, <1>9, <1>10, <1>11, <1>12, <1>13,
  <1>14, <1>15, <1>16, <1>17, <1>18, <1>19, <1>20, <1>21, <1>22, <1>23, <1>24, <1>25, <1>26,
  <1>27, <1>28, <1>29, <1>30, <1>31, <1>32, <1>33, <1>34, <1>35, <1>36, <1>37 DEF Next, Acquire,
  Step, DriverStep, Call, Event

\* closed is swapped once.
LEMMA KeepsSoleCloser == TypeOK /\ Debts /\ SoleCloser /\ [Next]_vars => SoleCloser'
<1> SUFFICES ASSUME TypeOK, Debts, SoleCloser, [Next]_vars PROVE SoleCloser'
  OBVIOUS
<1> USE DEF TypeOK, SoleCloser
<1>1. CASE ClosersKept
  BY <1>1 DEF ClosersKept
<1>2. ASSUME NEW t \in Thread, CloseSwapClosed(t) PROVE SoleCloser'
  <2>1. UNCHANGED told /\ closed'
    BY <1>2 DEF CloseSwapClosed, history
  <2>2. \A u \in Thread : Closing(u)' => Closing(u) \/ (u = t /\ ~closed)
    BY <1>2 DEF CloseSwapClosed, Goto, locals, Closing
  <2> QED BY <2>1, <2>2
<1>3. ASSUME NEW t \in Thread, NotifyCall(t), owes[t] = "Closed" PROVE SoleCloser'
  <2>1. closed /\ told["Closed"] = 0 /\ \A u \in Thread : Closing(u) => u = t
    BY <1>3 DEF Closing
  <2>2. \A u \in Thread : Closing(u)' => Closing(u) /\ u # t
    BY <1>3 DEF NotifyCall, Goto, Closing
  <2>3. closed' = closed /\ told'["Closed"] = 1
    BY <1>3, <2>1 DEF NotifyCall, cells, DtlsState
  <2> QED BY <2>1, <2>2, <2>3
<1> QED BY <1>1, <1>2, <1>3, CloserSteps

\* The pump finds Connected only after its announcement has let go of inner.
LEMMA KeepsHeardConnected == TypeOK /\ Debts /\ Mutex /\ SoleFinisher /\ HeardConnected /\
  [Next]_vars => HeardConnected'
<1> SUFFICES ASSUME TypeOK, Debts, Mutex, SoleFinisher, HeardConnected, [Next]_vars PROVE
  HeardConnected'
  OBVIOUS
<1> User \subseteq Thread /\ driver \in Thread /\ nobody \notin Thread
  BY DtlsAssumption DEF Thread
<1> USE DEF TypeOK, Debts, SoleFinisher, Finishing, HeardConnected, DtlsState, Goto, cells, tls,
  locals, history
<1>1. ASSUME NEW t \in Thread, NotifyClone(t) PROVE HeardConnected'
  BY <1>1 DEF NotifyClone
<1>2. ASSUME NEW t \in Thread, NotifyCall(t) PROVE HeardConnected'
  <2>1. pc'[driver] \in {"read", "read:clone", "read:call"} => pc'[driver] = pc[driver]
    <3>1. PICK to \in {"start:snapshot", "pump:check connected", "unlock", "idle"} : Goto(t, "call", to)
      BY <1>2 DEF NotifyCall, AfterDrive
    <3> QED BY <3>1
  <2>2. CASE owes[t] = "Connected"
    <3>1. told["Connected"] = 0 /\ told' = [told EXCEPT !["Connected"] = @ + 1]
      BY <1>2, <2>2 DEF NotifyCall
    <3>2. told'["Connected"] = 1
      BY <3>1, CallCounts
    <3> QED BY <3>2
  <2>3. CASE owes[t] # "Connected"
    BY <1>2, <2>1, <2>3 DEF NotifyCall
  <2> QED BY <2>2, <2>3
<1>3. ASSUME NEW u \in User, StartCheckClosed(u) PROVE HeardConnected'
  BY <1>3 DEF StartCheckClosed, Begin, Enter
<1>4. ASSUME NEW t \in Thread, StartSwapStarted(t) PROVE HeardConnected'
  BY <1>4 DEF StartSwapStarted, AfterStart
<1>5. ASSUME NEW t \in Thread, StartSetState(t) PROVE HeardConnected'
  BY <1>5 DEF StartSetState, AfterStart, SetState
<1>6. ASSUME NEW t \in Thread, StartSnapshot(t) PROVE HeardConnected'
  BY <1>6 DEF StartSnapshot
<1>7. ASSUME NEW t \in Thread, StartInstall(t) PROVE HeardConnected'
  BY <1>7 DEF StartInstall
<1>8. ASSUME NEW t \in Thread, StartLock(t) PROVE HeardConnected'
  BY <1>8 DEF StartLock, Lock
<1>9. ASSUME NEW t \in Thread, Drive(t) PROVE HeardConnected'
  BY <1>9 DEF Drive
<1>10. ASSUME NEW t \in Thread, DrainEmpty(t) PROVE HeardConnected'
  BY <1>10 DEF DrainEmpty, AfterDrain
<1>11. ASSUME NEW t \in Thread, DrainSend(t) PROVE HeardConnected'
  <2>1. PICK to \in {"drain", AfterDrain(t), AfterError(t)} : Goto(t, "drain", to)
    BY <1>11, DrainGoes
  <2> QED BY <1>11, <2>1 DEF DrainSend, AfterDrain, AfterError
<1>12. ASSUME NEW t \in Thread, DriveResult(t) PROVE HeardConnected'
  BY <1>12 DEF DriveResult, AfterError, AfterDrive
<1>13. ASSUME NEW t \in Thread, DriveSetConnected(t) PROVE HeardConnected'
  BY <1>13 DEF DriveSetConnected, SetState
<1>14. ASSUME NEW t \in Thread, Unlock(t) PROVE HeardConnected'
  BY <1>14 DEF Unlock, AfterStart
<1>15. ASSUME IceUp PROVE HeardConnected'
  BY <1>15 DEF IceUp, Enter
<1>16. ASSUME NEW t \in Thread, HookLock(t) PROVE HeardConnected'
  BY <1>16 DEF HookLock, Lock, Enter
<1>17. ASSUME IceFails PROVE HeardConnected'
  BY <1>17 DEF IceFails, IceDown
<1>18. ASSUME NEW u \in User, IceCloses(u) PROVE HeardConnected'
  BY <1>18 DEF IceCloses, IceDown
<1>19. ASSUME NEW t \in Thread, FailSetState(t) PROVE HeardConnected'
  BY <1>19 DEF FailSetState, SetState
<1>20. ASSUME PumpDatagram PROVE HeardConnected'
  BY <1>20 DEF PumpDatagram, Enter
<1>21. ASSUME PumpWrite PROVE HeardConnected'
  BY <1>21 DEF PumpWrite
<1>22. ASSUME PumpReadState PROVE HeardConnected'
  BY <1>22 DEF PumpReadState
<1>23. ASSUME PumpCheckConnected PROVE HeardConnected'
  <2>1. inner = driver /\ owes[driver] = "none"
    BY <1>23 DEF PumpCheckConnected, Mutex, Holds, Locked
  <2>2. \A t \in Thread : owes[t] # "Connected"
    BY <2>1 DEF Mutex, Holds
  <2> QED BY <1>23, <2>1, <2>2 DEF PumpCheckConnected
<1>24. ASSUME PumpFail PROVE HeardConnected'
  BY <1>24 DEF PumpFail
<1>25. ASSUME SslRead PROVE HeardConnected'
  <2>1. PICK to \in {"read:clone", "unlock", "read:peer closed"} : Goto(driver, "read", to)
    BY <1>25 DEF SslRead
  <2> QED BY <1>25, <2>1 DEF SslRead
<1>26. ASSUME ReadClone PROVE HeardConnected'
  BY <1>26 DEF ReadClone
<1>27. ASSUME ReadCall PROVE HeardConnected'
  BY <1>27 DEF ReadCall
<1>28. ASSUME ReadPeerClosed PROVE HeardConnected'
  BY <1>28 DEF ReadPeerClosed
<1>29. ASSUME NEW u \in User, close(u) PROVE HeardConnected'
  BY <1>29 DEF close
<1>30. ASSUME NEW t \in Thread, CloseSwapClosed(t) PROVE HeardConnected'
  BY <1>30 DEF CloseSwapClosed
<1>31. ASSUME NEW t \in Thread, CloseSetState(t) PROVE HeardConnected'
  BY <1>31 DEF CloseSetState, SetState
<1>32. ASSUME NEW u \in User, SendCheckClosed(u) PROVE HeardConnected'
  BY <1>32 DEF SendCheckClosed, Begin, Enter
<1>33. ASSUME NEW t \in Thread, SendCheckState(t) PROVE HeardConnected'
  BY <1>33 DEF SendCheckState
<1>34. ASSUME NEW t \in Thread, SendWrite(t) PROVE HeardConnected'
  <2>1. PICK to \in {"drain", "unlock"} : Goto(t, "send:lock", to)
    BY <1>34 DEF SendWrite
  <2> QED BY <1>34, <2>1 DEF SendWrite, Lock
<1>35. ASSUME NEW u \in User, NEW fp \in Fingerprint, set_remote_fingerprint(u, fp) PROVE HeardConnected'
  BY <1>35 DEF set_remote_fingerprint
<1>36. ASSUME NEW u \in User, NEW l \in Listener, set_callbacks(u, l) PROVE HeardConnected'
  BY <1>36 DEF set_callbacks
<1>37. CASE UNCHANGED vars
  BY <1>37 DEF vars
<1> QED BY <1>1, <1>2, <1>3, <1>4, <1>5, <1>6, <1>7, <1>8, <1>9, <1>10, <1>11, <1>12, <1>13,
  <1>14, <1>15, <1>16, <1>17, <1>18, <1>19, <1>20, <1>21, <1>22, <1>23, <1>24, <1>25, <1>26,
  <1>27, <1>28, <1>29, <1>30, <1>31, <1>32, <1>33, <1>34, <1>35, <1>36, <1>37 DEF Next, Acquire,
  Step, DriverStep, Call, Event

\* The pump that met a fatal error takes it to fail_transport.
LEMMA KeepsDead == TypeOK /\ Mutex /\ Contexts /\ NotNew /\ Pinned /\ Dead /\ [Next]_vars
  => Dead'
<1> SUFFICES ASSUME TypeOK, Mutex, Contexts, NotNew, Pinned, Dead, [Next]_vars PROVE Dead'
  OBVIOUS
<1> User \subseteq Thread /\ driver \in Thread /\ nobody \notin Thread
  BY DtlsAssumption DEF Thread
<1> USE DEF TypeOK, Contexts, Pinned, Dead, Goto, cells, tls, locals, history
<1>1. ASSUME NEW t \in Thread, NotifyClone(t) PROVE Dead'
  BY <1>1 DEF NotifyClone
<1>2. ASSUME NEW t \in Thread, NotifyCall(t) PROVE Dead'
  BY <1>2 DEF NotifyCall, AfterDrive
<1>3. ASSUME NEW u \in User, StartCheckClosed(u) PROVE Dead'
  BY <1>3 DEF StartCheckClosed, Begin, Enter
<1>4. ASSUME NEW t \in Thread, StartSwapStarted(t) PROVE Dead'
  BY <1>4 DEF StartSwapStarted, AfterStart
<1>5. ASSUME NEW t \in Thread, StartSetState(t) PROVE Dead'
  BY <1>5 DEF StartSetState, AfterStart, SetState
<1>6. ASSUME NEW t \in Thread, StartSnapshot(t) PROVE Dead'
  BY <1>6 DEF StartSnapshot
<1>7. ASSUME NEW t \in Thread, StartInstall(t) PROVE Dead'
  BY <1>7 DEF StartInstall
<1>8. ASSUME NEW t \in Thread, StartLock(t) PROVE Dead'
  BY <1>8 DEF StartLock, Lock
<1>9. ASSUME NEW t \in Thread, Drive(t) PROVE Dead'
  <2>1. UNCHANGED <<state, ctx>> /\ pc[t] = "drive" /\ pc' = [pc EXCEPT ![t] = "drain"]
    BY <1>9, DriveDoes DEF Drive
  <2>2. CASE ctx[t] = "pump"
    BY <1>9, <2>1, <2>2, DriveDoes
  <2>3. CASE ctx[t] # "pump"
    <3>1. start_died => start_died'
      BY <1>9, <2>3 DEF Drive, DiesInStart
    <3>2. ssl # "dead" /\ ssl' = "dead" => start_died'
      BY <1>9, <2>3, DriveDoes
    <3>3. pc[driver] \in {"drain", "drive:result", "pump:fail"} => driver = t
      BY <2>1 DEF Mutex, Holds, Locked
    <3> QED BY <2>1, <3>1, <3>2, <3>3
  <2> QED BY <2>2, <2>3
<1>10. ASSUME NEW t \in Thread, DrainEmpty(t) PROVE Dead'
  BY <1>10 DEF DrainEmpty, AfterDrain
<1>11. ASSUME NEW t \in Thread, DrainSend(t) PROVE Dead'
  <2>1. PICK to \in {"drain", AfterDrain(t), AfterError(t)} : Goto(t, "drain", to)
    BY <1>11, DrainGoes
  <2> QED BY <1>11, <2>1 DEF DrainSend, AfterDrain, AfterError
<1>12. ASSUME NEW t \in Thread, DriveResult(t) PROVE Dead'
  BY <1>12 DEF DriveResult, AfterError, AfterDrive
<1>13. ASSUME NEW t \in Thread, DriveSetConnected(t) PROVE Dead'
  BY <1>13 DEF DriveSetConnected, SetState
<1>14. ASSUME NEW t \in Thread, Unlock(t) PROVE Dead'
  BY <1>14 DEF Unlock, AfterStart
<1>15. ASSUME IceUp PROVE Dead'
  BY <1>15 DEF IceUp, Enter
<1>16. ASSUME NEW t \in Thread, HookLock(t) PROVE Dead'
  BY <1>16 DEF HookLock, Lock, Enter
<1>17. ASSUME IceFails PROVE Dead'
  BY <1>17 DEF IceFails, IceDown
<1>18. ASSUME NEW u \in User, IceCloses(u) PROVE Dead'
  BY <1>18 DEF IceCloses, IceDown
<1>19. ASSUME NEW t \in Thread, FailSetState(t) PROVE Dead'
  BY <1>19 DEF FailSetState, SetState
<1>20. ASSUME PumpDatagram PROVE Dead'
  BY <1>20 DEF PumpDatagram, Enter
<1>21. ASSUME PumpWrite PROVE Dead'
  BY <1>21 DEF PumpWrite
<1>22. ASSUME PumpReadState PROVE Dead'
  BY <1>22 DEF PumpReadState
<1>23. ASSUME PumpCheckConnected PROVE Dead'
  BY <1>23 DEF PumpCheckConnected
<1>24. ASSUME PumpFail PROVE Dead'
  BY <1>24 DEF PumpFail
<1>25. ASSUME SslRead PROVE Dead'
  <2>1. PICK to \in {"read:clone", "unlock", "read:peer closed"} : Goto(driver, "read", to)
    BY <1>25 DEF SslRead
  <2> QED BY <1>25, <2>1 DEF SslRead
<1>26. ASSUME ReadClone PROVE Dead'
  BY <1>26 DEF ReadClone
<1>27. ASSUME ReadCall PROVE Dead'
  BY <1>27 DEF ReadCall
<1>28. ASSUME ReadPeerClosed PROVE Dead'
  BY <1>28 DEF ReadPeerClosed
<1>29. ASSUME NEW u \in User, close(u) PROVE Dead'
  BY <1>29 DEF close
<1>30. ASSUME NEW t \in Thread, CloseSwapClosed(t) PROVE Dead'
  BY <1>30 DEF CloseSwapClosed
<1>31. ASSUME NEW t \in Thread, CloseSetState(t) PROVE Dead'
  BY <1>31 DEF CloseSetState, SetState
<1>32. ASSUME NEW u \in User, SendCheckClosed(u) PROVE Dead'
  BY <1>32 DEF SendCheckClosed, Begin, Enter
<1>33. ASSUME NEW t \in Thread, SendCheckState(t) PROVE Dead'
  BY <1>33 DEF SendCheckState
<1>34. ASSUME NEW t \in Thread, SendWrite(t) PROVE Dead'
  <2>1. PICK to \in {"drain", "unlock"} : Goto(t, "send:lock", to)
    BY <1>34 DEF SendWrite
  <2> QED BY <1>34, <2>1 DEF SendWrite, Lock
<1>35. ASSUME NEW u \in User, NEW fp \in Fingerprint, set_remote_fingerprint(u, fp) PROVE Dead'
  BY <1>35 DEF set_remote_fingerprint
<1>36. ASSUME NEW u \in User, NEW l \in Listener, set_callbacks(u, l) PROVE Dead'
  BY <1>36 DEF set_callbacks
<1>37. CASE UNCHANGED vars
  BY <1>37 DEF vars
<1> QED BY <1>1, <1>2, <1>3, <1>4, <1>5, <1>6, <1>7, <1>8, <1>9, <1>10, <1>11, <1>12, <1>13,
  <1>14, <1>15, <1>16, <1>17, <1>18, <1>19, <1>20, <1>21, <1>22, <1>23, <1>24, <1>25, <1>26,
  <1>27, <1>28, <1>29, <1>30, <1>31, <1>32, <1>33, <1>34, <1>35, <1>36, <1>37 DEF Next, Acquire,
  Step, DriverStep, Call, Event

\* Whoever queues a record drains it before it lets go of inner.
LEMMA KeepsDrained == TypeOK /\ SoleFinisher /\ HeardConnected /\ Drained /\ [Next]_vars =>
  Drained'
<1> SUFFICES ASSUME TypeOK, SoleFinisher, HeardConnected, Drained, [Next]_vars PROVE Drained'
  OBVIOUS
<1> User \subseteq Thread /\ driver \in Thread /\ nobody \notin Thread
  BY DtlsAssumption DEF Thread
<1> USE DEF TypeOK, Drained, Goto, cells, tls, locals, history
<1>1. ASSUME NEW t \in Thread, NotifyClone(t) PROVE Drained'
  BY <1>1 DEF NotifyClone
<1>2. ASSUME NEW t \in Thread, NotifyCall(t) PROVE Drained'
  BY <1>2 DEF NotifyCall, AfterDrive
<1>3. ASSUME NEW u \in User, StartCheckClosed(u) PROVE Drained'
  BY <1>3 DEF StartCheckClosed, Begin, Enter
<1>4. ASSUME NEW t \in Thread, StartSwapStarted(t) PROVE Drained'
  BY <1>4 DEF StartSwapStarted, AfterStart
<1>5. ASSUME NEW t \in Thread, StartSetState(t) PROVE Drained'
  BY <1>5 DEF StartSetState, AfterStart, SetState
<1>6. ASSUME NEW t \in Thread, StartSnapshot(t) PROVE Drained'
  BY <1>6 DEF StartSnapshot
<1>7. ASSUME NEW t \in Thread, StartInstall(t) PROVE Drained'
  BY <1>7 DEF StartInstall
<1>8. ASSUME NEW t \in Thread, StartLock(t) PROVE Drained'
  BY <1>8 DEF StartLock, Lock
<1>9. ASSUME NEW t \in Thread, Drive(t) PROVE Drained'
  BY <1>9 DEF Drive
<1>10. ASSUME NEW t \in Thread, DrainEmpty(t) PROVE Drained'
  BY <1>10 DEF DrainEmpty, AfterDrain
<1>11. ASSUME NEW t \in Thread, DrainSend(t) PROVE Drained'
  <2>1. PICK to \in {"drain", AfterDrain(t), AfterError(t)} : Goto(t, "drain", to) /\ (~refused' => to = "drain")
    BY <1>11, DrainGoes
  <2> QED BY <2>1
<1>12. ASSUME NEW t \in Thread, DriveResult(t) PROVE Drained'
  BY <1>12 DEF DriveResult, AfterError, AfterDrive
<1>13. ASSUME NEW t \in Thread, DriveSetConnected(t) PROVE Drained'
  BY <1>13 DEF DriveSetConnected, SetState
<1>14. ASSUME NEW t \in Thread, Unlock(t) PROVE Drained'
  BY <1>14 DEF Unlock, AfterStart
<1>15. ASSUME IceUp PROVE Drained'
  BY <1>15 DEF IceUp, Enter
<1>16. ASSUME NEW t \in Thread, HookLock(t) PROVE Drained'
  BY <1>16 DEF HookLock, Lock, Enter
<1>17. ASSUME IceFails PROVE Drained'
  BY <1>17 DEF IceFails, IceDown
<1>18. ASSUME NEW u \in User, IceCloses(u) PROVE Drained'
  BY <1>18 DEF IceCloses, IceDown
<1>19. ASSUME NEW t \in Thread, FailSetState(t) PROVE Drained'
  BY <1>19 DEF FailSetState, SetState
<1>20. ASSUME PumpDatagram PROVE Drained'
  BY <1>20 DEF PumpDatagram, Enter
<1>21. ASSUME PumpWrite PROVE Drained'
  BY <1>21 DEF PumpWrite
<1>22. ASSUME PumpReadState PROVE Drained'
  BY <1>22 DEF PumpReadState
<1>23. ASSUME PumpCheckConnected PROVE Drained'
  BY <1>23 DEF PumpCheckConnected
<1>24. ASSUME PumpFail PROVE Drained'
  BY <1>24 DEF PumpFail
<1>25. ASSUME SslRead PROVE Drained'
  <2>1. told["Connected"] = 1
    BY <1>25 DEF SslRead, HeardConnected
  <2>2. handshake_done /\ handshake_done' = handshake_done
    <3>1. handshake_done
      BY <2>1 DEF SoleFinisher
    <3> QED BY <1>25, <3>1 DEF SslRead
  <2> QED BY <2>2
<1>26. ASSUME ReadClone PROVE Drained'
  BY <1>26 DEF ReadClone
<1>27. ASSUME ReadCall PROVE Drained'
  BY <1>27 DEF ReadCall
<1>28. ASSUME ReadPeerClosed PROVE Drained'
  BY <1>28 DEF ReadPeerClosed
<1>29. ASSUME NEW u \in User, close(u) PROVE Drained'
  BY <1>29 DEF close
<1>30. ASSUME NEW t \in Thread, CloseSwapClosed(t) PROVE Drained'
  BY <1>30 DEF CloseSwapClosed
<1>31. ASSUME NEW t \in Thread, CloseSetState(t) PROVE Drained'
  BY <1>31 DEF CloseSetState, SetState
<1>32. ASSUME NEW u \in User, SendCheckClosed(u) PROVE Drained'
  BY <1>32 DEF SendCheckClosed, Begin, Enter
<1>33. ASSUME NEW t \in Thread, SendCheckState(t) PROVE Drained'
  BY <1>33 DEF SendCheckState
<1>34. ASSUME NEW t \in Thread, SendWrite(t) PROVE Drained'
  <2>1. PICK to \in {"drain", "unlock"} : Goto(t, "send:lock", to)
    BY <1>34 DEF SendWrite
  <2> QED BY <1>34, <2>1 DEF SendWrite, Lock
<1>35. ASSUME NEW u \in User, NEW fp \in Fingerprint, set_remote_fingerprint(u, fp) PROVE Drained'
  BY <1>35 DEF set_remote_fingerprint
<1>36. ASSUME NEW u \in User, NEW l \in Listener, set_callbacks(u, l) PROVE Drained'
  BY <1>36 DEF set_callbacks
<1>37. CASE UNCHANGED vars
  BY <1>37 DEF vars
<1> QED BY <1>1, <1>2, <1>3, <1>4, <1>5, <1>6, <1>7, <1>8, <1>9, <1>10, <1>11, <1>12, <1>13,
  <1>14, <1>15, <1>16, <1>17, <1>18, <1>19, <1>20, <1>21, <1>22, <1>23, <1>24, <1>25, <1>26,
  <1>27, <1>28, <1>29, <1>30, <1>31, <1>32, <1>33, <1>34, <1>35, <1>36, <1>37 DEF Next, Acquire,
  Step, DriverStep, Call, Event

-----------------------------------------------------------------------------
(* The theorems.                                                           *)

LEMMA InitInvariant == Init => IInv
<1> SUFFICES ASSUME Init PROVE IInv
  OBVIOUS
<1> USE DEF Init
<1>1. TypeOK
  <2>1. CellsTyped
    BY DEF CellsTyped, DtlsState
  <2>2. TlsTyped
    <3>1. 0 \in 0..BioRecords
      BY DtlsAssumption
    <3> QED BY <3>1 DEF TlsTyped
  <2>3. LocalsTyped /\ HistoryTyped /\ Labelled
    BY DEF LocalsTyped, HistoryTyped, Labelled, Label
  <2> QED BY <2>1, <2>2, <2>3, TypeParts
<1>2. Debts /\ Contexts /\ NotNew
  BY DEF Debts, Contexts, PumpLabel, NotNew, PastConnecting
<1>3. Mutex
  BY DtlsAssumption DEF Mutex, Holds, Locked
<1>4. Pinned
  BY DEF Pinned, DtlsState
<1>5. SoleStarter /\ SoleFinisher /\ SoleCloser
  BY DEF SoleStarter, Starting, SoleFinisher, Finishing, SoleCloser, Closing, DtlsState
<1>6. HeardConnected /\ Dead /\ Drained
  BY DEF HeardConnected, Dead, Drained, Thread
<1> QED BY <1>1, <1>2, <1>3, <1>4, <1>5, <1>6 DEF IInv

LEMMA StepInvariant == IInv /\ [Next]_vars => IInv'
<1> SUFFICES ASSUME IInv, [Next]_vars PROVE IInv'
  OBVIOUS
<1>1. TypeOK' /\ Debts' /\ Mutex' /\ Contexts' /\ NotNew' /\ Pinned'
  BY KeepsTypes, KeepsDebts, KeepsMutex, KeepsContexts, KeepsNotNew, KeepsPinned DEF IInv
<1>2. SoleStarter' /\ SoleFinisher' /\ SoleCloser'
  BY KeepsSoleStarter, KeepsSoleFinisher, KeepsSoleCloser DEF IInv
<1>3. HeardConnected' /\ Dead' /\ Drained'
  BY KeepsHeardConnected, KeepsDead, KeepsDrained DEF IInv
<1> QED BY <1>1, <1>2, <1>3 DEF IInv

\* The inductive invariant, which every theorem below rests on.
THEOREM Invariant == Safe => []IInv
  BY InitInvariant, StepInvariant, PTL DEF Safe

(* Every variable keeps its type; the memory BIOs never run over.          *)
THEOREM TypeCorrect == Safe => []TypeOK
  BY Invariant, PTL DEF IInv

(* However start(), its automatic twin, the two handshake drivers and      *)
(* close() race: Connecting, Connected and Closed are announced at most    *)
(* once each.                                                              *)
THEOREM AnnouncesOnce == Safe => []AnnouncedAtMostOnce
<1>1. IInv => AnnouncedAtMostOnce
  BY DEF IInv, SoleStarter, SoleFinisher, SoleCloser, AnnouncedAtMostOnce
<1> QED BY <1>1, Invariant, PTL

(* The holder of inner never waits for it, and only Connected is announced *)
(* with it held.                                                           *)
THEOREM NoSelfDeadlock == Safe => []NeverHeldTwice
<1>1. IInv => NeverHeldTwice
  <2> SUFFICES ASSUME Debts, Mutex, NEW t \in Thread, inner = t
               PROVE  /\ pc[t] \notin Waiting
                      /\ pc[t] \in {"notify", "call"} => owes[t] = "Connected"
    BY DEF IInv, NeverHeldTwice
  <2>1. pc[t] \in Locked \/ (pc[t] \in {"notify", "call"} /\ owes[t] = "Connected")
    BY DEF Mutex, Holds, Debts
  <2> QED BY <2>1 DEF Locked, Waiting
<1> QED BY <1>1, Invariant, PTL

(* No Connected without a pinned fingerprint that matches the peer's.      *)
THEOREM PeerIsPinned == Safe => []NoConnectWithoutPin
<1>1. IInv => NoConnectWithoutPin
  <2> SUFFICES ASSUME TypeOK, Pinned PROVE NoConnectWithoutPin
    BY DEF IInv
  <2>1. told["Connected"] > 0 => told["Connected"] # 0
    BY DEF TypeOK, DtlsState
  <2> QED BY <2>1 DEF Pinned, NoConnectWithoutPin
<1> QED BY <1>1, Invariant, PTL

(* on_data is not called before Connected has been announced.              *)
THEOREM DataAfterConnected == Safe => []ConnectedBeforeData
<1>1. IInv => ConnectedBeforeData
  BY DEF IInv, HeardConnected, ConnectedBeforeData
<1> QED BY <1>1, Invariant, PTL

(* When every call has returned, a handshake that OpenSSL has given up has *)
(* failed or closed the transport, unless start() alone has met the error. *)
THEOREM DeadIsFailed == Safe => []DeadMeansFailed
<1>1. IInv => DeadMeansFailed
  BY DEF IInv, Dead, DeadMeansFailed, Quiet, Thread
<1> QED BY <1>1, Invariant, PTL

(* When every call has returned during the handshake, no record waits in   *)
(* the outbound BIO unless ICE has refused one.                            *)
THEOREM DrainsTheHandshake == Safe => []NothingStranded
<1>1. IInv => NothingStranded
  <2> SUFFICES ASSUME TypeOK, Drained PROVE NothingStranded
    BY DEF IInv
  <2>1. out_bio > 0 \/ out_bio = 0
    BY DtlsAssumption DEF TypeOK
  <2> QED BY <2>1 DEF Drained, NothingStranded, Quiet
<1> QED BY <1>1, Invariant, PTL

-----------------------------------------------------------------------------
(* Refinement of Lifecycle: the steps that set the state are Moves, the    *)
(* call of on_state_change an Announce, and every other step stutters.     *)

Heard == {"New"} \cup {s \in DtlsState : told[s] > 0}

LEMMA NotAState == "none" \notin DtlsState
  BY DEF DtlsState

LEMMA Stutters == UNCHANGED <<state, owes, told>> => UNCHANGED L!vars
  BY DEF L!vars

\* Counting one more announcement makes that state, and no other, heard.
LEMMA CallIsHeard ==
  ASSUME TypeOK, NEW s \in DtlsState, told' = [told EXCEPT ![s] = @ + 1]
  PROVE  Heard' = Heard \cup {s}
<1>1. told'[s] > 0 /\ \A r \in DtlsState \ {s} : told'[r] = told[r]
  BY DEF TypeOK
<1> QED BY <1>1 DEF Heard

LEMMA RefinesInit == Init => L!Init
<1> SUFFICES ASSUME Init PROVE L!Init
  OBVIOUS
<1>1. {s \in DtlsState : told[s] > 0} = {}
  BY DEF Init
<1> QED BY <1>1 DEF Init, L!Init

\* Connected never comes over New or over itself.
LEMMA RefinesStep == IInv /\ [Next]_vars => L!Next \/ UNCHANGED L!vars
<1> SUFFICES ASSUME IInv, [Next]_vars PROVE L!Next \/ UNCHANGED L!vars
  OBVIOUS
<1> USE DEF IInv, cells, tls, locals, history
<1>1. ASSUME NEW t \in Thread,
               NotifyClone(t) \/ StartSwapStarted(t) \/ StartSnapshot(t) \/ StartInstall(t)
            \/ StartLock(t) \/ Drive(t) \/ DrainEmpty(t) \/ DrainSend(t)
     PROVE  L!Next \/ UNCHANGED L!vars
  BY <1>1, Stutters DEF NotifyClone, StartSwapStarted, StartSnapshot, StartInstall, StartLock,
    Lock, Drive, DrainEmpty, DrainSend
<1>2. ASSUME NEW t \in Thread, NotifyCall(t) PROVE L!Next \/ UNCHANGED L!vars
  <2>1. owes[t] \in DtlsState
    BY <1>2 DEF NotifyCall, TypeOK, Debts, Goto
  <2>2. /\ told' = [told EXCEPT ![owes[t]] = @ + 1]
        /\ owes' = [owes EXCEPT ![t] = "none"]
        /\ state' = state
    BY <1>2 DEF NotifyCall
  <2>3. Heard' = Heard \cup {owes[t]}
    BY <2>1, <2>2, CallIsHeard
  <2>4. L!Announce(t)
    BY <2>1, <2>2, <2>3, NotAState DEF L!Announce, Heard
  <2> QED BY <2>4 DEF L!Next
<1>3. ASSUME NEW u \in User,
               StartCheckClosed(u) \/ IceCloses(u) \/ close(u) \/ SendCheckClosed(u)
     PROVE  L!Next \/ UNCHANGED L!vars
  BY <1>3, Stutters DEF StartCheckClosed, Begin, Enter, IceCloses, IceDown, close,
    SendCheckClosed
<1>4. ASSUME NEW t \in Thread, StartSetState(t) PROVE L!Next \/ UNCHANGED L!vars
  <2>1. CASE state = "New"
    <3>1. owes[t] = "none"
      BY <1>4, <2>1 DEF StartSetState, Debts, Goto
    <3>2. state' = "Connecting" /\ owes' = [owes EXCEPT ![t] = "Connecting"] /\ UNCHANGED told
      BY <1>4, <2>1 DEF StartSetState, SetState
    <3>3. <<state, "Connecting">> \in DtlsEdge
      BY <2>1 DEF DtlsEdge
    <3>4. L!Move(t, "Connecting")
      BY <3>1, <3>2, <3>3 DEF L!Move, Heard
    <3> QED BY <3>4 DEF L!Next, DtlsState
  <2>2. CASE ~(state = "New")
    BY <1>4, <2>2, Stutters DEF StartSetState
  <2> QED BY <2>1, <2>2
<1>5. ASSUME NEW t \in Thread,
               DriveResult(t) \/ Unlock(t) \/ HookLock(t) \/ CloseSwapClosed(t)
            \/ SendCheckState(t) \/ SendWrite(t)
     PROVE  L!Next \/ UNCHANGED L!vars
  BY <1>5, Stutters DEF DriveResult, Unlock, HookLock, Lock, Enter, CloseSwapClosed,
    SendCheckState, SendWrite
<1>6. ASSUME NEW t \in Thread, DriveSetConnected(t) PROVE L!Next \/ UNCHANGED L!vars
  <2>1. owes[t] = "none" /\ inner = t /\ ssl = "done" /\ told["Connected"] = 0
    BY <1>6 DEF DriveSetConnected, Goto, Debts, Mutex, Holds, Locked, Pinned, SoleFinisher, Finishing
  <2>2. state' = "Connected" /\ owes' = [owes EXCEPT ![t] = "Connected"] /\ UNCHANGED told
    BY <1>6 DEF DriveSetConnected, SetState
  <2>3. state # "New"
    BY <2>1 DEF NotNew
  <2>4. state # "Connected"
    BY <2>1 DEF HeardConnected, Mutex, Holds
  <2>5. <<state, "Connected">> \in DtlsEdge
    BY <2>3, <2>4 DEF DtlsEdge, TypeOK, DtlsState
  <2>6. L!Move(t, "Connected")
    BY <2>1, <2>2, <2>5 DEF L!Move, Heard
  <2> QED BY <2>6 DEF L!Next, DtlsState
<1>7. CASE IceUp \/ IceFails \/ PumpDatagram \/ PumpWrite \/ PumpReadState
        \/ PumpCheckConnected \/ PumpFail \/ SslRead
  BY <1>7, Stutters DEF IceUp, Enter, IceFails, IceDown, PumpDatagram, PumpWrite, PumpReadState,
    PumpCheckConnected, PumpFail, SslRead
<1>8. ASSUME NEW t \in Thread, FailSetState(t) PROVE L!Next \/ UNCHANGED L!vars
  <2>1. CASE state \notin {"Failed", "Closed"}
    <3>1. owes[t] = "none"
      BY <1>8, <2>1 DEF FailSetState, Debts, Goto
    <3>2. state' = "Failed" /\ owes' = [owes EXCEPT ![t] = "Failed"] /\ UNCHANGED told
      BY <1>8, <2>1 DEF FailSetState, SetState
    <3>3. <<state, "Failed">> \in DtlsEdge
      BY <1>8, <2>1 DEF FailSetState, Goto, NotNew, PastConnecting, DtlsEdge, TypeOK, DtlsState
    <3>4. L!Move(t, "Failed")
      BY <3>1, <3>2, <3>3 DEF L!Move, Heard
    <3> QED BY <3>4 DEF L!Next, DtlsState
  <2>2. CASE ~(state \notin {"Failed", "Closed"})
    BY <1>8, <2>2, Stutters DEF FailSetState
  <2> QED BY <2>1, <2>2
<1>9. CASE ReadClone \/ ReadCall \/ ReadPeerClosed
  BY <1>9, Stutters DEF ReadClone, ReadCall, ReadPeerClosed
<1>10. ASSUME NEW t \in Thread, CloseSetState(t) PROVE L!Next \/ UNCHANGED L!vars
  <2>1. CASE state # "Closed"
    <3>1. owes[t] = "none"
      BY <1>10, <2>1 DEF CloseSetState, Debts, Goto
    <3>2. state' = "Closed" /\ owes' = [owes EXCEPT ![t] = "Closed"] /\ UNCHANGED told
      BY <1>10, <2>1 DEF CloseSetState, SetState
    <3>3. <<state, "Closed">> \in DtlsEdge
      BY <2>1 DEF DtlsEdge, TypeOK, DtlsState
    <3>4. L!Move(t, "Closed")
      BY <3>1, <3>2, <3>3 DEF L!Move, Heard
    <3> QED BY <3>4 DEF L!Next, DtlsState
  <2>2. CASE ~(state # "Closed")
    BY <1>10, <2>2, Stutters DEF CloseSetState
  <2> QED BY <2>1, <2>2
<1>11. ASSUME NEW u \in User, NEW fp \in Fingerprint, set_remote_fingerprint(u, fp) PROVE L!Next \/ UNCHANGED L!vars
  BY <1>11, Stutters DEF set_remote_fingerprint
<1>12. ASSUME NEW u \in User, NEW l \in Listener, set_callbacks(u, l) PROVE L!Next \/ UNCHANGED L!vars
  BY <1>12, Stutters DEF set_callbacks
<1>13. CASE UNCHANGED vars
  BY <1>13, Stutters DEF vars
<1> QED BY <1>1, <1>2, <1>3, <1>4, <1>5, <1>6, <1>7, <1>8, <1>9, <1>10, <1>11, <1>12, <1>13 DEF
  Next, Acquire, Step, DriverStep, Call, Event

(* Every change of the state is announced, once, by the thread that made   *)
(* it and before it makes another; the state moves along DtlsEdge only.    *)
THEOREM RefinesLifecycle == Safe => L!Safe
<1>1. IInv /\ [Next]_vars => [L!Next]_(L!vars)
  BY RefinesStep
<1> QED BY <1>1, RefinesInit, Invariant, PTL DEF Safe, L!Safe

(* What the promise gives for the state: nobody is left believing in a     *)
(* value that nobody is about to correct.                                  *)
LEMMA CoveredStays ==
  ASSUME L!TypeOK, L!Covered, [L!Next]_(L!vars)
  PROVE  L!TypeOK' /\ L!Covered'
<1>1. ASSUME NEW a \in Thread, L!Announce(a) PROVE L!TypeOK' /\ L!Covered'
  BY <1>1 DEF L!Announce, L!Covered, L!TypeOK
<1>2. ASSUME NEW a \in Thread, NEW s \in DtlsState, L!Move(a, s) PROVE L!TypeOK' /\ L!Covered'
  BY <1>2 DEF L!Move, L!Covered, L!TypeOK
<1>3. CASE UNCHANGED L!vars
  BY <1>3 DEF L!vars, L!Covered, L!TypeOK
<1> QED BY <1>1, <1>2, <1>3 DEF L!Next

(* Covered, for the state: the value the cell holds has been announced,    *)
(* or the thread that set it still owes the announcement.                  *)
THEOREM StatusCovered == Safe => []L!Covered
<1>1. L!Init => L!TypeOK /\ L!Covered
  BY DEF L!Init, L!TypeOK, L!Covered, DtlsState
<1> QED BY <1>1, RefinesLifecycle, CoveredStays, PTL DEF L!Safe
=============================================================================

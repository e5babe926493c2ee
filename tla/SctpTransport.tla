---------------------------- MODULE SctpTransport ----------------------------
(***************************************************************************)
(* src/sctp_transport.rs: the SCTP layer, which at this commit is the      *)
(* state machine without the usrsctp socket.  Every shared cell is an      *)
(* atomic or a short critical section, so each access is an action; the    *)
(* callback is cloned out of its mutex and called outside every lock.      *)
(*                                                                         *)
(* A thread is whoever calls connect, close, send or set_callbacks: an     *)
(* application thread, or the ICE driver task on which DTLS announces      *)
(* Connected and thereby runs the auto-connect hook.                       *)
(***************************************************************************)
EXTENDS Naturals, Sequences

CONSTANTS Thread,     \* threads that call into the transport
          Listener    \* callback sets the application may install

ASSUME SctpAssumption == Thread # {} /\ Listener # {}

VARIABLES closed,     \* AtomicBool
          started,    \* AtomicBool
          state,      \* AtomicU8 holding an SctpState
          associated, \* Inner::associated, behind its mutex
          callbacks,  \* the installed callback set, behind its mutex
          pc,         \* pc[t]: the next access of thread t, "idle" outside a call
          clone,      \* clone[t]: the on_state_change Arc thread t has cloned
          told,       \* history: the on_state_change calls made, in order
          verdict     \* verdict[t]: what thread t's last send returned

vars == <<closed, started, state, associated, callbacks, pc, clone, told, verdict>>

SctpState == {"New", "Connecting", "Connected", "Failed", "Closed"}

\* The first access after the closed check, and so on; a label names what is next.
Label == {"idle",
          "connect:swap started", "connect:cas state", "connect:associate",
          "connect:clone", "connect:call",
          "close:swap state", "close:clone", "close:call", "close:dissociate",
          "send:load state"}

\* The error send() answers with; it never answers Ok at this commit.
Verdict == {"none", "Closed", "NotConnected", "NotImplemented"}

Init ==
  /\ closed = FALSE
  /\ started = FALSE
  /\ state = "New"
  /\ associated = FALSE
  /\ callbacks \in Listener
  /\ pc = [t \in Thread |-> "idle"]
  /\ clone = [t \in Thread |-> callbacks]
  /\ told = <<>>
  /\ verdict = [t \in Thread |-> "none"]

Goto(t, from, to) == pc[t] = from /\ pc' = [pc EXCEPT ![t] = to]

-----------------------------------------------------------------------------
(* Slips: what some of the actions below would be after a plausible        *)
(* mistake.  No action uses them; each shows that a property notices.      *)

\* store() where the code has compare_exchange()
ConnectCas_Store(t) ==
  /\ Goto(t, "connect:cas state", "connect:associate")
  /\ state' = "Connecting"
  /\ UNCHANGED <<closed, started, associated, callbacks, clone, told, verdict>>

\* the stub pretends that the association came up
ConnectCas_Fake(t) ==
  /\ Goto(t, "connect:cas state", IF state = "New" THEN "connect:associate" ELSE "idle")
  /\ state' = IF state = "New" THEN "Connected" ELSE state
  /\ UNCHANGED <<closed, started, associated, callbacks, clone, told, verdict>>

\* (cb)(self.state()) where the code passes the status it has set
ConnectCall_Reload(t) ==
  /\ Goto(t, "connect:call", "idle")
  /\ told' = Append(told, [to |-> clone[t], status |-> state])
  /\ UNCHANGED <<closed, started, state, associated, callbacks, clone, verdict>>

\* prev == Closed where the code has prev != Closed
CloseSwapState_Inverted(t) ==
  /\ Goto(t, "close:swap state", IF state = "Closed" THEN "close:clone" ELSE "close:dissociate")
  /\ state' = "Closed"
  /\ UNCHANGED <<closed, started, associated, callbacks, clone, told, verdict>>

\* the C++ Disconnected, which SctpState does not have
CloseSwapState_Disconnected(t) ==
  /\ Goto(t, "close:swap state", "close:clone")
  /\ state' = "Disconnected"
  /\ UNCHANGED <<closed, started, associated, callbacks, clone, told, verdict>>

-----------------------------------------------------------------------------
(* connect()                                                               *)

ConnectCheckClosed(t) ==
  /\ ~closed
  /\ Goto(t, "idle", "connect:swap started")
  /\ UNCHANGED <<closed, started, state, associated, callbacks, clone, told, verdict>>

ConnectSwapStarted(t) ==
  /\ Goto(t, "connect:swap started", IF started THEN "idle" ELSE "connect:cas state")
  /\ started' = TRUE
  /\ UNCHANGED <<closed, state, associated, callbacks, clone, told, verdict>>

ConnectCas(t) ==
  /\ Goto(t, "connect:cas state", IF state = "New" THEN "connect:associate" ELSE "idle")
  /\ state' = IF state = "New" THEN "Connecting" ELSE state
  /\ UNCHANGED <<closed, started, associated, callbacks, clone, told, verdict>>

ConnectAssociate(t) ==
  /\ Goto(t, "connect:associate", "connect:clone")
  /\ associated' = TRUE
  /\ UNCHANGED <<closed, started, state, callbacks, clone, told, verdict>>

ConnectClone(t) ==
  /\ Goto(t, "connect:clone", "connect:call")
  /\ clone' = [clone EXCEPT ![t] = callbacks]
  /\ UNCHANGED <<closed, started, state, associated, callbacks, told, verdict>>

ConnectCall(t) ==
  /\ Goto(t, "connect:call", "idle")
  /\ told' = Append(told, [to |-> clone[t], status |-> "Connecting"])
  /\ UNCHANGED <<closed, started, state, associated, callbacks, clone, verdict>>

-----------------------------------------------------------------------------
(* close()                                                                 *)

CloseSwapClosed(t) ==
  /\ Goto(t, "idle", IF closed THEN "idle" ELSE "close:swap state")
  /\ closed' = TRUE
  /\ UNCHANGED <<started, state, associated, callbacks, clone, told, verdict>>

CloseSwapState(t) ==
  /\ Goto(t, "close:swap state", IF state = "Closed" THEN "close:dissociate" ELSE "close:clone")
  /\ state' = "Closed"
  /\ UNCHANGED <<closed, started, associated, callbacks, clone, told, verdict>>

CloseClone(t) ==
  /\ Goto(t, "close:clone", "close:call")
  /\ clone' = [clone EXCEPT ![t] = callbacks]
  /\ UNCHANGED <<closed, started, state, associated, callbacks, told, verdict>>

CloseCall(t) ==
  /\ Goto(t, "close:call", "close:dissociate")
  /\ told' = Append(told, [to |-> clone[t], status |-> "Closed"])
  /\ UNCHANGED <<closed, started, state, associated, callbacks, clone, verdict>>

CloseDissociate(t) ==
  /\ Goto(t, "close:dissociate", "idle")
  /\ associated' = FALSE
  /\ UNCHANGED <<closed, started, state, callbacks, clone, told, verdict>>

-----------------------------------------------------------------------------
(* send() loads closed and then, separately, state; both loads decide what *)
(* it returns.                                                             *)

SendCheckClosed(t) ==
  /\ Goto(t, "idle", IF closed THEN "idle" ELSE "send:load state")
  /\ verdict' = [verdict EXCEPT ![t] = IF closed THEN "Closed" ELSE "none"]
  /\ UNCHANGED <<closed, started, state, associated, callbacks, clone, told>>

SendLoadState(t) ==
  /\ Goto(t, "send:load state", "idle")
  /\ verdict' = [verdict EXCEPT ![t] =
                   IF state = "Connected" THEN "NotImplemented" ELSE "NotConnected"]
  /\ UNCHANGED <<closed, started, state, associated, callbacks, clone, told>>

set_callbacks(t, l) ==
  /\ pc[t] = "idle"
  /\ callbacks' = l
  /\ UNCHANGED <<closed, started, state, associated, pc, clone, told, verdict>>

-----------------------------------------------------------------------------
\* What a thread inside a call does next.
Step(t) ==
  \/ ConnectSwapStarted(t) \/ ConnectCas(t) \/ ConnectAssociate(t)
  \/ ConnectClone(t) \/ ConnectCall(t)
  \/ CloseSwapState(t) \/ CloseClone(t) \/ CloseCall(t) \/ CloseDissociate(t)
  \/ SendLoadState(t)

\* What a thread outside a call may begin.
Call(t) ==
  \/ ConnectCheckClosed(t)
  \/ CloseSwapClosed(t)
  \/ SendCheckClosed(t)
  \/ \E l \in Listener : set_callbacks(t, l)

Next == \E t \in Thread : Step(t) \/ Call(t)

\* The scheduler runs every thread that is inside a call; nobody has to call.
Fairness == \A t \in Thread : WF_vars(Step(t))

Safe == Init /\ [][Next]_vars

Spec == Safe /\ Fairness

-----------------------------------------------------------------------------
(* Properties.                                                             *)

TypeOK ==
  /\ closed \in BOOLEAN /\ started \in BOOLEAN /\ associated \in BOOLEAN
  /\ state \in SctpState
  /\ callbacks \in Listener
  /\ pc \in [Thread -> Label]
  /\ clone \in [Thread -> Listener]
  /\ told \in Seq([to : Listener, status : SctpState])
  /\ verdict \in [Thread -> Verdict]

\* The statuses the application has heard of, whoever was told.
Heard == {told[i].status : i \in DOMAIN told}

(* close() "fires on_state_change(Closed) exactly once" and connect() is   *)
(* idempotent: whatever the interleaving of the auto-connect hook, explicit *)
(* calls and several closes, no status is announced twice.                 *)
AnnouncedOnce ==
  \A i, j \in DOMAIN told : told[i].status = told[j].status => i = j

(* The compare-and-swap in connect() and the swap in close() leave no      *)
(* interleaving in which a closed association comes back.                  *)
ClosedIsFinal == [][state = "Closed" => state' = "Closed"]_vars

(* A transport nobody is inside a call on has told the application about   *)
(* the status it is in, and is associated only if connect() got through.   *)
QuiescentIsHeard ==
  (\A t \in Thread : pc[t] = "idle") =>
     /\ state # "New" => state \in Heard
     /\ associated => "Connecting" \in Heard

(* The call that closes the transport runs to its end: Closed is announced *)
(* even while other threads keep calling.                                  *)
CloseAnnounced == closed ~> "Closed" \in Heard

-----------------------------------------------------------------------------
(* The abstract promise: New -> Connecting, and Closed from either.        *)

SctpEdge == {<<"New", "Connecting">>, <<"New", "Closed">>, <<"Connecting", "Closed">>}

Owes(t) ==
  CASE pc[t] \in {"connect:associate", "connect:clone", "connect:call"} -> "Connecting"
    [] pc[t] \in {"close:clone", "close:call"} -> "Closed"
    [] OTHER -> "nothing"

L == INSTANCE Lifecycle
       WITH Actor <- Thread, Status <- SctpState, Initial <- "New",
            Edge <- SctpEdge, Nothing <- "nothing",
            status <- state, owes <- [t \in Thread |-> Owes(t)],
            heard <- {"New"} \cup Heard

(* Every change of state is announced exactly once, by the thread that     *)
(* made it, before it does anything else that the application can see.     *)
AnnouncesEveryMove == L!Spec
=============================================================================

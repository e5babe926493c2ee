---------------------------- MODULE IceTransport ----------------------------
(***************************************************************************)
(* src/ice_transport.rs: the ICE layer over the libjuice agent.            *)
(*                                                                         *)
(* Application threads call gather, set_remote_description,                *)
(* add_remote_candidate, set_remote_end_of_candidates, restart_ice, close  *)
(* and set_callbacks; the agent's driver task, one more thread, delivers   *)
(* state, candidate, gathering-done and datagram events one at a time.     *)
(* Each operation loads closed, then takes one mutex after the other,      *)
(* then clones a callback and calls it with nothing held: every such       *)
(* access is an action, and threads interleave between any two of them.    *)
(* send, the getters and get_local_description change nothing here; what   *)
(* send answers is SendOutcome, for the layer above.                       *)
(***************************************************************************)
EXTENDS Naturals

CONSTANTS User,               \* application threads
          driver,             \* the libjuice driver task
          Calls,              \* Calls[u]: the operations user u may call
          Listener,           \* callback sets
          RemoteDescription,  \* the descriptions given to set_remote_description
          Setup, BundleMid,   \* desc.role() and desc.bundle_mid() of each
          InitialRole,        \* roles new() may be called with
          AgentEdge           \* <<from, to>>: how the agent's state may move

Thread == User \cup {driver}

Op == {"gather", "description", "candidate", "end", "restart", "close", "set_callbacks"}
Role == {"ActPass", "Active", "Passive"}
State == {"New", "Checking", "Connected", "Completed", "Failed", "Disconnected", "Closed"}
GatheringState == {"New", "InProgress", "Complete"}
JuiceState == {"Disconnected", "Gathering", "Connecting", "Connected", "Completed", "Failed"}
Mid == {"0"} \cup {BundleMid[d] : d \in RemoteDescription}

ASSUME IceAssumption ==
  /\ driver \notin User
  /\ Listener # {}
  /\ Calls \in [User -> SUBSET Op]
  /\ InitialRole \subseteq Role
  /\ Setup \in [RemoteDescription -> Role]
  /\ AgentEdge \subseteq JuiceState \X JuiceState

VARIABLES closed,           \* AtomicBool
          state,            \* Mutex<State>
          gathering_state,  \* Mutex<GatheringState>
          role,             \* Mutex<Role>
          mid,              \* Mutex<String>
          callbacks,        \* Mutex<IceTransportCallbacks>
          agent,            \* libjuice: [alive, state, got, done]
          pc,               \* what thread t does next, "idle" outside a call
          arg,              \* the argument, or a local, of t's call
          clone,            \* the callback set t has cloned from
          owesState,        \* the state t has set and not announced
          owesGathering,    \* the gathering state t has set and not announced
          heard,            \* history: states announced
          gatheringHeard,   \* history: gathering states announced
          closedCalls       \* history: how often Closed was announced

cells == <<closed, state, gathering_state, role, mid, callbacks>>
debts == <<owesState, owesGathering>>
history == <<heard, gatheringHeard, closedCalls>>
vars == <<cells, agent, pc, arg, clone, debts, history>>

Init ==
  /\ closed = FALSE
  /\ state = "New"
  /\ gathering_state = "New"
  /\ role \in InitialRole
  /\ mid = "0"
  /\ callbacks \in Listener
  /\ agent = [alive |-> TRUE, state |-> "Disconnected", got |-> {}, done |-> FALSE]
  /\ pc = [t \in Thread |-> "idle"]
  /\ arg = [t \in Thread |-> "none"]
  /\ clone = [t \in Thread |-> callbacks]
  /\ owesState = [t \in Thread |-> "none"]
  /\ owesGathering = [t \in Thread |-> "none"]
  /\ heard = {"New"}
  /\ gatheringHeard = {"New"}
  /\ closedCalls = 0

(* Operators named X_Slip are not used by any action: each is X after a    *)
(* plausible mistake, kept beside X to show which property notices it.     *)

\* the agent's state passed through as it is
map_state_Slip(s) == s

map_state(s) ==
  CASE s = "Disconnected" -> "New"
    [] s \in {"Gathering", "Connecting"} -> "Checking"
    [] OTHER -> s

Goto(t, from, to) == pc[t] = from /\ pc' = [pc EXCEPT ![t] = to]

\* A user calls op; every operation but these two starts by loading closed.
Begin(u, op, to) ==
  /\ op \in Calls[u]
  /\ ~closed
  /\ Goto(u, "idle", to)

\* without "if different"
SetState_Slip(t, s) ==
  /\ state' = s
  /\ owesState' = [owesState EXCEPT ![t] = s]

\* Lock, set if different, unlock: the thread now owes an announcement.
SetState(t, s) ==
  /\ state' = s
  /\ owesState' = [owesState EXCEPT ![t] = IF state = s THEN "none" ELSE s]

SetGathering(t, g) ==
  /\ gathering_state' = g
  /\ owesGathering' = [owesGathering EXCEPT ![t] = IF gathering_state = g THEN "none" ELSE g]

-----------------------------------------------------------------------------
(* Announcing: clone the Arc under the callbacks mutex, release, call.     *)
(* restart_ice announces the gathering state first, and gather() commands  *)
(* the agent after its announcement has returned.                          *)

NotifyClone(t) ==
  /\ Goto(t, "notify", "call")
  /\ clone' = [clone EXCEPT ![t] = callbacks]
  /\ UNCHANGED <<cells, agent, arg, debts, history>>

NotifyGathering(t) ==
  /\ owesGathering[t] # "none"
  /\ Goto(t, "call", CASE owesGathering[t] = "InProgress" -> "gather:command"
                       [] owesGathering[t] # "InProgress" /\ owesState[t] # "none" -> "notify"
                       [] OTHER -> "idle")
  /\ gatheringHeard' = gatheringHeard \cup {owesGathering[t]}
  /\ owesGathering' = [owesGathering EXCEPT ![t] = "none"]
  /\ UNCHANGED <<cells, agent, arg, clone, owesState, heard, closedCalls>>

NotifyState(t) ==
  /\ owesGathering[t] = "none"
  /\ Goto(t, "call", "idle")
  /\ heard' = heard \cup {owesState[t]}
  /\ closedCalls' = IF owesState[t] = "Closed" THEN closedCalls + 1 ELSE closedCalls
  /\ owesState' = [owesState EXCEPT ![t] = "none"]
  /\ UNCHANGED <<cells, agent, arg, clone, owesGathering, gatheringHeard>>

-----------------------------------------------------------------------------
(* gather()                                                                *)

GatherCheckClosed(u) ==
  /\ Begin(u, "gather", "gather:advance")
  /\ UNCHANGED <<cells, agent, arg, clone, debts, history>>

\* the agent commanded before InProgress is announced
GatherAdvance_Slip(t) ==
  /\ Goto(t, "gather:advance", IF gathering_state = "New" THEN "notify" ELSE "idle")
  /\ IF gathering_state = "New" THEN SetGathering(t, "InProgress")
                                ELSE UNCHANGED <<gathering_state, owesGathering>>
  /\ agent' = [agent EXCEPT !.got = @ \cup {"gather"}]
  /\ UNCHANGED <<closed, state, role, mid, callbacks, arg, clone, owesState, history>>

GatherAdvance(t) ==
  /\ Goto(t, "gather:advance", IF gathering_state = "New" THEN "notify" ELSE "idle")
  /\ IF gathering_state = "New" THEN SetGathering(t, "InProgress")
                                ELSE UNCHANGED <<gathering_state, owesGathering>>
  /\ UNCHANGED <<closed, state, role, mid, callbacks, agent, arg, clone, owesState, history>>

\* waiting for the agent's reply
GatherCommand_Slip(t) ==
  /\ agent.alive
  /\ Goto(t, "gather:command", "idle")
  /\ agent' = [agent EXCEPT !.got = @ \cup {"gather"}]
  /\ UNCHANGED <<cells, arg, clone, debts, history>>

\* The error of a dead agent is returned; the gathering state stays put.
GatherCommand(t) ==
  /\ Goto(t, "gather:command", "idle")
  /\ agent' = IF agent.alive THEN [agent EXCEPT !.got = @ \cup {"gather"}] ELSE agent
  /\ UNCHANGED <<cells, arg, clone, debts, history>>

-----------------------------------------------------------------------------
(* set_remote_description(desc)                                            *)

RemoteCheckClosed(u, desc) ==
  /\ Begin(u, "description", "remote:resolve role")
  /\ arg' = [arg EXCEPT ![u] = desc]
  /\ UNCHANGED <<cells, agent, clone, debts, history>>

\* actpass left open
ResolvedRole_Slip(setup) ==
  CASE setup = "Active" -> "Passive" [] setup = "Passive" -> "Active" [] OTHER -> "ActPass"

\* The opposite of the remote's setup; Active when that is actpass.
ResolvedRole(setup) == IF setup = "Active" THEN "Passive" ELSE "Active"

\* resolved again by every description
RemoteResolveRole_Slip(t) ==
  /\ Goto(t, "remote:resolve role", "remote:record mid")
  /\ role' = ResolvedRole(Setup[arg[t]])
  /\ UNCHANGED <<closed, state, gathering_state, mid, callbacks, agent, arg, clone, debts, history>>

RemoteResolveRole(t) ==
  /\ Goto(t, "remote:resolve role", "remote:record mid")
  /\ role' = IF role = "ActPass" THEN ResolvedRole(Setup[arg[t]]) ELSE role
  /\ UNCHANGED <<closed, state, gathering_state, mid, callbacks, agent, arg, clone, debts, history>>

RemoteRecordMid(t) ==
  /\ Goto(t, "remote:record mid", "remote:command")
  /\ mid' = BundleMid[arg[t]]
  /\ UNCHANGED <<closed, state, gathering_state, role, callbacks, agent, arg, clone, debts, history>>

RemoteCommand(t) ==
  /\ Goto(t, "remote:command", "idle")
  /\ agent' = IF agent.alive THEN [agent EXCEPT !.got = @ \cup {"description"}] ELSE agent
  /\ arg' = [arg EXCEPT ![t] = "none"]
  /\ UNCHANGED <<cells, clone, debts, history>>

-----------------------------------------------------------------------------
(* add_remote_candidate, which forwards a resolved candidate, and          *)
(* set_remote_end_of_candidates.                                           *)

TrickleCheckClosed(u, what) ==
  /\ Begin(u, what, "trickle:command")
  /\ arg' = [arg EXCEPT ![u] = what]
  /\ UNCHANGED <<cells, agent, clone, debts, history>>

TrickleCommand(t) ==
  /\ Goto(t, "trickle:command", "idle")
  /\ agent' = IF agent.alive THEN [agent EXCEPT !.got = @ \cup {arg[t]}] ELSE agent
  /\ arg' = [arg EXCEPT ![t] = "none"]
  /\ UNCHANGED <<cells, clone, debts, history>>

-----------------------------------------------------------------------------
(* restart_ice(): resets the two flags, one mutex after the other, and     *)
(* leaves the agent alone.                                                 *)

RestartCheckClosed(u) ==
  /\ Begin(u, "restart", "restart:reset gathering")
  /\ UNCHANGED <<cells, agent, arg, clone, debts, history>>

\* the reset of the gathering state not announced
RestartResetGathering_Slip(t) ==
  /\ Goto(t, "restart:reset gathering", "restart:reset state")
  /\ gathering_state' = "New"
  /\ UNCHANGED <<closed, state, role, mid, callbacks, agent, arg, clone, debts, history>>

RestartResetGathering(t) ==
  /\ Goto(t, "restart:reset gathering", "restart:reset state")
  /\ SetGathering(t, "New")
  /\ UNCHANGED <<closed, state, role, mid, callbacks, agent, arg, clone, owesState, history>>

RestartResetState(t) ==
  /\ Goto(t, "restart:reset state",
          IF owesGathering[t] = "none" /\ state = "New" THEN "idle" ELSE "notify")
  /\ SetState(t, "New")
  /\ UNCHANGED <<closed, gathering_state, role, mid, callbacks, agent, arg, clone,
                 owesGathering, history>>

-----------------------------------------------------------------------------
(* close()                                                                 *)

\* the result of the swap ignored
CloseSwapClosed_Slip(u) ==
  /\ "close" \in Calls[u]
  /\ Goto(u, "idle", "close:set state")
  /\ closed' = TRUE
  /\ UNCHANGED <<state, gathering_state, role, mid, callbacks, agent, arg, clone, debts, history>>

CloseSwapClosed(u) ==
  /\ "close" \in Calls[u]
  /\ Goto(u, "idle", IF closed THEN "idle" ELSE "close:set state")
  /\ closed' = TRUE
  /\ UNCHANGED <<state, gathering_state, role, mid, callbacks, agent, arg, clone, debts, history>>

\* Closed not announced
CloseSetState_Slip(t) ==
  /\ Goto(t, "close:set state", "idle")
  /\ state' = "Closed"
  /\ UNCHANGED <<closed, gathering_state, role, mid, callbacks, agent, arg, clone, debts, history>>

CloseSetState(t) ==
  /\ Goto(t, "close:set state", IF state = "Closed" THEN "idle" ELSE "notify")
  /\ SetState(t, "Closed")
  /\ UNCHANGED <<closed, gathering_state, role, mid, callbacks, agent, arg, clone,
                 owesGathering, history>>

set_callbacks(u, l) ==
  /\ "set_callbacks" \in Calls[u]
  /\ pc[u] = "idle"
  /\ callbacks' = l
  /\ UNCHANGED <<closed, state, gathering_state, role, mid, agent, pc, arg, clone, debts, history>>

-----------------------------------------------------------------------------
(* The driver task: on_juice_*().  An event of the agent and the closed    *)
(* check of its handler are one action.                                    *)

Event(to) ==
  /\ agent.alive
  /\ Goto(driver, "idle", IF closed THEN "idle" ELSE to)

JuiceStateEvent(s) ==
  /\ <<agent.state, s>> \in AgentEdge
  /\ Event("juice:set state")
  /\ agent' = [agent EXCEPT !.state = s]
  /\ arg' = [arg EXCEPT ![driver] = IF closed THEN @ ELSE map_state(s)]
  /\ UNCHANGED <<cells, clone, debts, history>>

JuiceSetState ==
  /\ Goto(driver, "juice:set state", IF state = arg[driver] THEN "idle" ELSE "notify")
  /\ SetState(driver, arg[driver])
  /\ arg' = [arg EXCEPT ![driver] = "none"]
  /\ UNCHANGED <<closed, gathering_state, role, mid, callbacks, agent, clone,
                 owesGathering, history>>

Gathering == "gather" \in agent.got /\ ~agent.done

JuiceGatheringDoneEvent ==
  /\ Gathering
  /\ Event("done:complete")
  /\ agent' = [agent EXCEPT !.done = TRUE]
  /\ UNCHANGED <<cells, arg, clone, debts, history>>

DoneComplete ==
  /\ Goto(driver, "done:complete", IF gathering_state = "Complete" THEN "idle" ELSE "notify")
  /\ SetGathering(driver, "Complete")
  /\ UNCHANGED <<closed, state, role, mid, callbacks, agent, arg, clone, owesState, history>>

JuiceCandidateEvent ==
  /\ Gathering
  /\ Event("candidate:read mid")
  /\ UNCHANGED <<cells, agent, arg, clone, debts, history>>

\* A candidate that does not parse is dropped.
CandidateReadMid ==
  \E parses \in BOOLEAN :
     /\ Goto(driver, "candidate:read mid", IF parses THEN "candidate:clone" ELSE "idle")
     /\ arg' = [arg EXCEPT ![driver] = IF parses THEN mid ELSE @]
     /\ UNCHANGED <<cells, agent, clone, debts, history>>

CandidateClone ==
  /\ Goto(driver, "candidate:clone", "candidate:call")
  /\ clone' = [clone EXCEPT ![driver] = callbacks]
  /\ UNCHANGED <<cells, agent, arg, debts, history>>

CandidateCall ==
  /\ Goto(driver, "candidate:call", "idle")
  /\ arg' = [arg EXCEPT ![driver] = "none"]
  /\ UNCHANGED <<cells, agent, clone, debts, history>>

JuiceRecvEvent ==
  /\ agent.state \in {"Connected", "Completed"}
  /\ Event("recv:clone")
  /\ UNCHANGED <<cells, agent, arg, clone, debts, history>>

RecvClone ==
  /\ Goto(driver, "recv:clone", "recv:call")
  /\ clone' = [clone EXCEPT ![driver] = callbacks]
  /\ UNCHANGED <<cells, agent, arg, debts, history>>

RecvCall ==
  /\ Goto(driver, "recv:call", "idle")
  /\ UNCHANGED <<cells, agent, arg, clone, debts, history>>

\* The runtime that drives the agent goes away between two events.
AgentDies ==
  /\ agent.alive /\ pc[driver] = "idle"
  /\ agent' = [agent EXCEPT !.alive = FALSE]
  /\ UNCHANGED <<cells, pc, arg, clone, debts, history>>

-----------------------------------------------------------------------------
Step(t) ==
  \/ NotifyClone(t) \/ NotifyGathering(t) \/ NotifyState(t)
  \/ GatherAdvance(t) \/ GatherCommand(t)
  \/ RemoteResolveRole(t) \/ RemoteRecordMid(t) \/ RemoteCommand(t)
  \/ TrickleCommand(t)
  \/ RestartResetGathering(t) \/ RestartResetState(t)
  \/ CloseSetState(t)

DriverStep ==
  \/ JuiceSetState \/ DoneComplete
  \/ CandidateReadMid \/ CandidateClone \/ CandidateCall
  \/ RecvClone \/ RecvCall

Call(u) ==
  \/ GatherCheckClosed(u)
  \/ \E desc \in RemoteDescription : RemoteCheckClosed(u, desc)
  \/ \E what \in {"candidate", "end"} : TrickleCheckClosed(u, what)
  \/ RestartCheckClosed(u)
  \/ CloseSwapClosed(u)
  \/ \E l \in Listener : set_callbacks(u, l)

AgentEvent ==
  \/ \E s \in JuiceState : JuiceStateEvent(s)
  \/ JuiceGatheringDoneEvent \/ JuiceCandidateEvent \/ JuiceRecvEvent
  \/ AgentDies

Next ==
  \/ \E t \in Thread : Step(t)
  \/ DriverStep
  \/ \E u \in User : Call(u)
  \/ AgentEvent

\* Threads inside a call keep running; neither users nor the agent must act.
Fairness == (\A t \in Thread : WF_vars(Step(t))) /\ WF_vars(DriverStep)

Safe == Init /\ [][Next]_vars

Spec == Safe /\ Fairness

\* What send() answers: the closed check, then the agent's own answer.
SendOutcome ==
  IF closed THEN "Closed"
  ELSE IF agent.alive /\ agent.state \in {"Connected", "Completed"} THEN "Ok" ELSE "Juice"

-----------------------------------------------------------------------------
(* Properties.                                                             *)

Label == {"idle", "notify", "call", "gather:advance", "gather:command",
          "remote:resolve role", "remote:record mid", "remote:command", "trickle:command",
          "restart:reset gathering", "restart:reset state", "close:set state",
          "juice:set state", "done:complete",
          "candidate:read mid", "candidate:clone", "candidate:call",
          "recv:clone", "recv:call"}

ArgValue == {"none", "candidate", "end"} \cup RemoteDescription \cup State \cup Mid

TypeOK ==
  /\ closed \in BOOLEAN
  /\ state \in State
  /\ gathering_state \in GatheringState
  /\ role \in Role
  /\ mid \in Mid
  /\ callbacks \in Listener
  /\ agent \in [alive : BOOLEAN, state : JuiceState, done : BOOLEAN,
                got : SUBSET {"gather", "description", "candidate", "end"}]
  /\ pc \in [Thread -> Label]
  /\ arg \in [Thread -> ArgValue]
  /\ clone \in [Thread -> Listener]
  /\ owesState \in [Thread -> State \cup {"none"}]
  /\ owesGathering \in [Thread -> GatheringState \cup {"none"}]
  /\ heard \subseteq State
  /\ gatheringHeard \subseteq GatheringState
  /\ closedCalls \in Nat

(* close() "fires on_state_change(Closed) exactly once": never twice,      *)
(* although the status may leave Closed again (ClosedIsPinned below)...    *)
ClosedAtMostOnce == closedCalls <= 1

(* ... and always, once some thread has won the swap on closed.            *)
CloseAnnounced == closed ~> closedCalls = 1

(* Concurrent set_remote_description calls resolve the DTLS role once: the *)
(* first to take the role mutex decides, a later one cannot flip it.       *)
RoleResolvedOnce == [][role' # role => role = "ActPass" /\ role' # "ActPass"]_vars

(* The agent is given a remote description only after the DTLS role has    *)
(* been resolved against it, so no connectivity can come up before the     *)
(* layer above can tell whether it is the client.                          *)
RoleBeforeChecks == "description" \in agent.got => role # "ActPass"

(* gather() moves its own machine and announces InProgress before it       *)
(* commands the agent, so that no candidate, nor Complete, reaches the     *)
(* application before InProgress has, whoever else gathers or restarts.    *)
InProgressBeforeCandidates ==
  (pc[driver] = "candidate:call" \/ "Complete" \in gatheringHeard)
     => "InProgress" \in gatheringHeard

(* An announcement never blocks on another thread: whoever is inside a     *)
(* call of the transport, the driver task included, comes out of it.       *)
CallsReturn == \A t \in Thread : pc[t] # "idle" ~> pc[t] = "idle"

-----------------------------------------------------------------------------
(* The abstract promise, once for each of the two state machines.  Nothing *)
(* ever sets Disconnected; a late agent event or restart_ice may leave     *)
(* Closed, so the graph has those edges.  Only gather() enters InProgress, *)
(* and only from New.                                                      *)

IceEdge == {e \in (State \ {"Disconnected"}) \X (State \ {"Disconnected"}) : e[1] # e[2]}

GatheringEdge == {e \in GatheringState \X GatheringState :
                    e[1] # e[2] /\ (e[2] = "InProgress" => e[1] = "New")}

S == INSTANCE Lifecycle
       WITH Actor <- Thread, Status <- State, Initial <- "New", Edge <- IceEdge,
            Nothing <- "none", status <- state, owes <- owesState

G == INSTANCE Lifecycle
       WITH Actor <- Thread, Status <- GatheringState, Initial <- "New", Edge <- GatheringEdge,
            Nothing <- "none", status <- gathering_state, owes <- owesGathering,
            heard <- gatheringHeard

(* Each change of the ICE state, and each change of the gathering state,   *)
(* is announced exactly once by the thread that made it.                   *)
AnnouncesEveryState == S!Spec
AnnouncesEveryGathering == G!Spec

-----------------------------------------------------------------------------
(* What the comments claim and the interleavings refute.                   *)

Quiet == \A t \in Thread : pc[t] = "idle"

(* "Once we're closed, our state mutex is pinned at Closed": an agent      *)
(* event, or restart_ice, that passed its closed check before close() ran  *)
(* overwrites Closed afterwards, and nothing ever corrects it.             *)
ClosedIsPinned == closed /\ Quiet => state = "Closed"
=============================================================================

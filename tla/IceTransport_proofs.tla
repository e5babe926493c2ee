------------------------- MODULE IceTransport_proofs -------------------------
(***************************************************************************)
(* What holds of IceTransport for every set of threads, callback sets and  *)
(* remote descriptions, whoever may call what, and however the agent's     *)
(* state may move.                                                         *)
(***************************************************************************)
EXTENDS IceTransport, TLAPS

\* Past the closed check of set_remote_description.
RemotePast == {"remote:resolve role", "remote:record mid", "remote:command"}

\* What t has put into arg is what it takes out of it.
ArgsFit ==
  /\ \A t \in Thread : /\ pc[t] \in RemotePast => arg[t] \in RemoteDescription
                       /\ pc[t] = "trickle:command" => arg[t] \in {"candidate", "end"}
  /\ pc[driver] = "juice:set state" => arg[driver] \in State \ {"Disconnected", "Closed"}
  /\ state # "Disconnected"

\* An announcement is owed exactly while t is on its way to make it.
Debts ==
  \A t \in Thread :
     /\ pc[t] \in {"notify", "call"} => owesState[t] # "none" \/ owesGathering[t] # "none"
     /\ pc[t] \notin {"notify", "call"} => owesState[t] = "none"
     /\ pc[t] \notin {"notify", "call", "restart:reset state"} => owesGathering[t] = "none"
     /\ pc[t] = "restart:reset state" \/ owesState[t] # "none"
          => owesGathering[t] \in {"none", "New"}

\* One thread wins the swap on closed, and it alone may announce Closed.
Closing(t) == pc[t] = "close:set state" \/ owesState[t] = "Closed"

SoleCloser ==
  /\ closedCalls \in {0, 1}
  /\ ~closed => closedCalls = 0
  /\ \A t \in Thread : Closing(t) => closed /\ closedCalls = 0
  /\ \A t, u \in Thread : Closing(t) /\ Closing(u) => t = u

\* Whoever has passed the role mutex leaves a resolved role behind.
RoleKnown ==
  /\ RoleBeforeChecks
  /\ \A t \in Thread : pc[t] \in {"remote:record mid", "remote:command"} => role # "ActPass"

\* InProgress has been announced before the agent is commanded, hence
\* before anything the agent does about it.
GatherAnnounced ==
  \/ "InProgress" \in gatheringHeard
  \/ /\ "gather" \notin agent.got
     /\ "Complete" \notin gatheringHeard
     /\ pc[driver] \notin {"done:complete", "candidate:read mid", "candidate:clone", "candidate:call"}
     /\ \A t \in Thread : pc[t] # "gather:command" /\ owesGathering[t] # "Complete"

IInv == TypeOK /\ ArgsFit /\ Debts /\ SoleCloser /\ RoleKnown /\ GatherAnnounced

-----------------------------------------------------------------------------
LEMMA InitInvariant == Init => IInv
<1> SUFFICES ASSUME Init PROVE IInv
  OBVIOUS
<1>1. TypeOK
  BY IceAssumption DEF Init, TypeOK, ArgValue, Label, State, GatheringState, Role, JuiceState, Mid
<1>2. ArgsFit /\ Debts /\ SoleCloser /\ RoleKnown /\ GatherAnnounced
  BY DEF Init, Thread, ArgsFit, RemotePast, Debts, SoleCloser, Closing, RoleKnown, RoleBeforeChecks, GatherAnnounced
<1> QED BY <1>1, <1>2 DEF IInv

\* The agent never brings the transport to Disconnected or to Closed.
LEMMA MapStateRange ==
  ASSUME NEW s \in JuiceState PROVE map_state(s) \in State \ {"Disconnected", "Closed"}
  BY DEF JuiceState, State, map_state

\* A step that makes nobody a closer leaves the closers as they are.
LEMMA CloserKept ==
  ASSUME SoleCloser, UNCHANGED <<closed, closedCalls>>,
         \A u \in Thread : Closing(u)' => Closing(u)
  PROVE  SoleCloser'
  BY DEF SoleCloser

LEMMA StepInvariant == IInv /\ [Next]_vars => IInv'
<1> SUFFICES ASSUME IInv, [Next]_vars PROVE IInv'
  OBVIOUS
<1> USE DEF IInv
<1>1. ASSUME NEW t \in Thread, NotifyClone(t) PROVE IInv'
  <2>1. TypeOK'
    <3>1. pc' \in [Thread -> Label]
      BY <1>1 DEF cells, debts, history, NotifyClone, Goto, TypeOK, Label
    <3>2. arg' \in [Thread -> ArgValue]
      BY <1>1 DEF cells, debts, history, NotifyClone, Goto, TypeOK
    <3>3. /\ closed' \in BOOLEAN
          /\ state' \in State
          /\ gathering_state' \in GatheringState
          /\ role' \in Role
          /\ mid' \in Mid
          /\ callbacks' \in Listener
          /\ clone' \in [Thread -> Listener]
      BY <1>1, IceAssumption DEF cells, debts, history, NotifyClone, Goto, TypeOK
    <3>4. agent' \in [alive : BOOLEAN, state : JuiceState, done : BOOLEAN,
                       got : SUBSET {"gather", "description", "candidate", "end"}]
      BY <1>1, IceAssumption DEF cells, debts, history, NotifyClone, Goto, TypeOK
    <3>5. /\ owesState' \in [Thread -> State \cup {"none"}]
          /\ owesGathering' \in [Thread -> GatheringState \cup {"none"}]
          /\ heard' \subseteq State /\ gatheringHeard' \subseteq GatheringState /\ closedCalls' \in Nat
      BY <1>1 DEF cells, debts, history, NotifyClone, Goto, TypeOK
    <3> QED BY <3>1, <3>2, <3>3, <3>4, <3>5 DEF TypeOK
  <2>2. ArgsFit'
    BY <1>1, IceAssumption DEF cells, debts, history, NotifyClone, Goto, Thread, ArgsFit, RemotePast, Debts, TypeOK
  <2>3. Debts'
    BY <1>1, IceAssumption DEF cells, debts, history, NotifyClone, Goto, Debts, TypeOK
  <2>4. SoleCloser'
    <3>1. UNCHANGED <<closed, closedCalls>>
      BY <1>1 DEF NotifyClone, cells, history
    <3>2. \A u \in Thread : Closing(u)' => Closing(u)
      BY <1>1 DEF NotifyClone, Goto, debts, Closing, TypeOK
    <3> QED BY <3>1, <3>2, CloserKept
  <2>5. RoleKnown'
    BY <1>1, IceAssumption DEF cells, debts, history, NotifyClone, Goto, RoleKnown, RoleBeforeChecks, TypeOK
  <2>6. GatherAnnounced'
    BY <1>1, IceAssumption DEF cells, debts, history, NotifyClone, Goto, Thread, GatherAnnounced, Debts, TypeOK
  <2> QED BY <2>1, <2>2, <2>3, <2>4, <2>5, <2>6
<1>2. ASSUME NEW t \in Thread, NotifyGathering(t) PROVE IInv'
  <2>1. TypeOK'
    <3>1. pc' \in [Thread -> Label]
      BY <1>2 DEF cells, debts, history, NotifyGathering, Goto, TypeOK, Label
    <3>2. arg' \in [Thread -> ArgValue]
      BY <1>2 DEF cells, debts, history, NotifyGathering, Goto, TypeOK
    <3>3. /\ closed' \in BOOLEAN
          /\ state' \in State
          /\ gathering_state' \in GatheringState
          /\ role' \in Role
          /\ mid' \in Mid
          /\ callbacks' \in Listener
          /\ clone' \in [Thread -> Listener]
      BY <1>2, IceAssumption DEF cells, debts, history, NotifyGathering, Goto, TypeOK
    <3>4. agent' \in [alive : BOOLEAN, state : JuiceState, done : BOOLEAN,
                       got : SUBSET {"gather", "description", "candidate", "end"}]
      BY <1>2, IceAssumption DEF cells, debts, history, NotifyGathering, Goto, TypeOK
    <3>5. /\ owesState' \in [Thread -> State \cup {"none"}]
          /\ owesGathering' \in [Thread -> GatheringState \cup {"none"}]
          /\ heard' \subseteq State /\ gatheringHeard' \subseteq GatheringState /\ closedCalls' \in Nat
      BY <1>2 DEF cells, debts, history, NotifyGathering, Goto, TypeOK, Debts
    <3> QED BY <3>1, <3>2, <3>3, <3>4, <3>5 DEF TypeOK
  <2>2. ArgsFit'
    BY <1>2, IceAssumption DEF cells, debts, history, NotifyGathering, Goto, Thread, ArgsFit, RemotePast, Debts, TypeOK
  <2>3. Debts'
    BY <1>2, IceAssumption DEF cells, debts, history, NotifyGathering, Goto, Debts, TypeOK
  <2>4. SoleCloser'
    <3>1. UNCHANGED <<closed, closedCalls>>
      BY <1>2 DEF NotifyGathering, cells, history
    <3>2. \A u \in Thread : Closing(u)' => Closing(u)
      BY <1>2 DEF NotifyGathering, Goto, debts, Closing, TypeOK
    <3> QED BY <3>1, <3>2, CloserKept
  <2>5. RoleKnown'
    BY <1>2, IceAssumption DEF cells, debts, history, NotifyGathering, Goto, RoleKnown, RoleBeforeChecks, TypeOK
  <2>6. GatherAnnounced'
    BY <1>2, IceAssumption DEF cells, debts, history, NotifyGathering, Goto, Thread, GatherAnnounced, Debts, TypeOK
  <2> QED BY <2>1, <2>2, <2>3, <2>4, <2>5, <2>6
<1>3. ASSUME NEW t \in Thread, NotifyState(t) PROVE IInv'
  <2>1. TypeOK'
    <3>1. pc' \in [Thread -> Label]
      BY <1>3 DEF cells, debts, history, NotifyState, Goto, TypeOK, Label
    <3>2. arg' \in [Thread -> ArgValue]
      BY <1>3 DEF cells, debts, history, NotifyState, Goto, TypeOK
    <3>3. /\ closed' \in BOOLEAN
          /\ state' \in State
          /\ gathering_state' \in GatheringState
          /\ role' \in Role
          /\ mid' \in Mid
          /\ callbacks' \in Listener
          /\ clone' \in [Thread -> Listener]
      BY <1>3, IceAssumption DEF cells, debts, history, NotifyState, Goto, TypeOK
    <3>4. agent' \in [alive : BOOLEAN, state : JuiceState, done : BOOLEAN,
                       got : SUBSET {"gather", "description", "candidate", "end"}]
      BY <1>3, IceAssumption DEF cells, debts, history, NotifyState, Goto, TypeOK
    <3>5. /\ owesState' \in [Thread -> State \cup {"none"}]
          /\ owesGathering' \in [Thread -> GatheringState \cup {"none"}]
          /\ heard' \subseteq State /\ gatheringHeard' \subseteq GatheringState /\ closedCalls' \in Nat
      <4>1. owesState[t] \in State
        BY <1>3 DEF NotifyState, Goto, Debts, TypeOK
      <4>2. heard' \subseteq State
        BY <1>3, <4>1 DEF NotifyState, TypeOK
      <4>3. closedCalls' \in Nat
        BY <1>3 DEF NotifyState, TypeOK
      <4>4. owesState' \in [Thread -> State \cup {"none"}]
        BY <1>3 DEF NotifyState, TypeOK
      <4> QED BY <1>3, <4>2, <4>3, <4>4 DEF NotifyState, TypeOK
    <3> QED BY <3>1, <3>2, <3>3, <3>4, <3>5 DEF TypeOK
  <2>2. ArgsFit'
    BY <1>3, IceAssumption DEF cells, debts, history, NotifyState, Goto, Thread, ArgsFit, RemotePast, Debts, TypeOK
  <2>3. Debts'
    BY <1>3, IceAssumption DEF cells, debts, history, NotifyState, Goto, Debts, TypeOK
  <2>4. SoleCloser'
    <3>1. \A u \in Thread : Closing(u)' => Closing(u) /\ u # t
      BY <1>3 DEF NotifyState, Goto, Closing, TypeOK
    <3>2. CASE owesState[t] = "Closed"
      <4>1. closed /\ closedCalls = 0 /\ \A u \in Thread : Closing(u) => u = t
        BY <1>3, <3>2 DEF SoleCloser, Closing
      <4> QED BY <1>3, <3>1, <3>2, <4>1 DEF cells, NotifyState, SoleCloser
    <3>3. CASE owesState[t] # "Closed"
      BY <1>3, <3>1, <3>3 DEF cells, NotifyState, SoleCloser
    <3> QED BY <3>2, <3>3
  <2>5. RoleKnown'
    BY <1>3, IceAssumption DEF cells, debts, history, NotifyState, Goto, RoleKnown, RoleBeforeChecks, TypeOK
  <2>6. GatherAnnounced'
    BY <1>3, IceAssumption DEF cells, debts, history, NotifyState, Goto, Thread, GatherAnnounced, Debts, TypeOK
  <2> QED BY <2>1, <2>2, <2>3, <2>4, <2>5, <2>6
<1>4. ASSUME NEW t \in Thread, GatherAdvance(t) PROVE IInv'
  <2>1. TypeOK'
    <3>1. pc' \in [Thread -> Label]
      BY <1>4 DEF cells, debts, history, GatherAdvance, Goto, SetGathering, TypeOK, Label
    <3>2. arg' \in [Thread -> ArgValue]
      BY <1>4 DEF cells, debts, history, GatherAdvance, Goto, SetGathering, TypeOK
    <3>3. /\ closed' \in BOOLEAN
          /\ state' \in State
          /\ gathering_state' \in GatheringState
          /\ role' \in Role
          /\ mid' \in Mid
          /\ callbacks' \in Listener
          /\ clone' \in [Thread -> Listener]
      BY <1>4, IceAssumption DEF cells, debts, history, GatherAdvance, Goto, SetGathering, TypeOK, GatheringState
    <3>4. agent' \in [alive : BOOLEAN, state : JuiceState, done : BOOLEAN,
                       got : SUBSET {"gather", "description", "candidate", "end"}]
      BY <1>4, IceAssumption DEF cells, debts, history, GatherAdvance, Goto, SetGathering, TypeOK
    <3>5. /\ owesState' \in [Thread -> State \cup {"none"}]
          /\ owesGathering' \in [Thread -> GatheringState \cup {"none"}]
          /\ heard' \subseteq State /\ gatheringHeard' \subseteq GatheringState /\ closedCalls' \in Nat
      BY <1>4 DEF cells, debts, history, GatherAdvance, Goto, SetGathering, TypeOK, GatheringState
    <3> QED BY <3>1, <3>2, <3>3, <3>4, <3>5 DEF TypeOK
  <2>2. ArgsFit'
    BY <1>4, IceAssumption DEF cells, debts, history, GatherAdvance, Goto, SetGathering, Thread, ArgsFit, RemotePast, Debts, TypeOK
  <2>3. Debts'
    BY <1>4, IceAssumption DEF cells, debts, history, GatherAdvance, Goto, SetGathering, Debts, TypeOK
  <2>4. SoleCloser'
    <3>1. UNCHANGED <<closed, closedCalls>>
      BY <1>4 DEF GatherAdvance, SetGathering, cells, history
    <3>2. \A u \in Thread : Closing(u)' => Closing(u)
      BY <1>4 DEF GatherAdvance, SetGathering, Goto, debts, Closing, TypeOK
    <3> QED BY <3>1, <3>2, CloserKept
  <2>5. RoleKnown'
    BY <1>4, IceAssumption DEF cells, debts, history, GatherAdvance, Goto, SetGathering, RoleKnown, RoleBeforeChecks, TypeOK
  <2>6. GatherAnnounced'
    BY <1>4, IceAssumption DEF cells, debts, history, GatherAdvance, Goto, SetGathering, Thread, GatherAnnounced, Debts, TypeOK
  <2> QED BY <2>1, <2>2, <2>3, <2>4, <2>5, <2>6
<1>5. ASSUME NEW t \in Thread, GatherCommand(t) PROVE IInv'
  <2>1. TypeOK'
    <3>1. pc' \in [Thread -> Label]
      BY <1>5 DEF cells, debts, history, GatherCommand, Goto, TypeOK, Label
    <3>2. arg' \in [Thread -> ArgValue]
      BY <1>5 DEF cells, debts, history, GatherCommand, Goto, TypeOK
    <3>3. /\ closed' \in BOOLEAN
          /\ state' \in State
          /\ gathering_state' \in GatheringState
          /\ role' \in Role
          /\ mid' \in Mid
          /\ callbacks' \in Listener
          /\ clone' \in [Thread -> Listener]
      BY <1>5, IceAssumption DEF cells, debts, history, GatherCommand, Goto, TypeOK
    <3>4. agent' \in [alive : BOOLEAN, state : JuiceState, done : BOOLEAN,
                       got : SUBSET {"gather", "description", "candidate", "end"}]
      BY <1>5, IceAssumption DEF cells, debts, history, GatherCommand, Goto, TypeOK
    <3>5. /\ owesState' \in [Thread -> State \cup {"none"}]
          /\ owesGathering' \in [Thread -> GatheringState \cup {"none"}]
          /\ heard' \subseteq State /\ gatheringHeard' \subseteq GatheringState /\ closedCalls' \in Nat
      BY <1>5 DEF cells, debts, history, GatherCommand, Goto, TypeOK
    <3> QED BY <3>1, <3>2, <3>3, <3>4, <3>5 DEF TypeOK
  <2>2. ArgsFit'
    BY <1>5, IceAssumption DEF cells, debts, history, GatherCommand, Goto, Thread, ArgsFit, RemotePast, Debts, TypeOK
  <2>3. Debts'
    BY <1>5, IceAssumption DEF cells, debts, history, GatherCommand, Goto, Debts, TypeOK
  <2>4. SoleCloser'
    <3>1. UNCHANGED <<closed, closedCalls>>
      BY <1>5 DEF GatherCommand, cells, history
    <3>2. \A u \in Thread : Closing(u)' => Closing(u)
      BY <1>5 DEF GatherCommand, Goto, debts, Closing, TypeOK
    <3> QED BY <3>1, <3>2, CloserKept
  <2>5. RoleKnown'
    BY <1>5, IceAssumption DEF cells, debts, history, GatherCommand, Goto, RoleKnown, RoleBeforeChecks, TypeOK
  <2>6. GatherAnnounced'
    BY <1>5, IceAssumption DEF cells, debts, history, GatherCommand, Goto, Thread, GatherAnnounced, Debts, TypeOK
  <2> QED BY <2>1, <2>2, <2>3, <2>4, <2>5, <2>6
<1>6. ASSUME NEW t \in Thread, RemoteResolveRole(t) PROVE IInv'
  <2>1. TypeOK'
    <3>1. pc' \in [Thread -> Label]
      BY <1>6 DEF cells, debts, history, RemoteResolveRole, Goto, ResolvedRole, TypeOK, Label
    <3>2. arg' \in [Thread -> ArgValue]
      BY <1>6 DEF cells, debts, history, RemoteResolveRole, Goto, ResolvedRole, TypeOK
    <3>3. /\ closed' \in BOOLEAN
          /\ state' \in State
          /\ gathering_state' \in GatheringState
          /\ role' \in Role
          /\ mid' \in Mid
          /\ callbacks' \in Listener
          /\ clone' \in [Thread -> Listener]
      BY <1>6, IceAssumption DEF cells, debts, history, RemoteResolveRole, Goto, ResolvedRole, TypeOK, Role
    <3>4. agent' \in [alive : BOOLEAN, state : JuiceState, done : BOOLEAN,
                       got : SUBSET {"gather", "description", "candidate", "end"}]
      BY <1>6, IceAssumption DEF cells, debts, history, RemoteResolveRole, Goto, ResolvedRole, TypeOK
    <3>5. /\ owesState' \in [Thread -> State \cup {"none"}]
          /\ owesGathering' \in [Thread -> GatheringState \cup {"none"}]
          /\ heard' \subseteq State /\ gatheringHeard' \subseteq GatheringState /\ closedCalls' \in Nat
      BY <1>6 DEF cells, debts, history, RemoteResolveRole, Goto, ResolvedRole, TypeOK
    <3> QED BY <3>1, <3>2, <3>3, <3>4, <3>5 DEF TypeOK
  <2>2. ArgsFit'
    BY <1>6, IceAssumption DEF cells, debts, history, RemoteResolveRole, Goto, ResolvedRole, Thread, ArgsFit, RemotePast, Debts, TypeOK
  <2>3. Debts'
    BY <1>6, IceAssumption DEF cells, debts, history, RemoteResolveRole, Goto, ResolvedRole, Debts, TypeOK
  <2>4. SoleCloser'
    <3>1. UNCHANGED <<closed, closedCalls>>
      BY <1>6 DEF RemoteResolveRole, cells, history
    <3>2. \A u \in Thread : Closing(u)' => Closing(u)
      BY <1>6 DEF RemoteResolveRole, Goto, debts, Closing, TypeOK
    <3> QED BY <3>1, <3>2, CloserKept
  <2>5. RoleKnown'
    BY <1>6, IceAssumption DEF cells, debts, history, RemoteResolveRole, Goto, ResolvedRole, RoleKnown, RoleBeforeChecks, TypeOK
  <2>6. GatherAnnounced'
    BY <1>6, IceAssumption DEF cells, debts, history, RemoteResolveRole, Goto, ResolvedRole, Thread, GatherAnnounced, Debts, TypeOK
  <2> QED BY <2>1, <2>2, <2>3, <2>4, <2>5, <2>6
<1>7. ASSUME NEW t \in Thread, RemoteRecordMid(t) PROVE IInv'
  <2>1. TypeOK'
    <3>1. pc' \in [Thread -> Label]
      BY <1>7 DEF cells, debts, history, RemoteRecordMid, Goto, TypeOK, Label
    <3>2. arg' \in [Thread -> ArgValue]
      BY <1>7 DEF cells, debts, history, RemoteRecordMid, Goto, TypeOK
    <3>3. /\ closed' \in BOOLEAN
          /\ state' \in State
          /\ gathering_state' \in GatheringState
          /\ role' \in Role
          /\ mid' \in Mid
          /\ callbacks' \in Listener
          /\ clone' \in [Thread -> Listener]
      BY <1>7, IceAssumption DEF cells, debts, history, RemoteRecordMid, Goto, TypeOK, Mid, ArgsFit, RemotePast
    <3>4. agent' \in [alive : BOOLEAN, state : JuiceState, done : BOOLEAN,
                       got : SUBSET {"gather", "description", "candidate", "end"}]
      BY <1>7, IceAssumption DEF cells, debts, history, RemoteRecordMid, Goto, TypeOK
    <3>5. /\ owesState' \in [Thread -> State \cup {"none"}]
          /\ owesGathering' \in [Thread -> GatheringState \cup {"none"}]
          /\ heard' \subseteq State /\ gatheringHeard' \subseteq GatheringState /\ closedCalls' \in Nat
      BY <1>7 DEF cells, debts, history, RemoteRecordMid, Goto, TypeOK
    <3> QED BY <3>1, <3>2, <3>3, <3>4, <3>5 DEF TypeOK
  <2>2. ArgsFit'
    BY <1>7, IceAssumption DEF cells, debts, history, RemoteRecordMid, Goto, Thread, ArgsFit, RemotePast, Debts, TypeOK
  <2>3. Debts'
    BY <1>7, IceAssumption DEF cells, debts, history, RemoteRecordMid, Goto, Debts, TypeOK
  <2>4. SoleCloser'
    <3>1. UNCHANGED <<closed, closedCalls>>
      BY <1>7 DEF RemoteRecordMid, cells, history
    <3>2. \A u \in Thread : Closing(u)' => Closing(u)
      BY <1>7 DEF RemoteRecordMid, Goto, debts, Closing, TypeOK
    <3> QED BY <3>1, <3>2, CloserKept
  <2>5. RoleKnown'
    BY <1>7, IceAssumption DEF cells, debts, history, RemoteRecordMid, Goto, RoleKnown, RoleBeforeChecks, TypeOK
  <2>6. GatherAnnounced'
    BY <1>7, IceAssumption DEF cells, debts, history, RemoteRecordMid, Goto, Thread, GatherAnnounced, Debts, TypeOK
  <2> QED BY <2>1, <2>2, <2>3, <2>4, <2>5, <2>6
<1>8. ASSUME NEW t \in Thread, RemoteCommand(t) PROVE IInv'
  <2>1. TypeOK'
    <3>1. pc' \in [Thread -> Label]
      BY <1>8 DEF cells, debts, history, RemoteCommand, Goto, TypeOK, Label
    <3>2. arg' \in [Thread -> ArgValue]
      BY <1>8 DEF cells, debts, history, RemoteCommand, Goto, TypeOK, ArgsFit, RemotePast, ArgValue, Mid
    <3>3. /\ closed' \in BOOLEAN
          /\ state' \in State
          /\ gathering_state' \in GatheringState
          /\ role' \in Role
          /\ mid' \in Mid
          /\ callbacks' \in Listener
          /\ clone' \in [Thread -> Listener]
      BY <1>8, IceAssumption DEF cells, debts, history, RemoteCommand, Goto, TypeOK
    <3>4. agent' \in [alive : BOOLEAN, state : JuiceState, done : BOOLEAN,
                       got : SUBSET {"gather", "description", "candidate", "end"}]
      BY <1>8, IceAssumption DEF cells, debts, history, RemoteCommand, Goto, TypeOK
    <3>5. /\ owesState' \in [Thread -> State \cup {"none"}]
          /\ owesGathering' \in [Thread -> GatheringState \cup {"none"}]
          /\ heard' \subseteq State /\ gatheringHeard' \subseteq GatheringState /\ closedCalls' \in Nat
      BY <1>8 DEF cells, debts, history, RemoteCommand, Goto, TypeOK
    <3> QED BY <3>1, <3>2, <3>3, <3>4, <3>5 DEF TypeOK
  <2>2. ArgsFit'
    BY <1>8, IceAssumption DEF cells, debts, history, RemoteCommand, Goto, Thread, ArgsFit, RemotePast, Debts, TypeOK
  <2>3. Debts'
    BY <1>8, IceAssumption DEF cells, debts, history, RemoteCommand, Goto, Debts, TypeOK
  <2>4. SoleCloser'
    <3>1. UNCHANGED <<closed, closedCalls>>
      BY <1>8 DEF RemoteCommand, cells, history
    <3>2. \A u \in Thread : Closing(u)' => Closing(u)
      BY <1>8 DEF RemoteCommand, Goto, debts, Closing, TypeOK
    <3> QED BY <3>1, <3>2, CloserKept
  <2>5. RoleKnown'
    BY <1>8, IceAssumption DEF cells, debts, history, RemoteCommand, Goto, RoleKnown, RoleBeforeChecks, TypeOK
  <2>6. GatherAnnounced'
    BY <1>8, IceAssumption DEF cells, debts, history, RemoteCommand, Goto, Thread, GatherAnnounced, Debts, TypeOK
  <2> QED BY <2>1, <2>2, <2>3, <2>4, <2>5, <2>6
<1>9. ASSUME NEW t \in Thread, TrickleCommand(t) PROVE IInv'
  <2>1. TypeOK'
    <3>1. pc' \in [Thread -> Label]
      BY <1>9 DEF cells, debts, history, TrickleCommand, Goto, TypeOK, Label
    <3>2. arg' \in [Thread -> ArgValue]
      BY <1>9 DEF cells, debts, history, TrickleCommand, Goto, TypeOK, ArgsFit, RemotePast, ArgValue, Mid
    <3>3. /\ closed' \in BOOLEAN
          /\ state' \in State
          /\ gathering_state' \in GatheringState
          /\ role' \in Role
          /\ mid' \in Mid
          /\ callbacks' \in Listener
          /\ clone' \in [Thread -> Listener]
      BY <1>9, IceAssumption DEF cells, debts, history, TrickleCommand, Goto, TypeOK
    <3>4. agent' \in [alive : BOOLEAN, state : JuiceState, done : BOOLEAN,
                       got : SUBSET {"gather", "description", "candidate", "end"}]
      BY <1>9, IceAssumption DEF cells, debts, history, TrickleCommand, Goto, TypeOK, ArgsFit
    <3>5. /\ owesState' \in [Thread -> State \cup {"none"}]
          /\ owesGathering' \in [Thread -> GatheringState \cup {"none"}]
          /\ heard' \subseteq State /\ gatheringHeard' \subseteq GatheringState /\ closedCalls' \in Nat
      BY <1>9 DEF cells, debts, history, TrickleCommand, Goto, TypeOK
    <3> QED BY <3>1, <3>2, <3>3, <3>4, <3>5 DEF TypeOK
  <2>2. ArgsFit'
    BY <1>9, IceAssumption DEF cells, debts, history, TrickleCommand, Goto, Thread, ArgsFit, RemotePast, Debts, TypeOK
  <2>3. Debts'
    BY <1>9, IceAssumption DEF cells, debts, history, TrickleCommand, Goto, Debts, TypeOK
  <2>4. SoleCloser'
    <3>1. UNCHANGED <<closed, closedCalls>>
      BY <1>9 DEF TrickleCommand, cells, history
    <3>2. \A u \in Thread : Closing(u)' => Closing(u)
      BY <1>9 DEF TrickleCommand, Goto, debts, Closing, TypeOK
    <3> QED BY <3>1, <3>2, CloserKept
  <2>5. RoleKnown'
    BY <1>9, IceAssumption DEF cells, debts, history, TrickleCommand, Goto, RoleKnown, RoleBeforeChecks, TypeOK, ArgsFit
  <2>6. GatherAnnounced'
    BY <1>9, IceAssumption DEF cells, debts, history, TrickleCommand, Goto, Thread, GatherAnnounced, Debts, TypeOK, ArgsFit
  <2> QED BY <2>1, <2>2, <2>3, <2>4, <2>5, <2>6
<1>10. ASSUME NEW t \in Thread, RestartResetGathering(t) PROVE IInv'
  <2>1. TypeOK'
    <3>1. pc' \in [Thread -> Label]
      BY <1>10 DEF cells, debts, history, RestartResetGathering, Goto, SetGathering, TypeOK, Label
    <3>2. arg' \in [Thread -> ArgValue]
      BY <1>10 DEF cells, debts, history, RestartResetGathering, Goto, SetGathering, TypeOK
    <3>3. /\ closed' \in BOOLEAN
          /\ state' \in State
          /\ gathering_state' \in GatheringState
          /\ role' \in Role
          /\ mid' \in Mid
          /\ callbacks' \in Listener
          /\ clone' \in [Thread -> Listener]
      BY <1>10, IceAssumption DEF cells, debts, history, RestartResetGathering, Goto, SetGathering, TypeOK, GatheringState
    <3>4. agent' \in [alive : BOOLEAN, state : JuiceState, done : BOOLEAN,
                       got : SUBSET {"gather", "description", "candidate", "end"}]
      BY <1>10, IceAssumption DEF cells, debts, history, RestartResetGathering, Goto, SetGathering, TypeOK
    <3>5. /\ owesState' \in [Thread -> State \cup {"none"}]
          /\ owesGathering' \in [Thread -> GatheringState \cup {"none"}]
          /\ heard' \subseteq State /\ gatheringHeard' \subseteq GatheringState /\ closedCalls' \in Nat
      BY <1>10 DEF cells, debts, history, RestartResetGathering, Goto, SetGathering, TypeOK, GatheringState
    <3> QED BY <3>1, <3>2, <3>3, <3>4, <3>5 DEF TypeOK
  <2>2. ArgsFit'
    BY <1>10, IceAssumption DEF cells, debts, history, RestartResetGathering, Goto, SetGathering, Thread, ArgsFit, RemotePast, Debts, TypeOK
  <2>3. Debts'
    BY <1>10, IceAssumption DEF cells, debts, history, RestartResetGathering, Goto, SetGathering, Debts, TypeOK
  <2>4. SoleCloser'
    <3>1. UNCHANGED <<closed, closedCalls>>
      BY <1>10 DEF RestartResetGathering, SetGathering, cells, history
    <3>2. \A u \in Thread : Closing(u)' => Closing(u)
      BY <1>10 DEF RestartResetGathering, SetGathering, Goto, debts, Closing, TypeOK
    <3> QED BY <3>1, <3>2, CloserKept
  <2>5. RoleKnown'
    BY <1>10, IceAssumption DEF cells, debts, history, RestartResetGathering, Goto, SetGathering, RoleKnown, RoleBeforeChecks, TypeOK
  <2>6. GatherAnnounced'
    BY <1>10, IceAssumption DEF cells, debts, history, RestartResetGathering, Goto, SetGathering, Thread, GatherAnnounced, Debts, TypeOK
  <2> QED BY <2>1, <2>2, <2>3, <2>4, <2>5, <2>6
<1>11. ASSUME NEW t \in Thread, RestartResetState(t) PROVE IInv'
  <2>1. TypeOK'
    <3>1. pc' \in [Thread -> Label]
      BY <1>11 DEF cells, debts, history, RestartResetState, Goto, SetState, TypeOK, Label
    <3>2. arg' \in [Thread -> ArgValue]
      BY <1>11 DEF cells, debts, history, RestartResetState, Goto, SetState, TypeOK
    <3>3. /\ closed' \in BOOLEAN
          /\ state' \in State
          /\ gathering_state' \in GatheringState
          /\ role' \in Role
          /\ mid' \in Mid
          /\ callbacks' \in Listener
          /\ clone' \in [Thread -> Listener]
      BY <1>11, IceAssumption DEF cells, debts, history, RestartResetState, Goto, SetState, TypeOK, State, ArgsFit
    <3>4. agent' \in [alive : BOOLEAN, state : JuiceState, done : BOOLEAN,
                       got : SUBSET {"gather", "description", "candidate", "end"}]
      BY <1>11, IceAssumption DEF cells, debts, history, RestartResetState, Goto, SetState, TypeOK
    <3>5. /\ owesState' \in [Thread -> State \cup {"none"}]
          /\ owesGathering' \in [Thread -> GatheringState \cup {"none"}]
          /\ heard' \subseteq State /\ gatheringHeard' \subseteq GatheringState /\ closedCalls' \in Nat
      BY <1>11 DEF cells, debts, history, RestartResetState, Goto, SetState, TypeOK, State, ArgsFit
    <3> QED BY <3>1, <3>2, <3>3, <3>4, <3>5 DEF TypeOK
  <2>2. ArgsFit'
    BY <1>11, IceAssumption DEF cells, debts, history, RestartResetState, Goto, SetState, Thread, ArgsFit, RemotePast, Debts, TypeOK, State
  <2>3. Debts'
    BY <1>11, IceAssumption DEF cells, debts, history, RestartResetState, Goto, SetState, Debts, TypeOK, State, ArgsFit
  <2>4. SoleCloser'
    <3>1. UNCHANGED <<closed, closedCalls>>
      BY <1>11 DEF RestartResetState, SetState, cells, history
    <3>2. \A u \in Thread : Closing(u)' => Closing(u)
      BY <1>11 DEF RestartResetState, SetState, Goto, debts, Closing, TypeOK
    <3> QED BY <3>1, <3>2, CloserKept
  <2>5. RoleKnown'
    BY <1>11, IceAssumption DEF cells, debts, history, RestartResetState, Goto, SetState, RoleKnown, RoleBeforeChecks, TypeOK
  <2>6. GatherAnnounced'
    BY <1>11, IceAssumption DEF cells, debts, history, RestartResetState, Goto, SetState, Thread, GatherAnnounced, Debts, TypeOK
  <2> QED BY <2>1, <2>2, <2>3, <2>4, <2>5, <2>6
<1>12. ASSUME NEW t \in Thread, CloseSetState(t) PROVE IInv'
  <2>1. TypeOK'
    <3>1. pc' \in [Thread -> Label]
      BY <1>12 DEF cells, debts, history, CloseSetState, Goto, SetState, TypeOK, Label
    <3>2. arg' \in [Thread -> ArgValue]
      BY <1>12 DEF cells, debts, history, CloseSetState, Goto, SetState, TypeOK
    <3>3. /\ closed' \in BOOLEAN
          /\ state' \in State
          /\ gathering_state' \in GatheringState
          /\ role' \in Role
          /\ mid' \in Mid
          /\ callbacks' \in Listener
          /\ clone' \in [Thread -> Listener]
      BY <1>12, IceAssumption DEF cells, debts, history, CloseSetState, Goto, SetState, TypeOK, State, ArgsFit
    <3>4. agent' \in [alive : BOOLEAN, state : JuiceState, done : BOOLEAN,
                       got : SUBSET {"gather", "description", "candidate", "end"}]
      BY <1>12, IceAssumption DEF cells, debts, history, CloseSetState, Goto, SetState, TypeOK
    <3>5. /\ owesState' \in [Thread -> State \cup {"none"}]
          /\ owesGathering' \in [Thread -> GatheringState \cup {"none"}]
          /\ heard' \subseteq State /\ gatheringHeard' \subseteq GatheringState /\ closedCalls' \in Nat
      BY <1>12 DEF cells, debts, history, CloseSetState, Goto, SetState, TypeOK, State, ArgsFit
    <3> QED BY <3>1, <3>2, <3>3, <3>4, <3>5 DEF TypeOK
  <2>2. ArgsFit'
    BY <1>12, IceAssumption DEF cells, debts, history, CloseSetState, Goto, SetState, Thread, ArgsFit, RemotePast, Debts, TypeOK, State
  <2>3. Debts'
    BY <1>12, IceAssumption DEF cells, debts, history, CloseSetState, Goto, SetState, Debts, TypeOK, State, ArgsFit
  <2>4. SoleCloser'
    <3>1. UNCHANGED <<closed, closedCalls>>
      BY <1>12 DEF CloseSetState, SetState, cells, history
    <3>2. \A u \in Thread : Closing(u)' => Closing(u)
      BY <1>12 DEF CloseSetState, SetState, Goto, debts, Closing, TypeOK
    <3> QED BY <3>1, <3>2, CloserKept
  <2>5. RoleKnown'
    BY <1>12, IceAssumption DEF cells, debts, history, CloseSetState, Goto, SetState, RoleKnown, RoleBeforeChecks, TypeOK
  <2>6. GatherAnnounced'
    BY <1>12, IceAssumption DEF cells, debts, history, CloseSetState, Goto, SetState, Thread, GatherAnnounced, Debts, TypeOK
  <2> QED BY <2>1, <2>2, <2>3, <2>4, <2>5, <2>6
<1>13. ASSUME JuiceSetState PROVE IInv'
  <2>1. TypeOK'
    <3>1. pc' \in [Thread -> Label]
      BY <1>13 DEF Thread, cells, debts, history, JuiceSetState, Goto, SetState, TypeOK, Label
    <3>2. arg' \in [Thread -> ArgValue]
      BY <1>13 DEF Thread, cells, debts, history, JuiceSetState, Goto, SetState, TypeOK, ArgsFit, RemotePast, ArgValue, Mid, State
    <3>3. /\ closed' \in BOOLEAN
          /\ state' \in State
          /\ gathering_state' \in GatheringState
          /\ role' \in Role
          /\ mid' \in Mid
          /\ callbacks' \in Listener
          /\ clone' \in [Thread -> Listener]
      BY <1>13, IceAssumption DEF Thread, cells, debts, history, JuiceSetState, Goto, SetState, TypeOK, State, ArgsFit
    <3>4. agent' \in [alive : BOOLEAN, state : JuiceState, done : BOOLEAN,
                       got : SUBSET {"gather", "description", "candidate", "end"}]
      BY <1>13, IceAssumption DEF Thread, cells, debts, history, JuiceSetState, Goto, SetState, TypeOK
    <3>5. /\ owesState' \in [Thread -> State \cup {"none"}]
          /\ owesGathering' \in [Thread -> GatheringState \cup {"none"}]
          /\ heard' \subseteq State /\ gatheringHeard' \subseteq GatheringState /\ closedCalls' \in Nat
      BY <1>13 DEF Thread, cells, debts, history, JuiceSetState, Goto, SetState, TypeOK, State, ArgsFit
    <3> QED BY <3>1, <3>2, <3>3, <3>4, <3>5 DEF TypeOK
  <2>2. ArgsFit'
    BY <1>13, IceAssumption DEF Thread, cells, debts, history, JuiceSetState, Goto, SetState, ArgsFit, RemotePast, Debts, TypeOK, State
  <2>3. Debts'
    BY <1>13, IceAssumption DEF Thread, cells, debts, history, JuiceSetState, Goto, SetState, Debts, TypeOK, State, ArgsFit
  <2>4. SoleCloser'
    BY <1>13, IceAssumption DEF Thread, cells, debts, history, JuiceSetState, Goto, SetState, SoleCloser, Closing, ArgsFit, Debts, TypeOK
  <2>5. RoleKnown'
    BY <1>13, IceAssumption DEF Thread, cells, debts, history, JuiceSetState, Goto, SetState, RoleKnown, RoleBeforeChecks, TypeOK
  <2>6. GatherAnnounced'
    BY <1>13, IceAssumption DEF Thread, cells, debts, history, JuiceSetState, Goto, SetState, GatherAnnounced, Debts, TypeOK
  <2> QED BY <2>1, <2>2, <2>3, <2>4, <2>5, <2>6
<1>14. ASSUME DoneComplete PROVE IInv'
  <2>1. TypeOK'
    <3>1. pc' \in [Thread -> Label]
      BY <1>14 DEF Thread, cells, debts, history, DoneComplete, Goto, SetGathering, TypeOK, Label
    <3>2. arg' \in [Thread -> ArgValue]
      BY <1>14 DEF Thread, cells, debts, history, DoneComplete, Goto, SetGathering, TypeOK
    <3>3. /\ closed' \in BOOLEAN
          /\ state' \in State
          /\ gathering_state' \in GatheringState
          /\ role' \in Role
          /\ mid' \in Mid
          /\ callbacks' \in Listener
          /\ clone' \in [Thread -> Listener]
      BY <1>14, IceAssumption DEF Thread, cells, debts, history, DoneComplete, Goto, SetGathering, TypeOK, GatheringState
    <3>4. agent' \in [alive : BOOLEAN, state : JuiceState, done : BOOLEAN,
                       got : SUBSET {"gather", "description", "candidate", "end"}]
      BY <1>14, IceAssumption DEF Thread, cells, debts, history, DoneComplete, Goto, SetGathering, TypeOK
    <3>5. /\ owesState' \in [Thread -> State \cup {"none"}]
          /\ owesGathering' \in [Thread -> GatheringState \cup {"none"}]
          /\ heard' \subseteq State /\ gatheringHeard' \subseteq GatheringState /\ closedCalls' \in Nat
      BY <1>14 DEF Thread, cells, debts, history, DoneComplete, Goto, SetGathering, TypeOK, GatheringState
    <3> QED BY <3>1, <3>2, <3>3, <3>4, <3>5 DEF TypeOK
  <2>2. ArgsFit'
    BY <1>14, IceAssumption DEF Thread, cells, debts, history, DoneComplete, Goto, SetGathering, ArgsFit, RemotePast, Debts, TypeOK
  <2>3. Debts'
    BY <1>14, IceAssumption DEF Thread, cells, debts, history, DoneComplete, Goto, SetGathering, Debts, TypeOK
  <2>4. SoleCloser'
    BY <1>14, IceAssumption DEF Thread, cells, debts, history, DoneComplete, Goto, SetGathering, SoleCloser, Closing, ArgsFit, Debts, TypeOK
  <2>5. RoleKnown'
    BY <1>14, IceAssumption DEF Thread, cells, debts, history, DoneComplete, Goto, SetGathering, RoleKnown, RoleBeforeChecks, TypeOK
  <2>6. GatherAnnounced'
    BY <1>14, IceAssumption DEF Thread, cells, debts, history, DoneComplete, Goto, SetGathering, GatherAnnounced, Debts, TypeOK
  <2> QED BY <2>1, <2>2, <2>3, <2>4, <2>5, <2>6
<1>15. ASSUME CandidateReadMid PROVE IInv'
  <2>1. TypeOK'
    <3>1. pc' \in [Thread -> Label]
      BY <1>15 DEF Thread, cells, debts, history, CandidateReadMid, Goto, TypeOK, Label
    <3>2. arg' \in [Thread -> ArgValue]
      <4>1. arg' = [arg EXCEPT ![driver] = mid] \/ arg' = [arg EXCEPT ![driver] = arg[driver]]
        BY <1>15 DEF CandidateReadMid
      <4>2. mid \in ArgValue
        BY DEF TypeOK, ArgValue
      <4> QED BY <4>1, <4>2 DEF TypeOK
    <3>3. /\ closed' \in BOOLEAN
          /\ state' \in State
          /\ gathering_state' \in GatheringState
          /\ role' \in Role
          /\ mid' \in Mid
          /\ callbacks' \in Listener
          /\ clone' \in [Thread -> Listener]
      BY <1>15, IceAssumption DEF Thread, cells, debts, history, CandidateReadMid, Goto, TypeOK
    <3>4. agent' \in [alive : BOOLEAN, state : JuiceState, done : BOOLEAN,
                       got : SUBSET {"gather", "description", "candidate", "end"}]
      BY <1>15, IceAssumption DEF Thread, cells, debts, history, CandidateReadMid, Goto, TypeOK
    <3>5. /\ owesState' \in [Thread -> State \cup {"none"}]
          /\ owesGathering' \in [Thread -> GatheringState \cup {"none"}]
          /\ heard' \subseteq State /\ gatheringHeard' \subseteq GatheringState /\ closedCalls' \in Nat
      BY <1>15 DEF Thread, cells, debts, history, CandidateReadMid, Goto, TypeOK
    <3> QED BY <3>1, <3>2, <3>3, <3>4, <3>5 DEF TypeOK
  <2>2. ArgsFit'
    <3>1. /\ pc[driver] = "candidate:read mid" /\ driver \in Thread
          /\ \A t \in Thread \ {driver} : pc'[t] = pc[t] /\ arg'[t] = arg[t]
          /\ pc'[driver] \in {"candidate:clone", "idle"}
          /\ state' = state
      BY <1>15 DEF CandidateReadMid, Goto, Thread, cells, TypeOK
    <3> QED BY <3>1 DEF ArgsFit, RemotePast
  <2>3. Debts'
    BY <1>15, IceAssumption DEF Thread, cells, debts, history, CandidateReadMid, Goto, Debts, TypeOK
  <2>4. SoleCloser'
    <3>1. \/ pc' = [pc EXCEPT ![driver] = "candidate:clone"]
          \/ pc' = [pc EXCEPT ![driver] = "idle"]
      BY <1>15 DEF CandidateReadMid, Goto
    <3>2. \A t \in Thread : Closing(t)' => Closing(t)
      BY <1>15, <3>1 DEF CandidateReadMid, debts, Closing, TypeOK
    <3>3. UNCHANGED <<closed, closedCalls>>
      BY <1>15 DEF CandidateReadMid, cells, history
    <3> QED BY <3>2, <3>3, CloserKept
  <2>5. RoleKnown'
    BY <1>15, IceAssumption DEF Thread, cells, debts, history, CandidateReadMid, Goto, RoleKnown, RoleBeforeChecks, TypeOK
  <2>6. GatherAnnounced'
    BY <1>15, IceAssumption DEF Thread, cells, debts, history, CandidateReadMid, Goto, GatherAnnounced, Debts, TypeOK
  <2> QED BY <2>1, <2>2, <2>3, <2>4, <2>5, <2>6
<1>16. ASSUME CandidateClone PROVE IInv'
  <2>1. TypeOK'
    <3>1. pc' \in [Thread -> Label]
      BY <1>16 DEF Thread, cells, debts, history, CandidateClone, Goto, TypeOK, Label
    <3>2. arg' \in [Thread -> ArgValue]
      BY <1>16 DEF Thread, cells, debts, history, CandidateClone, Goto, TypeOK
    <3>3. /\ closed' \in BOOLEAN
          /\ state' \in State
          /\ gathering_state' \in GatheringState
          /\ role' \in Role
          /\ mid' \in Mid
          /\ callbacks' \in Listener
          /\ clone' \in [Thread -> Listener]
      BY <1>16, IceAssumption DEF Thread, cells, debts, history, CandidateClone, Goto, TypeOK
    <3>4. agent' \in [alive : BOOLEAN, state : JuiceState, done : BOOLEAN,
                       got : SUBSET {"gather", "description", "candidate", "end"}]
      BY <1>16, IceAssumption DEF Thread, cells, debts, history, CandidateClone, Goto, TypeOK
    <3>5. /\ owesState' \in [Thread -> State \cup {"none"}]
          /\ owesGathering' \in [Thread -> GatheringState \cup {"none"}]
          /\ heard' \subseteq State /\ gatheringHeard' \subseteq GatheringState /\ closedCalls' \in Nat
      BY <1>16 DEF Thread, cells, debts, history, CandidateClone, Goto, TypeOK
    <3> QED BY <3>1, <3>2, <3>3, <3>4, <3>5 DEF TypeOK
  <2>2. ArgsFit'
    BY <1>16, IceAssumption DEF Thread, cells, debts, history, CandidateClone, Goto, ArgsFit, RemotePast, Debts, TypeOK
  <2>3. Debts'
    BY <1>16, IceAssumption DEF Thread, cells, debts, history, CandidateClone, Goto, Debts, TypeOK
  <2>4. SoleCloser'
    BY <1>16, IceAssumption DEF Thread, cells, debts, history, CandidateClone, Goto, SoleCloser, Closing, ArgsFit, Debts, TypeOK
  <2>5. RoleKnown'
    BY <1>16, IceAssumption DEF Thread, cells, debts, history, CandidateClone, Goto, RoleKnown, RoleBeforeChecks, TypeOK
  <2>6. GatherAnnounced'
    BY <1>16, IceAssumption DEF Thread, cells, debts, history, CandidateClone, Goto, GatherAnnounced, Debts, TypeOK
  <2> QED BY <2>1, <2>2, <2>3, <2>4, <2>5, <2>6
<1>17. ASSUME CandidateCall PROVE IInv'
  <2>1. TypeOK'
    <3>1. pc' \in [Thread -> Label]
      BY <1>17 DEF Thread, cells, debts, history, CandidateCall, Goto, TypeOK, Label
    <3>2. arg' \in [Thread -> ArgValue]
      BY <1>17 DEF Thread, cells, debts, history, CandidateCall, Goto, TypeOK, ArgsFit, RemotePast, ArgValue, Mid
    <3>3. /\ closed' \in BOOLEAN
          /\ state' \in State
          /\ gathering_state' \in GatheringState
          /\ role' \in Role
          /\ mid' \in Mid
          /\ callbacks' \in Listener
          /\ clone' \in [Thread -> Listener]
      BY <1>17, IceAssumption DEF Thread, cells, debts, history, CandidateCall, Goto, TypeOK
    <3>4. agent' \in [alive : BOOLEAN, state : JuiceState, done : BOOLEAN,
                       got : SUBSET {"gather", "description", "candidate", "end"}]
      BY <1>17, IceAssumption DEF Thread, cells, debts, history, CandidateCall, Goto, TypeOK
    <3>5. /\ owesState' \in [Thread -> State \cup {"none"}]
          /\ owesGathering' \in [Thread -> GatheringState \cup {"none"}]
          /\ heard' \subseteq State /\ gatheringHeard' \subseteq GatheringState /\ closedCalls' \in Nat
      BY <1>17 DEF Thread, cells, debts, history, CandidateCall, Goto, TypeOK
    <3> QED BY <3>1, <3>2, <3>3, <3>4, <3>5 DEF TypeOK
  <2>2. ArgsFit'
    BY <1>17, IceAssumption DEF Thread, cells, debts, history, CandidateCall, Goto, ArgsFit, RemotePast, Debts, TypeOK
  <2>3. Debts'
    BY <1>17, IceAssumption DEF Thread, cells, debts, history, CandidateCall, Goto, Debts, TypeOK
  <2>4. SoleCloser'
    BY <1>17, IceAssumption DEF Thread, cells, debts, history, CandidateCall, Goto, SoleCloser, Closing, ArgsFit, Debts, TypeOK
  <2>5. RoleKnown'
    BY <1>17, IceAssumption DEF Thread, cells, debts, history, CandidateCall, Goto, RoleKnown, RoleBeforeChecks, TypeOK
  <2>6. GatherAnnounced'
    BY <1>17, IceAssumption DEF Thread, cells, debts, history, CandidateCall, Goto, GatherAnnounced, Debts, TypeOK
  <2> QED BY <2>1, <2>2, <2>3, <2>4, <2>5, <2>6
<1>18. ASSUME RecvClone PROVE IInv'
  <2>1. TypeOK'
    <3>1. pc' \in [Thread -> Label]
      BY <1>18 DEF Thread, cells, debts, history, RecvClone, Goto, TypeOK, Label
    <3>2. arg' \in [Thread -> ArgValue]
      BY <1>18 DEF Thread, cells, debts, history, RecvClone, Goto, TypeOK
    <3>3. /\ closed' \in BOOLEAN
          /\ state' \in State
          /\ gathering_state' \in GatheringState
          /\ role' \in Role
          /\ mid' \in Mid
          /\ callbacks' \in Listener
          /\ clone' \in [Thread -> Listener]
      BY <1>18, IceAssumption DEF Thread, cells, debts, history, RecvClone, Goto, TypeOK
    <3>4. agent' \in [alive : BOOLEAN, state : JuiceState, done : BOOLEAN,
                       got : SUBSET {"gather", "description", "candidate", "end"}]
      BY <1>18, IceAssumption DEF Thread, cells, debts, history, RecvClone, Goto, TypeOK
    <3>5. /\ owesState' \in [Thread -> State \cup {"none"}]
          /\ owesGathering' \in [Thread -> GatheringState \cup {"none"}]
          /\ heard' \subseteq State /\ gatheringHeard' \subseteq GatheringState /\ closedCalls' \in Nat
      BY <1>18 DEF Thread, cells, debts, history, RecvClone, Goto, TypeOK
    <3> QED BY <3>1, <3>2, <3>3, <3>4, <3>5 DEF TypeOK
  <2>2. ArgsFit'
    BY <1>18, IceAssumption DEF Thread, cells, debts, history, RecvClone, Goto, ArgsFit, RemotePast, Debts, TypeOK
  <2>3. Debts'
    BY <1>18, IceAssumption DEF Thread, cells, debts, history, RecvClone, Goto, Debts, TypeOK
  <2>4. SoleCloser'
    BY <1>18, IceAssumption DEF Thread, cells, debts, history, RecvClone, Goto, SoleCloser, Closing, ArgsFit, Debts, TypeOK
  <2>5. RoleKnown'
    BY <1>18, IceAssumption DEF Thread, cells, debts, history, RecvClone, Goto, RoleKnown, RoleBeforeChecks, TypeOK
  <2>6. GatherAnnounced'
    BY <1>18, IceAssumption DEF Thread, cells, debts, history, RecvClone, Goto, GatherAnnounced, Debts, TypeOK
  <2> QED BY <2>1, <2>2, <2>3, <2>4, <2>5, <2>6
<1>19. ASSUME RecvCall PROVE IInv'
  <2>1. TypeOK'
    <3>1. pc' \in [Thread -> Label]
      BY <1>19 DEF Thread, cells, debts, history, RecvCall, Goto, TypeOK, Label
    <3>2. arg' \in [Thread -> ArgValue]
      BY <1>19 DEF Thread, cells, debts, history, RecvCall, Goto, TypeOK
    <3>3. /\ closed' \in BOOLEAN
          /\ state' \in State
          /\ gathering_state' \in GatheringState
          /\ role' \in Role
          /\ mid' \in Mid
          /\ callbacks' \in Listener
          /\ clone' \in [Thread -> Listener]
      BY <1>19, IceAssumption DEF Thread, cells, debts, history, RecvCall, Goto, TypeOK
    <3>4. agent' \in [alive : BOOLEAN, state : JuiceState, done : BOOLEAN,
                       got : SUBSET {"gather", "description", "candidate", "end"}]
      BY <1>19, IceAssumption DEF Thread, cells, debts, history, RecvCall, Goto, TypeOK
    <3>5. /\ owesState' \in [Thread -> State \cup {"none"}]
          /\ owesGathering' \in [Thread -> GatheringState \cup {"none"}]
          /\ heard' \subseteq State /\ gatheringHeard' \subseteq GatheringState /\ closedCalls' \in Nat
      BY <1>19 DEF Thread, cells, debts, history, RecvCall, Goto, TypeOK
    <3> QED BY <3>1, <3>2, <3>3, <3>4, <3>5 DEF TypeOK
  <2>2. ArgsFit'
    BY <1>19, IceAssumption DEF Thread, cells, debts, history, RecvCall, Goto, ArgsFit, RemotePast, Debts, TypeOK
  <2>3. Debts'
    BY <1>19, IceAssumption DEF Thread, cells, debts, history, RecvCall, Goto, Debts, TypeOK
  <2>4. SoleCloser'
    BY <1>19, IceAssumption DEF Thread, cells, debts, history, RecvCall, Goto, SoleCloser, Closing, ArgsFit, Debts, TypeOK
  <2>5. RoleKnown'
    BY <1>19, IceAssumption DEF Thread, cells, debts, history, RecvCall, Goto, RoleKnown, RoleBeforeChecks, TypeOK
  <2>6. GatherAnnounced'
    BY <1>19, IceAssumption DEF Thread, cells, debts, history, RecvCall, Goto, GatherAnnounced, Debts, TypeOK
  <2> QED BY <2>1, <2>2, <2>3, <2>4, <2>5, <2>6
<1>20. ASSUME NEW u \in User, GatherCheckClosed(u) PROVE IInv'
  <2>1. TypeOK'
    <3>1. pc' \in [Thread -> Label]
      BY <1>20 DEF Thread, cells, debts, history, GatherCheckClosed, Goto, Begin, TypeOK, Label
    <3>2. arg' \in [Thread -> ArgValue]
      BY <1>20 DEF Thread, cells, debts, history, GatherCheckClosed, Goto, Begin, TypeOK
    <3>3. /\ closed' \in BOOLEAN
          /\ state' \in State
          /\ gathering_state' \in GatheringState
          /\ role' \in Role
          /\ mid' \in Mid
          /\ callbacks' \in Listener
          /\ clone' \in [Thread -> Listener]
      BY <1>20, IceAssumption DEF Thread, cells, debts, history, GatherCheckClosed, Goto, Begin, TypeOK
    <3>4. agent' \in [alive : BOOLEAN, state : JuiceState, done : BOOLEAN,
                       got : SUBSET {"gather", "description", "candidate", "end"}]
      BY <1>20, IceAssumption DEF Thread, cells, debts, history, GatherCheckClosed, Goto, Begin, TypeOK
    <3>5. /\ owesState' \in [Thread -> State \cup {"none"}]
          /\ owesGathering' \in [Thread -> GatheringState \cup {"none"}]
          /\ heard' \subseteq State /\ gatheringHeard' \subseteq GatheringState /\ closedCalls' \in Nat
      BY <1>20 DEF Thread, cells, debts, history, GatherCheckClosed, Goto, Begin, TypeOK
    <3> QED BY <3>1, <3>2, <3>3, <3>4, <3>5 DEF TypeOK
  <2>2. ArgsFit'
    BY <1>20, IceAssumption DEF Thread, cells, debts, history, GatherCheckClosed, Goto, Begin, ArgsFit, RemotePast, Debts, TypeOK
  <2>3. Debts'
    BY <1>20, IceAssumption DEF Thread, cells, debts, history, GatherCheckClosed, Goto, Begin, Debts, TypeOK
  <2>4. SoleCloser'
    BY <1>20, IceAssumption DEF Thread, cells, debts, history, GatherCheckClosed, Goto, Begin, SoleCloser, Closing, ArgsFit, Debts, TypeOK
  <2>5. RoleKnown'
    BY <1>20, IceAssumption DEF Thread, cells, debts, history, GatherCheckClosed, Goto, Begin, RoleKnown, RoleBeforeChecks, TypeOK
  <2>6. GatherAnnounced'
    BY <1>20, IceAssumption DEF Thread, cells, debts, history, GatherCheckClosed, Goto, Begin, GatherAnnounced, Debts, TypeOK
  <2> QED BY <2>1, <2>2, <2>3, <2>4, <2>5, <2>6
<1>21. ASSUME NEW u \in User, NEW desc \in RemoteDescription, RemoteCheckClosed(u, desc) PROVE IInv'
  <2>1. TypeOK'
    <3>1. pc' \in [Thread -> Label]
      BY <1>21 DEF Thread, cells, debts, history, RemoteCheckClosed, Goto, Begin, TypeOK, Label
    <3>2. arg' \in [Thread -> ArgValue]
      BY <1>21 DEF Thread, cells, debts, history, RemoteCheckClosed, Goto, Begin, TypeOK, ArgsFit, RemotePast, ArgValue, Mid
    <3>3. /\ closed' \in BOOLEAN
          /\ state' \in State
          /\ gathering_state' \in GatheringState
          /\ role' \in Role
          /\ mid' \in Mid
          /\ callbacks' \in Listener
          /\ clone' \in [Thread -> Listener]
      BY <1>21, IceAssumption DEF Thread, cells, debts, history, RemoteCheckClosed, Goto, Begin, TypeOK
    <3>4. agent' \in [alive : BOOLEAN, state : JuiceState, done : BOOLEAN,
                       got : SUBSET {"gather", "description", "candidate", "end"}]
      BY <1>21, IceAssumption DEF Thread, cells, debts, history, RemoteCheckClosed, Goto, Begin, TypeOK
    <3>5. /\ owesState' \in [Thread -> State \cup {"none"}]
          /\ owesGathering' \in [Thread -> GatheringState \cup {"none"}]
          /\ heard' \subseteq State /\ gatheringHeard' \subseteq GatheringState /\ closedCalls' \in Nat
      BY <1>21 DEF Thread, cells, debts, history, RemoteCheckClosed, Goto, Begin, TypeOK
    <3> QED BY <3>1, <3>2, <3>3, <3>4, <3>5 DEF TypeOK
  <2>2. ArgsFit'
    BY <1>21, IceAssumption DEF Thread, cells, debts, history, RemoteCheckClosed, Goto, Begin, ArgsFit, RemotePast, Debts, TypeOK
  <2>3. Debts'
    BY <1>21, IceAssumption DEF Thread, cells, debts, history, RemoteCheckClosed, Goto, Begin, Debts, TypeOK
  <2>4. SoleCloser'
    BY <1>21, IceAssumption DEF Thread, cells, debts, history, RemoteCheckClosed, Goto, Begin, SoleCloser, Closing, ArgsFit, Debts, TypeOK
  <2>5. RoleKnown'
    BY <1>21, IceAssumption DEF Thread, cells, debts, history, RemoteCheckClosed, Goto, Begin, RoleKnown, RoleBeforeChecks, TypeOK
  <2>6. GatherAnnounced'
    BY <1>21, IceAssumption DEF Thread, cells, debts, history, RemoteCheckClosed, Goto, Begin, GatherAnnounced, Debts, TypeOK
  <2> QED BY <2>1, <2>2, <2>3, <2>4, <2>5, <2>6
<1>22. ASSUME NEW u \in User, NEW what \in {"candidate", "end"}, TrickleCheckClosed(u, what) PROVE IInv'
  <2>1. TypeOK'
    <3>1. pc' \in [Thread -> Label]
      BY <1>22 DEF Thread, cells, debts, history, TrickleCheckClosed, Goto, Begin, TypeOK, Label
    <3>2. arg' \in [Thread -> ArgValue]
      BY <1>22 DEF Thread, cells, debts, history, TrickleCheckClosed, Goto, Begin, TypeOK, ArgsFit, RemotePast, ArgValue, Mid
    <3>3. /\ closed' \in BOOLEAN
          /\ state' \in State
          /\ gathering_state' \in GatheringState
          /\ role' \in Role
          /\ mid' \in Mid
          /\ callbacks' \in Listener
          /\ clone' \in [Thread -> Listener]
      BY <1>22, IceAssumption DEF Thread, cells, debts, history, TrickleCheckClosed, Goto, Begin, TypeOK
    <3>4. agent' \in [alive : BOOLEAN, state : JuiceState, done : BOOLEAN,
                       got : SUBSET {"gather", "description", "candidate", "end"}]
      BY <1>22, IceAssumption DEF Thread, cells, debts, history, TrickleCheckClosed, Goto, Begin, TypeOK
    <3>5. /\ owesState' \in [Thread -> State \cup {"none"}]
          /\ owesGathering' \in [Thread -> GatheringState \cup {"none"}]
          /\ heard' \subseteq State /\ gatheringHeard' \subseteq GatheringState /\ closedCalls' \in Nat
      BY <1>22 DEF Thread, cells, debts, history, TrickleCheckClosed, Goto, Begin, TypeOK
    <3> QED BY <3>1, <3>2, <3>3, <3>4, <3>5 DEF TypeOK
  <2>2. ArgsFit'
    BY <1>22, IceAssumption DEF Thread, cells, debts, history, TrickleCheckClosed, Goto, Begin, ArgsFit, RemotePast, Debts, TypeOK
  <2>3. Debts'
    BY <1>22, IceAssumption DEF Thread, cells, debts, history, TrickleCheckClosed, Goto, Begin, Debts, TypeOK
  <2>4. SoleCloser'
    BY <1>22, IceAssumption DEF Thread, cells, debts, history, TrickleCheckClosed, Goto, Begin, SoleCloser, Closing, ArgsFit, Debts, TypeOK
  <2>5. RoleKnown'
    BY <1>22, IceAssumption DEF Thread, cells, debts, history, TrickleCheckClosed, Goto, Begin, RoleKnown, RoleBeforeChecks, TypeOK
  <2>6. GatherAnnounced'
    BY <1>22, IceAssumption DEF Thread, cells, debts, history, TrickleCheckClosed, Goto, Begin, GatherAnnounced, Debts, TypeOK
  <2> QED BY <2>1, <2>2, <2>3, <2>4, <2>5, <2>6
<1>23. ASSUME NEW u \in User, RestartCheckClosed(u) PROVE IInv'
  <2>1. TypeOK'
    <3>1. pc' \in [Thread -> Label]
      BY <1>23 DEF Thread, cells, debts, history, RestartCheckClosed, Goto, Begin, TypeOK, Label
    <3>2. arg' \in [Thread -> ArgValue]
      BY <1>23 DEF Thread, cells, debts, history, RestartCheckClosed, Goto, Begin, TypeOK
    <3>3. /\ closed' \in BOOLEAN
          /\ state' \in State
          /\ gathering_state' \in GatheringState
          /\ role' \in Role
          /\ mid' \in Mid
          /\ callbacks' \in Listener
          /\ clone' \in [Thread -> Listener]
      BY <1>23, IceAssumption DEF Thread, cells, debts, history, RestartCheckClosed, Goto, Begin, TypeOK
    <3>4. agent' \in [alive : BOOLEAN, state : JuiceState, done : BOOLEAN,
                       got : SUBSET {"gather", "description", "candidate", "end"}]
      BY <1>23, IceAssumption DEF Thread, cells, debts, history, RestartCheckClosed, Goto, Begin, TypeOK
    <3>5. /\ owesState' \in [Thread -> State \cup {"none"}]
          /\ owesGathering' \in [Thread -> GatheringState \cup {"none"}]
          /\ heard' \subseteq State /\ gatheringHeard' \subseteq GatheringState /\ closedCalls' \in Nat
      BY <1>23 DEF Thread, cells, debts, history, RestartCheckClosed, Goto, Begin, TypeOK
    <3> QED BY <3>1, <3>2, <3>3, <3>4, <3>5 DEF TypeOK
  <2>2. ArgsFit'
    BY <1>23, IceAssumption DEF Thread, cells, debts, history, RestartCheckClosed, Goto, Begin, ArgsFit, RemotePast, Debts, TypeOK
  <2>3. Debts'
    BY <1>23, IceAssumption DEF Thread, cells, debts, history, RestartCheckClosed, Goto, Begin, Debts, TypeOK
  <2>4. SoleCloser'
    BY <1>23, IceAssumption DEF Thread, cells, debts, history, RestartCheckClosed, Goto, Begin, SoleCloser, Closing, ArgsFit, Debts, TypeOK
  <2>5. RoleKnown'
    BY <1>23, IceAssumption DEF Thread, cells, debts, history, RestartCheckClosed, Goto, Begin, RoleKnown, RoleBeforeChecks, TypeOK
  <2>6. GatherAnnounced'
    BY <1>23, IceAssumption DEF Thread, cells, debts, history, RestartCheckClosed, Goto, Begin, GatherAnnounced, Debts, TypeOK
  <2> QED BY <2>1, <2>2, <2>3, <2>4, <2>5, <2>6
<1>24. ASSUME NEW u \in User, CloseSwapClosed(u) PROVE IInv'
  <2>1. TypeOK'
    <3>1. pc' \in [Thread -> Label]
      BY <1>24 DEF Thread, cells, debts, history, CloseSwapClosed, Goto, TypeOK, Label
    <3>2. arg' \in [Thread -> ArgValue]
      BY <1>24 DEF Thread, cells, debts, history, CloseSwapClosed, Goto, TypeOK
    <3>3. /\ closed' \in BOOLEAN
          /\ state' \in State
          /\ gathering_state' \in GatheringState
          /\ role' \in Role
          /\ mid' \in Mid
          /\ callbacks' \in Listener
          /\ clone' \in [Thread -> Listener]
      BY <1>24, IceAssumption DEF Thread, cells, debts, history, CloseSwapClosed, Goto, TypeOK
    <3>4. agent' \in [alive : BOOLEAN, state : JuiceState, done : BOOLEAN,
                       got : SUBSET {"gather", "description", "candidate", "end"}]
      BY <1>24, IceAssumption DEF Thread, cells, debts, history, CloseSwapClosed, Goto, TypeOK
    <3>5. /\ owesState' \in [Thread -> State \cup {"none"}]
          /\ owesGathering' \in [Thread -> GatheringState \cup {"none"}]
          /\ heard' \subseteq State /\ gatheringHeard' \subseteq GatheringState /\ closedCalls' \in Nat
      BY <1>24 DEF Thread, cells, debts, history, CloseSwapClosed, Goto, TypeOK
    <3> QED BY <3>1, <3>2, <3>3, <3>4, <3>5 DEF TypeOK
  <2>2. ArgsFit'
    BY <1>24, IceAssumption DEF Thread, cells, debts, history, CloseSwapClosed, Goto, ArgsFit, RemotePast, Debts, TypeOK
  <2>3. Debts'
    BY <1>24, IceAssumption DEF Thread, cells, debts, history, CloseSwapClosed, Goto, Debts, TypeOK
  <2>4. SoleCloser'
    BY <1>24, IceAssumption DEF Thread, cells, debts, history, CloseSwapClosed, Goto, SoleCloser, Closing, ArgsFit, Debts, TypeOK
  <2>5. RoleKnown'
    BY <1>24, IceAssumption DEF Thread, cells, debts, history, CloseSwapClosed, Goto, RoleKnown, RoleBeforeChecks, TypeOK
  <2>6. GatherAnnounced'
    BY <1>24, IceAssumption DEF Thread, cells, debts, history, CloseSwapClosed, Goto, GatherAnnounced, Debts, TypeOK
  <2> QED BY <2>1, <2>2, <2>3, <2>4, <2>5, <2>6
<1>25. ASSUME NEW u \in User, NEW l \in Listener, set_callbacks(u, l) PROVE IInv'
  <2>1. TypeOK'
    <3>1. pc' \in [Thread -> Label]
      BY <1>25 DEF Thread, cells, debts, history, set_callbacks, TypeOK, Label
    <3>2. arg' \in [Thread -> ArgValue]
      BY <1>25 DEF Thread, cells, debts, history, set_callbacks, TypeOK
    <3>3. /\ closed' \in BOOLEAN
          /\ state' \in State
          /\ gathering_state' \in GatheringState
          /\ role' \in Role
          /\ mid' \in Mid
          /\ callbacks' \in Listener
          /\ clone' \in [Thread -> Listener]
      BY <1>25, IceAssumption DEF Thread, cells, debts, history, set_callbacks, TypeOK
    <3>4. agent' \in [alive : BOOLEAN, state : JuiceState, done : BOOLEAN,
                       got : SUBSET {"gather", "description", "candidate", "end"}]
      BY <1>25, IceAssumption DEF Thread, cells, debts, history, set_callbacks, TypeOK
    <3>5. /\ owesState' \in [Thread -> State \cup {"none"}]
          /\ owesGathering' \in [Thread -> GatheringState \cup {"none"}]
          /\ heard' \subseteq State /\ gatheringHeard' \subseteq GatheringState /\ closedCalls' \in Nat
      BY <1>25 DEF Thread, cells, debts, history, set_callbacks, TypeOK
    <3> QED BY <3>1, <3>2, <3>3, <3>4, <3>5 DEF TypeOK
  <2>2. ArgsFit'
    BY <1>25, IceAssumption DEF Thread, cells, debts, history, set_callbacks, ArgsFit, RemotePast, Debts, TypeOK
  <2>3. Debts'
    BY <1>25, IceAssumption DEF Thread, cells, debts, history, set_callbacks, Debts, TypeOK
  <2>4. SoleCloser'
    BY <1>25, IceAssumption DEF Thread, cells, debts, history, set_callbacks, SoleCloser, Closing, ArgsFit, Debts, TypeOK
  <2>5. RoleKnown'
    BY <1>25, IceAssumption DEF Thread, cells, debts, history, set_callbacks, RoleKnown, RoleBeforeChecks, TypeOK
  <2>6. GatherAnnounced'
    BY <1>25, IceAssumption DEF Thread, cells, debts, history, set_callbacks, GatherAnnounced, Debts, TypeOK
  <2> QED BY <2>1, <2>2, <2>3, <2>4, <2>5, <2>6
<1>26. ASSUME NEW s \in JuiceState, JuiceStateEvent(s) PROVE IInv'
  <2>1. TypeOK'
    <3>1. pc' \in [Thread -> Label]
      BY <1>26 DEF Thread, cells, debts, history, JuiceStateEvent, Goto, Event, map_state, TypeOK, Label
    <3>2. arg' \in [Thread -> ArgValue]
      <4>1. map_state(s) \in ArgValue
        BY MapStateRange DEF ArgValue
      <4> QED BY <1>26, <4>1 DEF JuiceStateEvent, Event, TypeOK
    <3>3. /\ closed' \in BOOLEAN
          /\ state' \in State
          /\ gathering_state' \in GatheringState
          /\ role' \in Role
          /\ mid' \in Mid
          /\ callbacks' \in Listener
          /\ clone' \in [Thread -> Listener]
      BY <1>26, IceAssumption DEF Thread, cells, debts, history, JuiceStateEvent, Goto, Event, map_state, TypeOK
    <3>4. agent' \in [alive : BOOLEAN, state : JuiceState, done : BOOLEAN,
                       got : SUBSET {"gather", "description", "candidate", "end"}]
      BY <1>26, IceAssumption DEF Thread, cells, debts, history, JuiceStateEvent, Goto, Event, map_state, TypeOK, JuiceState
    <3>5. /\ owesState' \in [Thread -> State \cup {"none"}]
          /\ owesGathering' \in [Thread -> GatheringState \cup {"none"}]
          /\ heard' \subseteq State /\ gatheringHeard' \subseteq GatheringState /\ closedCalls' \in Nat
      BY <1>26 DEF Thread, cells, debts, history, JuiceStateEvent, Goto, Event, map_state, TypeOK
    <3> QED BY <3>1, <3>2, <3>3, <3>4, <3>5 DEF TypeOK
  <2>2. ArgsFit'
    <3>1. driver \in Thread /\ map_state(s) \in State \ {"Disconnected", "Closed"}
      BY MapStateRange DEF Thread
    <3>2. pc'[driver] = "juice:set state" => arg'[driver] \in State \ {"Disconnected", "Closed"}
      <4>1. CASE closed
        BY <1>26, <3>1, <4>1 DEF JuiceStateEvent, Event, Goto, TypeOK
      <4>2. CASE ~closed
        BY <1>26, <3>1, <4>2 DEF JuiceStateEvent, TypeOK
      <4> QED BY <4>1, <4>2
    <3>3. \A t \in Thread : pc'[t] \in RemotePast \cup {"trickle:command"}
                             => pc[t] = pc'[t] /\ arg'[t] = arg[t]
      <4>1. pc'[driver] \in {"idle", "juice:set state"}
        BY <1>26, <3>1 DEF JuiceStateEvent, Event, Goto, TypeOK
      <4>2. \A t \in Thread \ {driver} : pc[t] = pc'[t] /\ arg'[t] = arg[t]
        BY <1>26 DEF JuiceStateEvent, Event, Goto, TypeOK
      <4> QED BY <4>1, <4>2 DEF RemotePast
    <3>4. state' = state
      BY <1>26 DEF JuiceStateEvent, cells
    <3> QED BY <3>2, <3>3, <3>4 DEF ArgsFit, RemotePast
  <2>3. Debts'
    BY <1>26, IceAssumption DEF Thread, cells, debts, history, JuiceStateEvent, Goto, Event, map_state, Debts, TypeOK, State, ArgsFit
  <2>4. SoleCloser'
    BY <1>26, IceAssumption DEF Thread, cells, debts, history, JuiceStateEvent, Goto, Event, map_state, SoleCloser, Closing, ArgsFit, Debts, TypeOK
  <2>5. RoleKnown'
    BY <1>26, IceAssumption DEF Thread, cells, debts, history, JuiceStateEvent, Goto, Event, map_state, RoleKnown, RoleBeforeChecks, TypeOK
  <2>6. GatherAnnounced'
    BY <1>26, IceAssumption DEF Thread, cells, debts, history, JuiceStateEvent, Goto, Event, map_state, GatherAnnounced, Debts, TypeOK
  <2> QED BY <2>1, <2>2, <2>3, <2>4, <2>5, <2>6
<1>27. ASSUME JuiceGatheringDoneEvent PROVE IInv'
  <2>1. TypeOK'
    <3>1. pc' \in [Thread -> Label]
      BY <1>27 DEF Thread, cells, debts, history, JuiceGatheringDoneEvent, Goto, Event, Gathering, TypeOK, Label
    <3>2. arg' \in [Thread -> ArgValue]
      BY <1>27 DEF Thread, cells, debts, history, JuiceGatheringDoneEvent, Goto, Event, Gathering, TypeOK
    <3>3. /\ closed' \in BOOLEAN
          /\ state' \in State
          /\ gathering_state' \in GatheringState
          /\ role' \in Role
          /\ mid' \in Mid
          /\ callbacks' \in Listener
          /\ clone' \in [Thread -> Listener]
      BY <1>27, IceAssumption DEF Thread, cells, debts, history, JuiceGatheringDoneEvent, Goto, Event, Gathering, TypeOK
    <3>4. agent' \in [alive : BOOLEAN, state : JuiceState, done : BOOLEAN,
                       got : SUBSET {"gather", "description", "candidate", "end"}]
      BY <1>27, IceAssumption DEF Thread, cells, debts, history, JuiceGatheringDoneEvent, Goto, Event, Gathering, TypeOK
    <3>5. /\ owesState' \in [Thread -> State \cup {"none"}]
          /\ owesGathering' \in [Thread -> GatheringState \cup {"none"}]
          /\ heard' \subseteq State /\ gatheringHeard' \subseteq GatheringState /\ closedCalls' \in Nat
      BY <1>27 DEF Thread, cells, debts, history, JuiceGatheringDoneEvent, Goto, Event, Gathering, TypeOK
    <3> QED BY <3>1, <3>2, <3>3, <3>4, <3>5 DEF TypeOK
  <2>2. ArgsFit'
    BY <1>27, IceAssumption DEF Thread, cells, debts, history, JuiceGatheringDoneEvent, Goto, Event, Gathering, ArgsFit, RemotePast, Debts, TypeOK
  <2>3. Debts'
    BY <1>27, IceAssumption DEF Thread, cells, debts, history, JuiceGatheringDoneEvent, Goto, Event, Gathering, Debts, TypeOK
  <2>4. SoleCloser'
    BY <1>27, IceAssumption DEF Thread, cells, debts, history, JuiceGatheringDoneEvent, Goto, Event, Gathering, SoleCloser, Closing, ArgsFit, Debts, TypeOK
  <2>5. RoleKnown'
    BY <1>27, IceAssumption DEF Thread, cells, debts, history, JuiceGatheringDoneEvent, Goto, Event, Gathering, RoleKnown, RoleBeforeChecks, TypeOK
  <2>6. GatherAnnounced'
    BY <1>27, IceAssumption DEF Thread, cells, debts, history, JuiceGatheringDoneEvent, Goto, Event, Gathering, GatherAnnounced, Debts, TypeOK
  <2> QED BY <2>1, <2>2, <2>3, <2>4, <2>5, <2>6
<1>28. ASSUME JuiceCandidateEvent PROVE IInv'
  <2>1. TypeOK'
    <3>1. pc' \in [Thread -> Label]
      BY <1>28 DEF Thread, cells, debts, history, JuiceCandidateEvent, Goto, Event, Gathering, TypeOK, Label
    <3>2. arg' \in [Thread -> ArgValue]
      BY <1>28 DEF Thread, cells, debts, history, JuiceCandidateEvent, Goto, Event, Gathering, TypeOK
    <3>3. /\ closed' \in BOOLEAN
          /\ state' \in State
          /\ gathering_state' \in GatheringState
          /\ role' \in Role
          /\ mid' \in Mid
          /\ callbacks' \in Listener
          /\ clone' \in [Thread -> Listener]
      BY <1>28, IceAssumption DEF Thread, cells, debts, history, JuiceCandidateEvent, Goto, Event, Gathering, TypeOK
    <3>4. agent' \in [alive : BOOLEAN, state : JuiceState, done : BOOLEAN,
                       got : SUBSET {"gather", "description", "candidate", "end"}]
      BY <1>28, IceAssumption DEF Thread, cells, debts, history, JuiceCandidateEvent, Goto, Event, Gathering, TypeOK
    <3>5. /\ owesState' \in [Thread -> State \cup {"none"}]
          /\ owesGathering' \in [Thread -> GatheringState \cup {"none"}]
          /\ heard' \subseteq State /\ gatheringHeard' \subseteq GatheringState /\ closedCalls' \in Nat
      BY <1>28 DEF Thread, cells, debts, history, JuiceCandidateEvent, Goto, Event, Gathering, TypeOK
    <3> QED BY <3>1, <3>2, <3>3, <3>4, <3>5 DEF TypeOK
  <2>2. ArgsFit'
    BY <1>28, IceAssumption DEF Thread, cells, debts, history, JuiceCandidateEvent, Goto, Event, Gathering, ArgsFit, RemotePast, Debts, TypeOK
  <2>3. Debts'
    BY <1>28, IceAssumption DEF Thread, cells, debts, history, JuiceCandidateEvent, Goto, Event, Gathering, Debts, TypeOK
  <2>4. SoleCloser'
    BY <1>28, IceAssumption DEF Thread, cells, debts, history, JuiceCandidateEvent, Goto, Event, Gathering, SoleCloser, Closing, ArgsFit, Debts, TypeOK
  <2>5. RoleKnown'
    BY <1>28, IceAssumption DEF Thread, cells, debts, history, JuiceCandidateEvent, Goto, Event, Gathering, RoleKnown, RoleBeforeChecks, TypeOK
  <2>6. GatherAnnounced'
    BY <1>28, IceAssumption DEF Thread, cells, debts, history, JuiceCandidateEvent, Goto, Event, Gathering, GatherAnnounced, Debts, TypeOK
  <2> QED BY <2>1, <2>2, <2>3, <2>4, <2>5, <2>6
<1>29. ASSUME JuiceRecvEvent PROVE IInv'
  <2>1. TypeOK'
    <3>1. pc' \in [Thread -> Label]
      BY <1>29 DEF Thread, cells, debts, history, JuiceRecvEvent, Goto, Event, TypeOK, Label
    <3>2. arg' \in [Thread -> ArgValue]
      BY <1>29 DEF Thread, cells, debts, history, JuiceRecvEvent, Goto, Event, TypeOK
    <3>3. /\ closed' \in BOOLEAN
          /\ state' \in State
          /\ gathering_state' \in GatheringState
          /\ role' \in Role
          /\ mid' \in Mid
          /\ callbacks' \in Listener
          /\ clone' \in [Thread -> Listener]
      BY <1>29, IceAssumption DEF Thread, cells, debts, history, JuiceRecvEvent, Goto, Event, TypeOK
    <3>4. agent' \in [alive : BOOLEAN, state : JuiceState, done : BOOLEAN,
                       got : SUBSET {"gather", "description", "candidate", "end"}]
      BY <1>29, IceAssumption DEF Thread, cells, debts, history, JuiceRecvEvent, Goto, Event, TypeOK
    <3>5. /\ owesState' \in [Thread -> State \cup {"none"}]
          /\ owesGathering' \in [Thread -> GatheringState \cup {"none"}]
          /\ heard' \subseteq State /\ gatheringHeard' \subseteq GatheringState /\ closedCalls' \in Nat
      BY <1>29 DEF Thread, cells, debts, history, JuiceRecvEvent, Goto, Event, TypeOK
    <3> QED BY <3>1, <3>2, <3>3, <3>4, <3>5 DEF TypeOK
  <2>2. ArgsFit'
    BY <1>29, IceAssumption DEF Thread, cells, debts, history, JuiceRecvEvent, Goto, Event, ArgsFit, RemotePast, Debts, TypeOK
  <2>3. Debts'
    BY <1>29, IceAssumption DEF Thread, cells, debts, history, JuiceRecvEvent, Goto, Event, Debts, TypeOK
  <2>4. SoleCloser'
    BY <1>29, IceAssumption DEF Thread, cells, debts, history, JuiceRecvEvent, Goto, Event, SoleCloser, Closing, ArgsFit, Debts, TypeOK
  <2>5. RoleKnown'
    BY <1>29, IceAssumption DEF Thread, cells, debts, history, JuiceRecvEvent, Goto, Event, RoleKnown, RoleBeforeChecks, TypeOK
  <2>6. GatherAnnounced'
    BY <1>29, IceAssumption DEF Thread, cells, debts, history, JuiceRecvEvent, Goto, Event, GatherAnnounced, Debts, TypeOK
  <2> QED BY <2>1, <2>2, <2>3, <2>4, <2>5, <2>6
<1>30. ASSUME AgentDies PROVE IInv'
  <2>1. TypeOK'
    <3>1. pc' \in [Thread -> Label]
      BY <1>30 DEF Thread, cells, debts, history, AgentDies, TypeOK, Label
    <3>2. arg' \in [Thread -> ArgValue]
      BY <1>30 DEF Thread, cells, debts, history, AgentDies, TypeOK
    <3>3. /\ closed' \in BOOLEAN
          /\ state' \in State
          /\ gathering_state' \in GatheringState
          /\ role' \in Role
          /\ mid' \in Mid
          /\ callbacks' \in Listener
          /\ clone' \in [Thread -> Listener]
      BY <1>30, IceAssumption DEF Thread, cells, debts, history, AgentDies, TypeOK
    <3>4. agent' \in [alive : BOOLEAN, state : JuiceState, done : BOOLEAN,
                       got : SUBSET {"gather", "description", "candidate", "end"}]
      BY <1>30, IceAssumption DEF Thread, cells, debts, history, AgentDies, TypeOK
    <3>5. /\ owesState' \in [Thread -> State \cup {"none"}]
          /\ owesGathering' \in [Thread -> GatheringState \cup {"none"}]
          /\ heard' \subseteq State /\ gatheringHeard' \subseteq GatheringState /\ closedCalls' \in Nat
      BY <1>30 DEF Thread, cells, debts, history, AgentDies, TypeOK
    <3> QED BY <3>1, <3>2, <3>3, <3>4, <3>5 DEF TypeOK
  <2>2. ArgsFit'
    BY <1>30, IceAssumption DEF Thread, cells, debts, history, AgentDies, ArgsFit, RemotePast, Debts, TypeOK
  <2>3. Debts'
    BY <1>30, IceAssumption DEF Thread, cells, debts, history, AgentDies, Debts, TypeOK
  <2>4. SoleCloser'
    BY <1>30, IceAssumption DEF Thread, cells, debts, history, AgentDies, SoleCloser, Closing, ArgsFit, Debts, TypeOK
  <2>5. RoleKnown'
    BY <1>30, IceAssumption DEF Thread, cells, debts, history, AgentDies, RoleKnown, RoleBeforeChecks, TypeOK
  <2>6. GatherAnnounced'
    BY <1>30, IceAssumption DEF Thread, cells, debts, history, AgentDies, GatherAnnounced, Debts, TypeOK
  <2> QED BY <2>1, <2>2, <2>3, <2>4, <2>5, <2>6
<1>31. CASE UNCHANGED vars
  <2> USE <1>31 DEF vars, cells, debts, history
  <2>1. TypeOK'
    BY DEF TypeOK
  <2>2. ArgsFit' /\ Debts'
    BY DEF ArgsFit, Debts
  <2>3. SoleCloser'
    BY DEF SoleCloser, Closing
  <2>4. RoleKnown' /\ GatherAnnounced'
    BY DEF RoleKnown, RoleBeforeChecks, GatherAnnounced
  <2> QED BY <2>1, <2>2, <2>3, <2>4
<1> QED BY <1>1, <1>2, <1>3, <1>4, <1>5, <1>6, <1>7, <1>8, <1>9, <1>10, <1>11, <1>12, <1>13, <1>14, <1>15, <1>16, <1>17, <1>18, <1>19, <1>20, <1>21, <1>22, <1>23, <1>24, <1>25, <1>26, <1>27, <1>28, <1>29, <1>30, <1>31 DEF Next, Step, DriverStep, Call, AgentEvent

(* The inductive invariant holds in every reachable state.                 *)
THEOREM Invariant == Safe => []IInv
  BY InitInvariant, StepInvariant, PTL DEF Safe

(* Every variable keeps its type, whoever calls what in which order.       *)
THEOREM TypeCorrect == Safe => []TypeOK
  BY Invariant, PTL DEF IInv

(* close() announces Closed at most once, however many threads close and   *)
(* although a late agent event may have moved the state off Closed.        *)
THEOREM ClosedOnce == Safe => []ClosedAtMostOnce
<1>1. IInv => ClosedAtMostOnce
  BY DEF IInv, SoleCloser, ClosedAtMostOnce
<1> QED BY <1>1, Invariant, PTL

(* The agent gets no remote description before the DTLS role is resolved.  *)
THEOREM RoleKnownFirst == Safe => []RoleBeforeChecks
<1>1. IInv => RoleBeforeChecks
  BY DEF IInv, RoleKnown
<1> QED BY <1>1, Invariant, PTL

(* No candidate, and no Complete, reaches the application before           *)
(* InProgress has.                                                         *)
THEOREM InProgressFirst == Safe => []InProgressBeforeCandidates
<1>1. IInv => InProgressBeforeCandidates
  BY DEF IInv, GatherAnnounced, InProgressBeforeCandidates
<1> QED BY <1>1, Invariant, PTL

(* The first description to take the role mutex decides the role for good. *)
THEOREM RoleOnce == Safe => RoleResolvedOnce
<1>1. IInv /\ [Next]_vars => [role' # role => role = "ActPass" /\ role' # "ActPass"]_vars
  <2> SUFFICES ASSUME IInv, [Next]_vars, role' # role
               PROVE  role = "ActPass" /\ role' # "ActPass"
    BY DEF vars, cells
  <2>1. \E t \in Thread : RemoteResolveRole(t)
    BY DEF Next, Step, DriverStep, Call, AgentEvent, vars, cells, NotifyClone, NotifyGathering, NotifyState, GatherAdvance, GatherCommand,
         RemoteRecordMid, RemoteCommand, TrickleCommand, RestartResetGathering,
         RestartResetState, CloseSetState, JuiceSetState, DoneComplete,
         CandidateReadMid, CandidateClone, CandidateCall, RecvClone, RecvCall,
         GatherCheckClosed, RemoteCheckClosed, TrickleCheckClosed,
         RestartCheckClosed, CloseSwapClosed, set_callbacks, JuiceStateEvent,
         JuiceGatheringDoneEvent, JuiceCandidateEvent, JuiceRecvEvent, AgentDies
  <2> QED BY <2>1 DEF RemoteResolveRole, ResolvedRole
<1> QED BY <1>1, Invariant, PTL DEF Safe, RoleResolvedOnce

-----------------------------------------------------------------------------
(* Refinement of Lifecycle by the ICE state: the three places that set it  *)
(* move the abstract status unless it is there already, NotifyState        *)
(* announces, and every other step stutters.                               *)

LEMMA SetStateMoves ==
  ASSUME IInv, NEW t \in Thread, NEW s \in State \ {"Disconnected"},
         owesState[t] = "none", SetState(t, s), UNCHANGED heard
  PROVE  [S!Next]_(S!vars)
<1>1. CASE state = s
  BY <1>1 DEF SetState, S!vars, IInv, TypeOK
<1>2. CASE state # s
  <2>1. <<state, s>> \in IceEdge
    BY <1>2 DEF IInv, TypeOK, ArgsFit, IceEdge
  <2>2. S!Move(t, s)
    BY <1>2, <2>1 DEF SetState, S!Move
  <2> QED BY <2>2 DEF S!Next
<1> QED BY <1>1, <1>2

LEMMA RefinesStateStep == IInv /\ [Next]_vars => [S!Next]_(S!vars)
<1> SUFFICES ASSUME IInv, [Next]_vars PROVE [S!Next]_(S!vars)
  OBVIOUS
<1> USE DEF IInv
<1>1. ASSUME NEW t \in Thread, NotifyState(t) PROVE S!Next
  <2>1. owesState[t] # "none"
    BY <1>1 DEF NotifyState, Goto, Debts
  <2>2. S!Announce(t)
    BY <1>1, <2>1 DEF NotifyState, S!Announce, cells
  <2> QED BY <2>2 DEF S!Next
<1>2. ASSUME NEW t \in Thread, RestartResetState(t) PROVE [S!Next]_(S!vars)
  <2>1. owesState[t] = "none" /\ SetState(t, "New") /\ UNCHANGED heard
    BY <1>2 DEF RestartResetState, Goto, Debts, history
  <2> QED BY <2>1, SetStateMoves DEF State
<1>3. ASSUME NEW t \in Thread, CloseSetState(t) PROVE [S!Next]_(S!vars)
  <2>1. owesState[t] = "none" /\ SetState(t, "Closed") /\ UNCHANGED heard
    BY <1>3 DEF CloseSetState, Goto, Debts, history
  <2> QED BY <2>1, SetStateMoves DEF State
<1>4. ASSUME JuiceSetState PROVE [S!Next]_(S!vars)
  <2>1. driver \in Thread
    BY DEF Thread
  <2>2. owesState[driver] = "none" /\ SetState(driver, arg[driver]) /\ UNCHANGED heard
    BY <1>4, <2>1 DEF JuiceSetState, Goto, Debts, history
  <2>3. arg[driver] \in State \ {"Disconnected"}
    BY <1>4 DEF JuiceSetState, Goto, ArgsFit
  <2> QED BY <2>1, <2>2, <2>3, SetStateMoves
<1>5. CASE ~ \/ \E t \in Thread : NotifyState(t) \/ RestartResetState(t) \/ CloseSetState(t)
             \/ JuiceSetState
  <2> SUFFICES UNCHANGED <<state, owesState, heard>>
    BY DEF S!vars
  <2>1. ASSUME NEW t \in Thread, Step(t) PROVE UNCHANGED <<state, owesState, heard>>
    BY <1>5, <2>1 DEF Step, cells, debts, history, NotifyClone, NotifyGathering, GatherAdvance, GatherCommand,
         RemoteResolveRole, RemoteRecordMid, RemoteCommand,
         TrickleCommand, RestartResetGathering
  <2>2. ASSUME DriverStep PROVE UNCHANGED <<state, owesState, heard>>
    BY <1>5, <2>2 DEF DriverStep, cells, debts, history, DoneComplete, CandidateReadMid, CandidateClone, CandidateCall,
         RecvClone, RecvCall
  <2>3. ASSUME NEW u \in User, Call(u) PROVE UNCHANGED <<state, owesState, heard>>
    BY <2>3 DEF Call, cells, debts, history, GatherCheckClosed, RemoteCheckClosed, TrickleCheckClosed,
         RestartCheckClosed, CloseSwapClosed, set_callbacks
  <2>4. ASSUME AgentEvent PROVE UNCHANGED <<state, owesState, heard>>
    BY <2>4 DEF AgentEvent, cells, debts, history, JuiceStateEvent, JuiceGatheringDoneEvent, JuiceCandidateEvent,
         JuiceRecvEvent, AgentDies
  <2>5. CASE UNCHANGED vars
    BY <2>5 DEF vars, cells, debts, history
  <2> QED BY <2>1, <2>2, <2>3, <2>4, <2>5 DEF Next
<1> QED BY <1>1, <1>2, <1>3, <1>4, <1>5

(* Safety half of AnnouncesEveryState: each change of the ICE state is     *)
(* announced once, by the thread that made it, before it makes another.    *)
THEOREM RefinesStateLifecycle == Safe => S!Safe
<1>1. Init => S!Init
  BY DEF Init, S!Init
<1> QED BY <1>1, RefinesStateStep, Invariant, PTL DEF Safe, S!Safe

-----------------------------------------------------------------------------
(* The same for the gathering state: it enters InProgress from New only.   *)

LEMMA SetGatheringMoves ==
  ASSUME IInv, NEW t \in Thread, NEW g \in GatheringState,
         owesGathering[t] = "none", SetGathering(t, g), UNCHANGED gatheringHeard,
         g = "InProgress" => gathering_state = "New"
  PROVE  [G!Next]_(G!vars)
<1>1. CASE gathering_state = g
  BY <1>1 DEF SetGathering, G!vars, IInv, TypeOK
<1>2. CASE gathering_state # g
  <2>1. <<gathering_state, g>> \in GatheringEdge
    BY <1>2 DEF IInv, TypeOK, GatheringEdge
  <2>2. G!Move(t, g)
    BY <1>2, <2>1 DEF SetGathering, G!Move
  <2> QED BY <2>2 DEF G!Next
<1> QED BY <1>1, <1>2

LEMMA RefinesGatheringStep == IInv /\ [Next]_vars => [G!Next]_(G!vars)
<1> SUFFICES ASSUME IInv, [Next]_vars PROVE [G!Next]_(G!vars)
  OBVIOUS
<1> USE DEF IInv
<1>1. ASSUME NEW t \in Thread, NotifyGathering(t) PROVE G!Next
  <2>1. G!Announce(t)
    BY <1>1 DEF NotifyGathering, G!Announce, cells
  <2> QED BY <2>1 DEF G!Next
<1>2. ASSUME NEW t \in Thread, GatherAdvance(t) PROVE [G!Next]_(G!vars)
  <2>1. owesGathering[t] = "none" /\ UNCHANGED gatheringHeard
    BY <1>2 DEF GatherAdvance, Goto, Debts, history
  <2>2. CASE gathering_state = "New"
    BY <1>2, <2>1, <2>2, SetGatheringMoves DEF GatherAdvance, GatheringState
  <2>3. CASE gathering_state # "New"
    BY <1>2, <2>1, <2>3 DEF GatherAdvance, G!vars
  <2> QED BY <2>2, <2>3
<1>3. ASSUME NEW t \in Thread, RestartResetGathering(t) PROVE [G!Next]_(G!vars)
  <2>1. owesGathering[t] = "none" /\ SetGathering(t, "New") /\ UNCHANGED gatheringHeard
    BY <1>3 DEF RestartResetGathering, Goto, Debts, history
  <2> QED BY <2>1, SetGatheringMoves DEF GatheringState
<1>4. ASSUME DoneComplete PROVE [G!Next]_(G!vars)
  <2>1. driver \in Thread
    BY DEF Thread
  <2>2. owesGathering[driver] = "none" /\ SetGathering(driver, "Complete") /\ UNCHANGED gatheringHeard
    BY <1>4, <2>1 DEF DoneComplete, Goto, Debts, history
  <2> QED BY <2>1, <2>2, SetGatheringMoves DEF GatheringState
<1>5. CASE ~ \/ \E t \in Thread : NotifyGathering(t) \/ GatherAdvance(t) \/ RestartResetGathering(t)
             \/ DoneComplete
  <2> SUFFICES UNCHANGED <<gathering_state, owesGathering, gatheringHeard>>
    BY DEF G!vars
  <2>1. ASSUME NEW t \in Thread, Step(t) PROVE UNCHANGED <<gathering_state, owesGathering, gatheringHeard>>
    BY <1>5, <2>1 DEF Step, cells, debts, history, NotifyClone, NotifyState, GatherCommand, RemoteResolveRole,
         RemoteRecordMid, RemoteCommand, TrickleCommand,
         RestartResetState, CloseSetState
  <2>2. ASSUME DriverStep PROVE UNCHANGED <<gathering_state, owesGathering, gatheringHeard>>
    BY <1>5, <2>2 DEF DriverStep, cells, debts, history, JuiceSetState, CandidateReadMid, CandidateClone, CandidateCall,
         RecvClone, RecvCall
  <2>3. ASSUME NEW u \in User, Call(u) PROVE UNCHANGED <<gathering_state, owesGathering, gatheringHeard>>
    BY <2>3 DEF Call, cells, debts, history, GatherCheckClosed, RemoteCheckClosed, TrickleCheckClosed,
         RestartCheckClosed, CloseSwapClosed, set_callbacks
  <2>4. ASSUME AgentEvent PROVE UNCHANGED <<gathering_state, owesGathering, gatheringHeard>>
    BY <2>4 DEF AgentEvent, cells, debts, history, JuiceStateEvent, JuiceGatheringDoneEvent, JuiceCandidateEvent,
         JuiceRecvEvent, AgentDies
  <2>5. CASE UNCHANGED vars
    BY <2>5 DEF vars, cells, debts, history
  <2> QED BY <2>1, <2>2, <2>3, <2>4, <2>5 DEF Next
<1> QED BY <1>1, <1>2, <1>3, <1>4, <1>5

(* Safety half of AnnouncesEveryGathering.                                 *)
THEOREM RefinesGatheringLifecycle == Safe => G!Safe
<1>1. Init => G!Init
  BY DEF Init, G!Init
<1> QED BY <1>1, RefinesGatheringStep, Invariant, PTL DEF Safe, G!Safe

(* What the promise gives for the ICE state: nobody is left believing in a *)
(* value that nobody is about to correct.                                  *)
LEMMA StateCoveredStays ==
  ASSUME S!TypeOK, S!Covered, [S!Next]_(S!vars)
  PROVE  S!TypeOK' /\ S!Covered'
<1>1. ASSUME NEW a \in Thread, S!Announce(a) PROVE S!TypeOK' /\ S!Covered'
  BY <1>1 DEF S!Announce, S!Covered, S!TypeOK
<1>2. ASSUME NEW a \in Thread, NEW s \in State, S!Move(a, s) PROVE S!TypeOK' /\ S!Covered'
  BY <1>2 DEF S!Move, S!Covered, S!TypeOK
<1>3. CASE UNCHANGED S!vars
  BY <1>3 DEF S!vars, S!Covered, S!TypeOK
<1> QED BY <1>1, <1>2, <1>3 DEF S!Next

(* Covered, for the ICE state: the value the cell holds has been           *)
(* announced, or the thread that set it still owes the announcement.       *)
THEOREM StateCovered == Safe => []S!Covered
<1>1. S!Init => S!TypeOK /\ S!Covered
  BY DEF S!Init, S!TypeOK, S!Covered, State
<1> QED BY <1>1, RefinesStateLifecycle, StateCoveredStays, PTL DEF S!Safe

(* What the promise gives for the gathering state: nobody is left          *)
(* believing in a value that nobody is about to correct.                   *)
LEMMA GatheringCoveredStays ==
  ASSUME G!TypeOK, G!Covered, [G!Next]_(G!vars)
  PROVE  G!TypeOK' /\ G!Covered'
<1>1. ASSUME NEW a \in Thread, G!Announce(a) PROVE G!TypeOK' /\ G!Covered'
  BY <1>1 DEF G!Announce, G!Covered, G!TypeOK
<1>2. ASSUME NEW a \in Thread, NEW s \in GatheringState, G!Move(a, s) PROVE G!TypeOK' /\ G!Covered'
  BY <1>2 DEF G!Move, G!Covered, G!TypeOK
<1>3. CASE UNCHANGED G!vars
  BY <1>3 DEF G!vars, G!Covered, G!TypeOK
<1> QED BY <1>1, <1>2, <1>3 DEF G!Next

(* Covered, for the gathering state: the value the cell holds has been     *)
(* announced, or the thread that set it still owes the announcement.       *)
THEOREM GatheringCovered == Safe => []G!Covered
<1>1. G!Init => G!TypeOK /\ G!Covered
  BY DEF G!Init, G!TypeOK, G!Covered, GatheringState
<1> QED BY <1>1, RefinesGatheringLifecycle, GatheringCoveredStays, PTL DEF G!Safe
=============================================================================

------------------------ MODULE SctpTransport_proofs ------------------------
(***************************************************************************)
(* What holds of SctpTransport for every set of threads and callback sets. *)
(* The invariants TLC checks are not inductive: they follow from who may   *)
(* be where in connect() and close() at the same time, stated here.        *)
(***************************************************************************)
EXTENDS SctpTransport, TLAPS

\* Past the started swap of connect(), past the closed swap of close().
ConnectPast == {"connect:cas state", "connect:associate", "connect:clone", "connect:call"}
ClosePast == {"close:swap state", "close:clone", "close:call", "close:dissociate"}

\* Debtors: threads that have changed the status and not announced it.
OwesConnecting == {"connect:associate", "connect:clone", "connect:call"}
OwesClosed == {"close:clone", "close:call"}

SoleConnector ==
  /\ \A t \in Thread : pc[t] \in ConnectPast => started
  /\ \A t, u \in Thread : pc[t] \in ConnectPast /\ pc[u] \in ConnectPast => t = u

SoleCloser ==
  /\ \A t \in Thread : pc[t] \in ClosePast => closed
  /\ \A t, u \in Thread : pc[t] \in ClosePast /\ pc[u] \in ClosePast => t = u

StateFollowsFlags ==
  /\ state \in {"New", "Connecting", "Closed"}
  /\ state = "Connecting" => started
  /\ state = "Closed" => closed
  /\ \A t \in Thread : /\ pc[t] = "connect:cas state" => state # "Connecting"
                       /\ pc[t] \in OwesConnecting => state # "New"
                       /\ pc[t] = "close:swap state" => state # "Closed"
                       /\ pc[t] \in OwesClosed => state = "Closed"

NotHeardYet ==
  /\ Heard \subseteq {"Connecting", "Closed"}
  /\ ~started => "Connecting" \notin Heard
  /\ state # "Closed" => "Closed" \notin Heard
  /\ \A t \in Thread : /\ pc[t] \in ConnectPast => "Connecting" \notin Heard
                       /\ pc[t] \in OwesClosed => "Closed" \notin Heard

Accounted ==
  /\ state = "Connecting" => "Connecting" \in Heard \/ \E t \in Thread : pc[t] \in OwesConnecting
  /\ state = "Closed" => "Closed" \in Heard \/ \E t \in Thread : pc[t] \in OwesClosed
  /\ associated => "Connecting" \in Heard \/ \E t \in Thread : pc[t] \in OwesConnecting

IInv ==
  /\ TypeOK
  /\ SoleConnector
  /\ SoleCloser
  /\ StateFollowsFlags
  /\ NotHeardYet
  /\ Accounted
  /\ AnnouncedOnce
  /\ \A t \in Thread : verdict[t] # "NotImplemented"

-----------------------------------------------------------------------------
(* A call of on_state_change adds its status to what was heard, and adds   *)
(* no second announcement of a status if it is new.                        *)
LEMMA CallIsHeard ==
  ASSUME NEW l \in Listener, NEW s \in SctpState,
         told \in Seq([to : Listener, status : SctpState]),
         told' = Append(told, [to |-> l, status |-> s])
  PROVE  /\ Heard' = Heard \cup {s}
         /\ told' \in Seq([to : Listener, status : SctpState])
         /\ (AnnouncedOnce /\ s \notin Heard) => AnnouncedOnce'
<1> DEFINE e == [to |-> l, status |-> s]
           n == Len(told)
<1>1. e \in [to : Listener, status : SctpState] /\ e.status = s
  OBVIOUS
<1>2. /\ told' \in Seq([to : Listener, status : SctpState])
      /\ n \in Nat
      /\ DOMAIN told = 1..n
      /\ DOMAIN told' = 1..(n + 1)
      /\ \A i \in 1..n : told'[i] = told[i]
      /\ told'[n + 1] = e
  BY <1>1
<1>3. Heard' = Heard \cup {s}
  <2>1. ASSUME NEW x \in Heard' PROVE x \in Heard \cup {s}
    <3>1. PICK i \in 1..(n + 1) : x = told'[i].status
      BY <1>2 DEF Heard
    <3>2. CASE i = n + 1
      BY <3>1, <3>2, <1>1, <1>2
    <3>3. CASE i # n + 1
      <4>1. i \in 1..n
        BY <3>3, <1>2
      <4> QED BY <4>1, <3>1, <1>2 DEF Heard
    <3> QED BY <3>2, <3>3
  <2>2. ASSUME NEW x \in Heard PROVE x \in Heard'
    <3>1. PICK i \in 1..n : x = told[i].status
      BY <1>2 DEF Heard
    <3>2. i \in 1..(n + 1) /\ x = told'[i].status
      BY <3>1, <1>2
    <3> QED BY <3>2, <1>2 DEF Heard
  <2>3. s \in Heard'
    <3>1. n + 1 \in 1..(n + 1) /\ s = told'[n + 1].status
      BY <1>1, <1>2
    <3> QED BY <3>1, <1>2 DEF Heard
  <2> QED BY <2>1, <2>2, <2>3
<1>4. ASSUME AnnouncedOnce, s \notin Heard
      PROVE  AnnouncedOnce'
  <2> SUFFICES ASSUME NEW i \in 1..(n + 1), NEW j \in 1..(n + 1),
                      told'[i].status = told'[j].status
               PROVE  i = j
    BY <1>2 DEF AnnouncedOnce
  <2>1. CASE i \in 1..n /\ j \in 1..n
    BY <2>1, <1>4, <1>2 DEF AnnouncedOnce
  <2>2. \A k \in 1..n : told[k].status # s
    BY <1>4, <1>2 DEF Heard
  <2>3. CASE i = n + 1 \/ j = n + 1
    BY <2>2, <2>3, <1>1, <1>2
  <2> QED BY <2>1, <2>3, <1>2
<1> QED BY <1>2, <1>3, <1>4

LEMMA InitInvariant == Init => IInv
<1> SUFFICES ASSUME Init PROVE IInv
  OBVIOUS
<1>1. Heard = {} /\ AnnouncedOnce
  BY DEF Init, Heard, AnnouncedOnce
<1>2. TypeOK
  <2>1. told \in Seq([to : Listener, status : SctpState])
    BY DEF Init
  <2> QED BY <2>1 DEF Init, TypeOK, Label, SctpState, Verdict
<1>3. /\ SoleConnector /\ SoleCloser /\ StateFollowsFlags /\ NotHeardYet /\ Accounted
      /\ \A t \in Thread : verdict[t] # "NotImplemented"
  BY <1>1 DEF Init, SoleConnector, SoleCloser, StateFollowsFlags, NotHeardYet, Accounted,
              ConnectPast, ClosePast, OwesConnecting, OwesClosed
<1> QED BY <1>1, <1>2, <1>3 DEF IInv

LEMMA StepInvariant == IInv /\ [Next]_vars => IInv'
<1> SUFFICES ASSUME IInv, [Next]_vars PROVE IInv'
  OBVIOUS
<1> USE DEF IInv
<1>1. ASSUME NEW t \in Thread, ConnectCheckClosed(t) PROVE IInv'
  <2>1. Heard' = Heard /\ AnnouncedOnce'
    BY <1>1 DEF ConnectCheckClosed, Heard, AnnouncedOnce
  <2>2. TypeOK'
    BY <1>1 DEF ConnectCheckClosed, Goto, TypeOK, Label, SctpState, Verdict
  <2>3. SoleConnector' /\ SoleCloser'
    BY <1>1 DEF ConnectCheckClosed, Goto, TypeOK, StateFollowsFlags, SoleConnector, SoleCloser, ConnectPast, ClosePast
  <2>4. StateFollowsFlags' /\ NotHeardYet' /\ Accounted'
    BY <1>1, <2>1 DEF ConnectCheckClosed, Goto, TypeOK, SoleConnector, SoleCloser, StateFollowsFlags, NotHeardYet, Accounted,
         ConnectPast, ClosePast, OwesConnecting, OwesClosed
  <2>5. \A u \in Thread : verdict'[u] # "NotImplemented"
    BY <1>1 DEF ConnectCheckClosed, TypeOK, StateFollowsFlags
  <2> QED BY <2>1, <2>2, <2>3, <2>4, <2>5
<1>2. ASSUME NEW t \in Thread, ConnectSwapStarted(t) PROVE IInv'
  <2>1. Heard' = Heard /\ AnnouncedOnce'
    BY <1>2 DEF ConnectSwapStarted, Heard, AnnouncedOnce
  <2>2. TypeOK'
    BY <1>2 DEF ConnectSwapStarted, Goto, TypeOK, Label, SctpState, Verdict
  <2>3. SoleConnector' /\ SoleCloser'
    BY <1>2 DEF ConnectSwapStarted, Goto, TypeOK, StateFollowsFlags, SoleConnector, SoleCloser, ConnectPast, ClosePast
  <2>4. StateFollowsFlags' /\ NotHeardYet' /\ Accounted'
    BY <1>2, <2>1 DEF ConnectSwapStarted, Goto, TypeOK, SoleConnector, SoleCloser, StateFollowsFlags, NotHeardYet, Accounted,
         ConnectPast, ClosePast, OwesConnecting, OwesClosed
  <2>5. \A u \in Thread : verdict'[u] # "NotImplemented"
    BY <1>2 DEF ConnectSwapStarted, TypeOK, StateFollowsFlags
  <2> QED BY <2>1, <2>2, <2>3, <2>4, <2>5
<1>3. ASSUME NEW t \in Thread, ConnectCas(t) PROVE IInv'
  <2>1. Heard' = Heard /\ AnnouncedOnce'
    BY <1>3 DEF ConnectCas, Heard, AnnouncedOnce
  <2>2. TypeOK'
    BY <1>3 DEF ConnectCas, Goto, TypeOK, Label, SctpState, Verdict
  <2>3. SoleConnector' /\ SoleCloser'
    BY <1>3 DEF ConnectCas, Goto, TypeOK, StateFollowsFlags, SoleConnector, SoleCloser, ConnectPast, ClosePast
  <2>4. StateFollowsFlags' /\ NotHeardYet' /\ Accounted'
    BY <1>3, <2>1 DEF ConnectCas, Goto, TypeOK, SoleConnector, SoleCloser, StateFollowsFlags, NotHeardYet, Accounted,
         ConnectPast, ClosePast, OwesConnecting, OwesClosed
  <2>5. \A u \in Thread : verdict'[u] # "NotImplemented"
    BY <1>3 DEF ConnectCas, TypeOK, StateFollowsFlags
  <2> QED BY <2>1, <2>2, <2>3, <2>4, <2>5
<1>4. ASSUME NEW t \in Thread, ConnectAssociate(t) PROVE IInv'
  <2>1. Heard' = Heard /\ AnnouncedOnce'
    BY <1>4 DEF ConnectAssociate, Heard, AnnouncedOnce
  <2>2. TypeOK'
    BY <1>4 DEF ConnectAssociate, Goto, TypeOK, Label, SctpState, Verdict
  <2>3. SoleConnector' /\ SoleCloser'
    BY <1>4 DEF ConnectAssociate, Goto, TypeOK, StateFollowsFlags, SoleConnector, SoleCloser, ConnectPast, ClosePast
  <2>4. StateFollowsFlags' /\ NotHeardYet' /\ Accounted'
    BY <1>4, <2>1 DEF ConnectAssociate, Goto, TypeOK, SoleConnector, SoleCloser, StateFollowsFlags, NotHeardYet, Accounted,
         ConnectPast, ClosePast, OwesConnecting, OwesClosed
  <2>5. \A u \in Thread : verdict'[u] # "NotImplemented"
    BY <1>4 DEF ConnectAssociate, TypeOK, StateFollowsFlags
  <2> QED BY <2>1, <2>2, <2>3, <2>4, <2>5
<1>5. ASSUME NEW t \in Thread, ConnectClone(t) PROVE IInv'
  <2>1. Heard' = Heard /\ AnnouncedOnce'
    BY <1>5 DEF ConnectClone, Heard, AnnouncedOnce
  <2>2. TypeOK'
    BY <1>5 DEF ConnectClone, Goto, TypeOK, Label, SctpState, Verdict
  <2>3. SoleConnector' /\ SoleCloser'
    BY <1>5 DEF ConnectClone, Goto, TypeOK, StateFollowsFlags, SoleConnector, SoleCloser, ConnectPast, ClosePast
  <2>4. StateFollowsFlags' /\ NotHeardYet' /\ Accounted'
    BY <1>5, <2>1 DEF ConnectClone, Goto, TypeOK, SoleConnector, SoleCloser, StateFollowsFlags, NotHeardYet, Accounted,
         ConnectPast, ClosePast, OwesConnecting, OwesClosed
  <2>5. \A u \in Thread : verdict'[u] # "NotImplemented"
    BY <1>5 DEF ConnectClone, TypeOK, StateFollowsFlags
  <2> QED BY <2>1, <2>2, <2>3, <2>4, <2>5
<1>6. ASSUME NEW t \in Thread, CloseSwapClosed(t) PROVE IInv'
  <2>1. Heard' = Heard /\ AnnouncedOnce'
    BY <1>6 DEF CloseSwapClosed, Heard, AnnouncedOnce
  <2>2. TypeOK'
    BY <1>6 DEF CloseSwapClosed, Goto, TypeOK, Label, SctpState, Verdict
  <2>3. SoleConnector' /\ SoleCloser'
    BY <1>6 DEF CloseSwapClosed, Goto, TypeOK, StateFollowsFlags, SoleConnector, SoleCloser, ConnectPast, ClosePast
  <2>4. StateFollowsFlags' /\ NotHeardYet' /\ Accounted'
    BY <1>6, <2>1 DEF CloseSwapClosed, Goto, TypeOK, SoleConnector, SoleCloser, StateFollowsFlags, NotHeardYet, Accounted,
         ConnectPast, ClosePast, OwesConnecting, OwesClosed
  <2>5. \A u \in Thread : verdict'[u] # "NotImplemented"
    BY <1>6 DEF CloseSwapClosed, TypeOK, StateFollowsFlags
  <2> QED BY <2>1, <2>2, <2>3, <2>4, <2>5
<1>7. ASSUME NEW t \in Thread, CloseSwapState(t) PROVE IInv'
  <2>1. Heard' = Heard /\ AnnouncedOnce'
    BY <1>7 DEF CloseSwapState, Heard, AnnouncedOnce
  <2>2. TypeOK'
    BY <1>7 DEF CloseSwapState, Goto, TypeOK, Label, SctpState, Verdict
  <2>3. SoleConnector' /\ SoleCloser'
    BY <1>7 DEF CloseSwapState, Goto, TypeOK, StateFollowsFlags, SoleConnector, SoleCloser, ConnectPast, ClosePast
  <2>4. StateFollowsFlags' /\ NotHeardYet' /\ Accounted'
    BY <1>7, <2>1 DEF CloseSwapState, Goto, TypeOK, SoleConnector, SoleCloser, StateFollowsFlags, NotHeardYet, Accounted,
         ConnectPast, ClosePast, OwesConnecting, OwesClosed
  <2>5. \A u \in Thread : verdict'[u] # "NotImplemented"
    BY <1>7 DEF CloseSwapState, TypeOK, StateFollowsFlags
  <2> QED BY <2>1, <2>2, <2>3, <2>4, <2>5
<1>8. ASSUME NEW t \in Thread, CloseClone(t) PROVE IInv'
  <2>1. Heard' = Heard /\ AnnouncedOnce'
    BY <1>8 DEF CloseClone, Heard, AnnouncedOnce
  <2>2. TypeOK'
    BY <1>8 DEF CloseClone, Goto, TypeOK, Label, SctpState, Verdict
  <2>3. SoleConnector' /\ SoleCloser'
    BY <1>8 DEF CloseClone, Goto, TypeOK, StateFollowsFlags, SoleConnector, SoleCloser, ConnectPast, ClosePast
  <2>4. StateFollowsFlags' /\ NotHeardYet' /\ Accounted'
    BY <1>8, <2>1 DEF CloseClone, Goto, TypeOK, SoleConnector, SoleCloser, StateFollowsFlags, NotHeardYet, Accounted,
         ConnectPast, ClosePast, OwesConnecting, OwesClosed
  <2>5. \A u \in Thread : verdict'[u] # "NotImplemented"
    BY <1>8 DEF CloseClone, TypeOK, StateFollowsFlags
  <2> QED BY <2>1, <2>2, <2>3, <2>4, <2>5
<1>9. ASSUME NEW t \in Thread, CloseDissociate(t) PROVE IInv'
  <2>1. Heard' = Heard /\ AnnouncedOnce'
    BY <1>9 DEF CloseDissociate, Heard, AnnouncedOnce
  <2>2. TypeOK'
    BY <1>9 DEF CloseDissociate, Goto, TypeOK, Label, SctpState, Verdict
  <2>3. SoleConnector' /\ SoleCloser'
    BY <1>9 DEF CloseDissociate, Goto, TypeOK, StateFollowsFlags, SoleConnector, SoleCloser, ConnectPast, ClosePast
  <2>4. StateFollowsFlags' /\ NotHeardYet' /\ Accounted'
    BY <1>9, <2>1 DEF CloseDissociate, Goto, TypeOK, SoleConnector, SoleCloser, StateFollowsFlags, NotHeardYet, Accounted,
         ConnectPast, ClosePast, OwesConnecting, OwesClosed
  <2>5. \A u \in Thread : verdict'[u] # "NotImplemented"
    BY <1>9 DEF CloseDissociate, TypeOK, StateFollowsFlags
  <2> QED BY <2>1, <2>2, <2>3, <2>4, <2>5
<1>10. ASSUME NEW t \in Thread, SendCheckClosed(t) PROVE IInv'
  <2>1. Heard' = Heard /\ AnnouncedOnce'
    BY <1>10 DEF SendCheckClosed, Heard, AnnouncedOnce
  <2>2. TypeOK'
    BY <1>10 DEF SendCheckClosed, Goto, TypeOK, Label, SctpState, Verdict
  <2>3. SoleConnector' /\ SoleCloser'
    BY <1>10 DEF SendCheckClosed, Goto, TypeOK, StateFollowsFlags, SoleConnector, SoleCloser, ConnectPast, ClosePast
  <2>4. StateFollowsFlags' /\ NotHeardYet' /\ Accounted'
    BY <1>10, <2>1 DEF SendCheckClosed, Goto, TypeOK, SoleConnector, SoleCloser, StateFollowsFlags, NotHeardYet, Accounted,
         ConnectPast, ClosePast, OwesConnecting, OwesClosed
  <2>5. \A u \in Thread : verdict'[u] # "NotImplemented"
    BY <1>10 DEF SendCheckClosed, TypeOK, StateFollowsFlags
  <2> QED BY <2>1, <2>2, <2>3, <2>4, <2>5
<1>11. ASSUME NEW t \in Thread, SendLoadState(t) PROVE IInv'
  <2>1. Heard' = Heard /\ AnnouncedOnce'
    BY <1>11 DEF SendLoadState, Heard, AnnouncedOnce
  <2>2. TypeOK'
    BY <1>11 DEF SendLoadState, Goto, TypeOK, Label, SctpState, Verdict
  <2>3. SoleConnector' /\ SoleCloser'
    BY <1>11 DEF SendLoadState, Goto, TypeOK, StateFollowsFlags, SoleConnector, SoleCloser, ConnectPast, ClosePast
  <2>4. StateFollowsFlags' /\ NotHeardYet' /\ Accounted'
    BY <1>11, <2>1 DEF SendLoadState, Goto, TypeOK, SoleConnector, SoleCloser, StateFollowsFlags, NotHeardYet, Accounted,
         ConnectPast, ClosePast, OwesConnecting, OwesClosed
  <2>5. \A u \in Thread : verdict'[u] # "NotImplemented"
    BY <1>11 DEF SendLoadState, TypeOK, StateFollowsFlags
  <2> QED BY <2>1, <2>2, <2>3, <2>4, <2>5
<1>12. ASSUME NEW t \in Thread, ConnectCall(t) PROVE IInv'
  <2>1. /\ Heard' = Heard \cup {"Connecting"}
        /\ AnnouncedOnce'
        /\ told' \in Seq([to : Listener, status : SctpState])
    <3>1. clone[t] \in Listener /\ "Connecting" \in SctpState /\ "Connecting" \notin Heard
      BY <1>12 DEF ConnectCall, Goto, TypeOK, SctpState, NotHeardYet, ConnectPast, OwesClosed
    <3>2. told' = Append(told, [to |-> clone[t], status |-> "Connecting"])
      BY <1>12 DEF ConnectCall
    <3> QED BY <3>1, <3>2, CallIsHeard DEF TypeOK
  <2>2. TypeOK'
    BY <1>12, <2>1 DEF ConnectCall, Goto, TypeOK, Label, SctpState, Verdict
  <2>3. SoleConnector' /\ SoleCloser'
    BY <1>12 DEF ConnectCall, Goto, TypeOK, SoleConnector, SoleCloser, ConnectPast, ClosePast
  <2>4. StateFollowsFlags' /\ NotHeardYet' /\ Accounted'
    BY <1>12, <2>1 DEF ConnectCall, Goto, TypeOK, SoleConnector, SoleCloser, StateFollowsFlags, NotHeardYet, Accounted,
         ConnectPast, ClosePast, OwesConnecting, OwesClosed
  <2> QED BY <1>12, <2>1, <2>2, <2>3, <2>4 DEF ConnectCall
<1>13. ASSUME NEW t \in Thread, CloseCall(t) PROVE IInv'
  <2>1. /\ Heard' = Heard \cup {"Closed"}
        /\ AnnouncedOnce'
        /\ told' \in Seq([to : Listener, status : SctpState])
    <3>1. clone[t] \in Listener /\ "Closed" \in SctpState /\ "Closed" \notin Heard
      BY <1>13 DEF CloseCall, Goto, TypeOK, SctpState, NotHeardYet, ConnectPast, OwesClosed
    <3>2. told' = Append(told, [to |-> clone[t], status |-> "Closed"])
      BY <1>13 DEF CloseCall
    <3> QED BY <3>1, <3>2, CallIsHeard DEF TypeOK
  <2>2. TypeOK'
    BY <1>13, <2>1 DEF CloseCall, Goto, TypeOK, Label, SctpState, Verdict
  <2>3. SoleConnector' /\ SoleCloser'
    BY <1>13 DEF CloseCall, Goto, TypeOK, SoleConnector, SoleCloser, ConnectPast, ClosePast
  <2>4. StateFollowsFlags'
    BY <1>13 DEF CloseCall, Goto, TypeOK, StateFollowsFlags, OwesConnecting, OwesClosed
  <2>5. NotHeardYet'
    BY <1>13, <2>1 DEF CloseCall, Goto, TypeOK, StateFollowsFlags, NotHeardYet, SoleCloser,
       ConnectPast, ClosePast, OwesClosed
  <2>6. Accounted'
    BY <1>13, <2>1 DEF CloseCall, Goto, TypeOK, Accounted, OwesConnecting, OwesClosed
  <2> QED BY <1>13, <2>1, <2>2, <2>3, <2>4, <2>5, <2>6 DEF CloseCall
<1>14. ASSUME NEW t \in Thread, NEW l \in Listener, set_callbacks(t, l) PROVE IInv'
  BY <1>14 DEF set_callbacks, TypeOK, Heard, AnnouncedOnce, SoleConnector, SoleCloser, StateFollowsFlags, NotHeardYet, Accounted,
         ConnectPast, ClosePast, OwesConnecting, OwesClosed
<1>15. CASE UNCHANGED vars
  BY <1>15 DEF vars, TypeOK, Heard, AnnouncedOnce, SoleConnector, SoleCloser, StateFollowsFlags, NotHeardYet, Accounted,
         ConnectPast, ClosePast, OwesConnecting, OwesClosed
<1> QED BY <1>1, <1>2, <1>3, <1>4, <1>5, <1>6, <1>7, <1>8, <1>9, <1>10, <1>11, <1>12, <1>13, <1>14, <1>15 DEF Next, Step, Call

(* The inductive invariant holds in every reachable state.                 *)
THEOREM Invariant == Safe => []IInv
  BY InitInvariant, StepInvariant, PTL DEF Safe

(* Every variable keeps its type, whoever calls what in which order.       *)
THEOREM TypeCorrect == Safe => []TypeOK
  BY Invariant, PTL DEF IInv

(* No status is announced twice: close() fires Closed at most once and     *)
(* connect() fires Connecting at most once under any race.                 *)
THEOREM AnnouncesOnce == Safe => []AnnouncedOnce
  BY Invariant, PTL DEF IInv

(* Outside every call the application has heard the status it can read.    *)
THEOREM QuiescentHeard == Safe => []QuiescentIsHeard
<1>1. IInv => QuiescentIsHeard
  BY DEF IInv, StateFollowsFlags, Accounted, QuiescentIsHeard, OwesConnecting, OwesClosed
<1> QED BY <1>1, Invariant, PTL

(* A closed association never comes back: connect() only moves New.        *)
THEOREM ClosedStays == Safe => ClosedIsFinal
<1>1. IInv /\ [Next]_vars => [state = "Closed" => state' = "Closed"]_vars
  BY DEF Next, Step, Call, vars, ConnectCheckClosed, ConnectSwapStarted, ConnectCas,
         ConnectAssociate, ConnectClone, ConnectCall, CloseSwapClosed, CloseSwapState,
         CloseClone, CloseCall, CloseDissociate, SendCheckClosed, SendLoadState, set_callbacks
<1> QED BY <1>1, Invariant, PTL DEF Safe, ClosedIsFinal

-----------------------------------------------------------------------------
(* Refinement of Lifecycle: the step that changes the status is a Move,    *)
(* the call of on_state_change an Announce, and every other step stutters. *)

LEMMA RefinesInit == Init => L!Init
<1> SUFFICES ASSUME Init PROVE L!Init
  OBVIOUS
<1>1. Heard = {} /\ \A t \in Thread : Owes(t) = "nothing"
  BY DEF Init, Heard, Owes
<1> QED BY <1>1 DEF Init, L!Init

LEMMA RefinesStep == IInv /\ [Next]_vars => [L!Next]_(L!vars)
<1> SUFFICES ASSUME IInv, [Next]_vars PROVE [L!Next]_(L!vars)
  OBVIOUS
<1> DEFINE owed == [t \in Thread |-> Owes(t)]
<1> USE DEF IInv
<1>1. ASSUME NEW t \in Thread, ConnectCheckClosed(t) PROVE UNCHANGED L!vars
  <2>1. Heard' = Heard /\ state' = state
    BY <1>1 DEF ConnectCheckClosed, Heard
  <2>2. \A u \in Thread : Owes(u)' = Owes(u)
    BY <1>1 DEF ConnectCheckClosed, Goto, TypeOK, Owes
  <2> QED BY <2>1, <2>2 DEF L!vars
<1>2. ASSUME NEW t \in Thread, ConnectSwapStarted(t) PROVE UNCHANGED L!vars
  <2>1. Heard' = Heard /\ state' = state
    BY <1>2 DEF ConnectSwapStarted, Heard
  <2>2. \A u \in Thread : Owes(u)' = Owes(u)
    BY <1>2 DEF ConnectSwapStarted, Goto, TypeOK, Owes
  <2> QED BY <2>1, <2>2 DEF L!vars
<1>3. ASSUME NEW t \in Thread, ConnectAssociate(t) PROVE UNCHANGED L!vars
  <2>1. Heard' = Heard /\ state' = state
    BY <1>3 DEF ConnectAssociate, Heard
  <2>2. \A u \in Thread : Owes(u)' = Owes(u)
    BY <1>3 DEF ConnectAssociate, Goto, TypeOK, Owes
  <2> QED BY <2>1, <2>2 DEF L!vars
<1>4. ASSUME NEW t \in Thread, ConnectClone(t) PROVE UNCHANGED L!vars
  <2>1. Heard' = Heard /\ state' = state
    BY <1>4 DEF ConnectClone, Heard
  <2>2. \A u \in Thread : Owes(u)' = Owes(u)
    BY <1>4 DEF ConnectClone, Goto, TypeOK, Owes
  <2> QED BY <2>1, <2>2 DEF L!vars
<1>5. ASSUME NEW t \in Thread, CloseSwapClosed(t) PROVE UNCHANGED L!vars
  <2>1. Heard' = Heard /\ state' = state
    BY <1>5 DEF CloseSwapClosed, Heard
  <2>2. \A u \in Thread : Owes(u)' = Owes(u)
    BY <1>5 DEF CloseSwapClosed, Goto, TypeOK, Owes
  <2> QED BY <2>1, <2>2 DEF L!vars
<1>6. ASSUME NEW t \in Thread, CloseClone(t) PROVE UNCHANGED L!vars
  <2>1. Heard' = Heard /\ state' = state
    BY <1>6 DEF CloseClone, Heard
  <2>2. \A u \in Thread : Owes(u)' = Owes(u)
    BY <1>6 DEF CloseClone, Goto, TypeOK, Owes
  <2> QED BY <2>1, <2>2 DEF L!vars
<1>7. ASSUME NEW t \in Thread, CloseDissociate(t) PROVE UNCHANGED L!vars
  <2>1. Heard' = Heard /\ state' = state
    BY <1>7 DEF CloseDissociate, Heard
  <2>2. \A u \in Thread : Owes(u)' = Owes(u)
    BY <1>7 DEF CloseDissociate, Goto, TypeOK, Owes
  <2> QED BY <2>1, <2>2 DEF L!vars
<1>8. ASSUME NEW t \in Thread, SendCheckClosed(t) PROVE UNCHANGED L!vars
  <2>1. Heard' = Heard /\ state' = state
    BY <1>8 DEF SendCheckClosed, Heard
  <2>2. \A u \in Thread : Owes(u)' = Owes(u)
    BY <1>8 DEF SendCheckClosed, Goto, TypeOK, Owes
  <2> QED BY <2>1, <2>2 DEF L!vars
<1>9. ASSUME NEW t \in Thread, SendLoadState(t) PROVE UNCHANGED L!vars
  <2>1. Heard' = Heard /\ state' = state
    BY <1>9 DEF SendLoadState, Heard
  <2>2. \A u \in Thread : Owes(u)' = Owes(u)
    BY <1>9 DEF SendLoadState, Goto, TypeOK, Owes
  <2> QED BY <2>1, <2>2 DEF L!vars
<1>10. ASSUME NEW t \in Thread, NEW l \in Listener, set_callbacks(t, l) PROVE UNCHANGED L!vars
  <2>1. Heard' = Heard /\ state' = state /\ \A u \in Thread : Owes(u)' = Owes(u)
    BY <1>10 DEF set_callbacks, Heard, Owes
  <2> QED BY <2>1 DEF L!vars
<1>11. ASSUME NEW t \in Thread, ConnectCas(t) PROVE L!Next \/ UNCHANGED L!vars
  <2>1. Heard' = Heard /\ Owes(t) = "nothing"
    BY <1>11 DEF ConnectCas, Heard, Goto, Owes
  <2>2. \A u \in Thread : u # t => Owes(u)' = Owes(u)
    BY <1>11 DEF ConnectCas, Goto, TypeOK, Owes
  <2>3. CASE state # "New"
    <3>1. state' = state /\ Owes(t)' = "nothing"
      BY <1>11, <2>3 DEF ConnectCas, Goto, TypeOK, Owes
    <3> QED BY <3>1, <2>1, <2>2 DEF L!vars
  <2>4. CASE state = "New"
    <3>1. state' = "Connecting" /\ Owes(t)' = "Connecting"
      BY <1>11, <2>4 DEF ConnectCas, Goto, TypeOK, Owes
    <3>2. L!Move(t, "Connecting")
      BY <3>1, <2>1, <2>2, <2>4 DEF L!Move, SctpEdge
    <3> QED BY <3>2 DEF L!Next, SctpState
  <2> QED BY <2>3, <2>4
<1>12. ASSUME NEW t \in Thread, CloseSwapState(t) PROVE L!Next \/ UNCHANGED L!vars
  <2>1. Heard' = Heard /\ Owes(t) = "nothing"
    BY <1>12 DEF CloseSwapState, Heard, Goto, Owes
  <2>2. \A u \in Thread : u # t => Owes(u)' = Owes(u)
    BY <1>12 DEF CloseSwapState, Goto, TypeOK, Owes
  <2>3. state \in {"New", "Connecting"} /\ state' = "Closed" /\ Owes(t)' = "Closed"
    BY <1>12 DEF CloseSwapState, Goto, TypeOK, Owes, StateFollowsFlags
  <2>4. L!Move(t, "Closed")
    BY <2>1, <2>2, <2>3 DEF L!Move, SctpEdge
  <2> QED BY <2>4 DEF L!Next, SctpState
<1>13. ASSUME NEW t \in Thread, ConnectCall(t) PROVE L!Next
  <2>1. Heard' = Heard \cup {"Connecting"}
    BY <1>13, CallIsHeard DEF ConnectCall, Goto, TypeOK, SctpState
  <2>2. state' = state /\ Owes(t) = "Connecting" /\ Owes(t)' = "nothing"
    BY <1>13 DEF ConnectCall, Goto, TypeOK, Owes
  <2>3. \A u \in Thread : u # t => Owes(u)' = Owes(u)
    BY <1>13 DEF ConnectCall, Goto, TypeOK, Owes
  <2>4. L!Announce(t)
    BY <2>1, <2>2, <2>3 DEF L!Announce
  <2> QED BY <2>4 DEF L!Next
<1>14. ASSUME NEW t \in Thread, CloseCall(t) PROVE L!Next
  <2>1. Heard' = Heard \cup {"Closed"}
    BY <1>14, CallIsHeard DEF CloseCall, Goto, TypeOK, SctpState
  <2>2. state' = state /\ Owes(t) = "Closed" /\ Owes(t)' = "nothing"
    BY <1>14 DEF CloseCall, Goto, TypeOK, Owes
  <2>3. \A u \in Thread : u # t => Owes(u)' = Owes(u)
    BY <1>14 DEF CloseCall, Goto, TypeOK, Owes
  <2>4. L!Announce(t)
    BY <2>1, <2>2, <2>3 DEF L!Announce
  <2> QED BY <2>4 DEF L!Next
<1>15. CASE UNCHANGED vars
  BY <1>15 DEF vars, L!vars, Heard, Owes
<1> QED BY <1>1, <1>2, <1>3, <1>4, <1>5, <1>6, <1>7, <1>8, <1>9, <1>10, <1>11, <1>12, <1>13, <1>14, <1>15 DEF Next, Step, Call

(* Safety half of AnnouncesEveryMove: the transport implements Lifecycle.  *)
THEOREM RefinesLifecycle == Safe => L!Safe
  BY RefinesInit, RefinesStep, Invariant, PTL DEF Safe, L!Safe

(* What the promise gives for the state: nobody is left believing in a     *)
(* value that nobody is about to correct.                                  *)
LEMMA CoveredStays ==
  ASSUME L!TypeOK, L!Covered, [L!Next]_(L!vars)
  PROVE  L!TypeOK' /\ L!Covered'
<1>1. ASSUME NEW a \in Thread, L!Announce(a) PROVE L!TypeOK' /\ L!Covered'
  BY <1>1 DEF L!Announce, L!Covered, L!TypeOK
<1>2. ASSUME NEW a \in Thread, NEW s \in SctpState, L!Move(a, s) PROVE L!TypeOK' /\ L!Covered'
  BY <1>2 DEF L!Move, L!Covered, L!TypeOK
<1>3. CASE UNCHANGED L!vars
  BY <1>3 DEF L!vars, L!Covered, L!TypeOK
<1> QED BY <1>1, <1>2, <1>3 DEF L!Next

(* Covered, for the state: the value the cell holds has been announced,    *)
(* or the thread that set it still owes the announcement.                  *)
THEOREM StatusCovered == Safe => []L!Covered
<1>1. L!Init => L!TypeOK /\ L!Covered
  BY DEF L!Init, L!TypeOK, L!Covered, SctpState
<1> QED BY <1>1, RefinesLifecycle, CoveredStays, PTL DEF L!Safe
=============================================================================

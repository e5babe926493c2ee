--------------------------- MODULE TransportStack ---------------------------
(***************************************************************************)
(* How the three transports are glued together.  The callback sets of ICE  *)
(* and of DTLS are slots.  The layer above takes the set (callbacks()),    *)
(* wraps it and puts it back (set_callbacks()): two critical sections,     *)
(* with the application free to install a set of its own in between.       *)
(* Hooks are edge-triggered: they run on the thread that announces a       *)
(* change, one inside the other, and a change announced before a hook was  *)
(* installed is not announced again.                                       *)
(*                                                                         *)
(* The transports are reduced to their status, and DTLS's handshake to how *)
(* far it is; their insides, and close(), are in IceTransport,             *)
(* DtlsTransport and SctpTransport.  The mutex that keeps the two drivers  *)
(* of the handshake apart while one of them announces is not modelled:     *)
(* what is shown here does not need it.                                    *)
(***************************************************************************)
EXTENDS Naturals, Sequences, SequencesExt

CONSTANTS User,     \* application threads
          driver,   \* the libjuice driver task
          Calls,    \* Calls[u]: the operations user u may call
          App       \* callback sets of the application

Thread == User \cup {driver}
Layer == {"ice", "dtls"}
Hook == {"auto", "fail", "pump", "connect", "feed"}
Op == {"dtls new", "sctp new", "start", "set ice", "set dtls"}

ASSUME StackAssumption ==
  /\ driver \notin User
  /\ Calls \in [User -> SUBSET Op]
  /\ App # {} /\ App \cap Hook = {}

VARIABLES ice, dtls, sctp,  \* the statuses, "none" before construction
          started,          \* Bridge::started of DTLS
          handshake,        \* how far it is: see Drives
          slot,             \* slot[l]: on_state_change and on_data, as chains
          snapshot,         \* the callback set t has taken
          todo,             \* what t has still to do, innermost call first
          told,             \* history: <<callback set, layer, status>> -> times
          latest,           \* history: what the application installed last
          lost,             \* history: was that installed under a snapshot?
          missed,           \* history: layers whose Connected found no hook
          revived           \* history: was Connected put over Failed?

status == <<ice, dtls, sctp, started, handshake>>
history == <<told, latest, lost, missed, revived>>
vars == <<status, slot, snapshot, todo, history>>

NoCallbacks == [state |-> <<>>, data |-> <<>>]
Only(a) == [state |-> <<a>>, data |-> <<a>>]

Init ==
  /\ ice = "New" /\ dtls = "none" /\ sctp = "none"
  /\ started = FALSE
  /\ handshake = "going"
  /\ latest \in [Layer -> App]
  /\ slot = [l \in Layer |-> Only(latest[l])]
  /\ snapshot = [t \in Thread |-> NoCallbacks]
  /\ todo = [t \in Thread |-> <<>>]
  /\ told = [e \in App \X Layer \X {"Connecting", "Connected", "Failed"} |-> 0]
  /\ lost = [l \in Layer |-> FALSE]
  /\ missed = {}
  /\ revived = FALSE

(* Operators named X_Slip are not used by any action: each is X after a    *)
(* plausible mistake, kept beside X to show which property notices it.     *)

\* t does what is on top of its list; the rest is below.
Doing(t, what) == todo[t] # <<>> /\ Head(todo[t])[1] = what
Arg(t, i) == Head(todo[t])[i]
Then(t, more) == todo' = [todo EXCEPT ![t] = more \o Tail(@)]
Call(t, more) == todo[t] = <<>> /\ todo' = [todo EXCEPT ![t] = more]

Idle == \A t \in Thread : todo[t] = <<>>

\* Which slot an install writes, and is one under way there?
Target(hook) == IF hook = "connect" THEN "dtls" ELSE "ice"
Installing(l) ==
  \E t \in Thread : Doing(t, "install") /\ Target(Arg(t, 2)) = l

\* DtlsTransport::new() has returned.
Built == dtls # "none" /\ \A t \in Thread : ~Contains(todo[t], <<"install", "auto">>)

-----------------------------------------------------------------------------
(* What the application calls.                                             *)

DtlsNew(u) ==
  /\ "dtls new" \in Calls[u] /\ dtls = "none"
  /\ dtls' = "New"
  /\ Call(u, <<<<"snapshot", "ice">>, <<"install", "auto">>>>)
  /\ UNCHANGED <<ice, sctp, started, handshake, slot, snapshot, history>>

SctpNew(u) ==
  /\ "sctp new" \in Calls[u] /\ Built /\ sctp = "none"
  /\ sctp' = "New"
  /\ Call(u, <<<<"snapshot", "dtls">>, <<"install", "connect">>>>)
  /\ UNCHANGED <<ice, dtls, started, handshake, slot, snapshot, history>>

Start(u) ==
  /\ "start" \in Calls[u] /\ Built
  /\ Call(u, <<<<"start">>>>)
  /\ UNCHANGED <<status, slot, snapshot, history>>

SetCallbacks(u, l, a) ==
  /\ todo[u] = <<>>
  /\ \/ l = "ice" /\ "set ice" \in Calls[u]
     \/ l = "dtls" /\ "set dtls" \in Calls[u] /\ Built
  /\ a # latest[l]
  /\ slot' = [slot EXCEPT ![l] = Only(a)]
  /\ latest' = [latest EXCEPT ![l] = a]
  /\ lost' = [lost EXCEPT ![l] = Installing(l)]
  /\ UNCHANGED <<status, snapshot, todo, told, missed, revived>>

-----------------------------------------------------------------------------
(* Taking a callback set, wrapping it and putting it back.                 *)

Snapshot(t) ==
  /\ Doing(t, "snapshot")
  /\ snapshot' = [snapshot EXCEPT ![t] = slot[Arg(t, 2)]]
  /\ Then(t, <<>>)
  /\ UNCHANGED <<status, slot, history>>

\* the hook put in the place of what was there
Wrapped_Slip(hook, prev) ==
  CASE hook = "auto" -> [prev EXCEPT !.state = <<"auto">>]
    [] hook = "fail" -> [state |-> <<"fail">>, data |-> <<"pump">>]
    [] hook = "connect" -> [state |-> <<"connect">>, data |-> <<"feed">>]

\* The auto-start and the connect hook run first, the failure hook last.
Wrapped(hook, prev) ==
  CASE hook = "auto" -> [prev EXCEPT !.state = <<"auto">> \o @]
    [] hook = "fail" -> [state |-> prev.state \o <<"fail">>, data |-> <<"pump">>]
    [] hook = "connect" -> [state |-> <<"connect">> \o prev.state,
                            data |-> <<"feed">> \o prev.data]

Install(t) ==
  /\ Doing(t, "install")
  /\ slot' = [slot EXCEPT ![Target(Arg(t, 2))] = Wrapped(Arg(t, 2), snapshot[t])]
  /\ snapshot' = [snapshot EXCEPT ![t] = NoCallbacks]
  /\ Then(t, <<>>)
  /\ UNCHANGED <<status, history>>

-----------------------------------------------------------------------------
(* Announcing a change: clone the callback under the lock, then call it;   *)
(* what it calls comes before what is left to do.                          *)

Announce(t) ==
  /\ Doing(t, "announce")
  /\ LET l == Arg(t, 2)  s == Arg(t, 3)  chain == slot[l].state
     IN  /\ Then(t, [i \in DOMAIN chain |-> <<"call", chain[i], l, s>>])
         /\ missed' = IF s = "Connected" /\ ~Contains(chain, IF l = "ice" THEN "auto" ELSE "connect")
                        THEN missed \cup {l} ELSE missed
  /\ UNCHANGED <<status, slot, snapshot, told, latest, lost, revived>>

CallApp(t) ==
  /\ Doing(t, "call") /\ Arg(t, 2) \in App
  /\ told' = [told EXCEPT ![<<Arg(t, 2), Arg(t, 3), Arg(t, 4)>>] = @ + 1]
  /\ Then(t, <<>>)
  /\ UNCHANGED <<status, slot, snapshot, latest, lost, missed, revived>>

\* start() left for when a handshake under way is over
CallAuto_Slip(t) ==
  /\ Doing(t, "call") /\ Arg(t, 2) = "auto"
  /\ dtls # "Connecting"
  /\ Then(t, IF Arg(t, 4) = "Connected" THEN <<<<"start">>>> ELSE <<>>)
  /\ UNCHANGED <<status, slot, snapshot, history>>

CallAuto(t) ==
  /\ Doing(t, "call") /\ Arg(t, 2) = "auto"
  /\ Then(t, IF Arg(t, 4) = "Connected" THEN <<<<"start">>>> ELSE <<>>)
  /\ UNCHANGED <<status, slot, snapshot, history>>

\* started loaded, not swapped: the state is the only guard, and Failed
\* does not stop a second start()
DtlsStart_Slip(t) ==
  /\ Doing(t, "start")
  /\ started' = TRUE
  /\ IF dtls \in {"New", "Failed"}
       THEN /\ dtls' = "Connecting"
            /\ Then(t, <<<<"announce", "dtls", "Connecting">>,
                         <<"snapshot", "ice">>, <<"install", "fail">>, <<"drive">>>>)
       ELSE UNCHANGED dtls /\ Then(t, <<>>)
  /\ UNCHANGED <<ice, sctp, handshake, slot, snapshot, history>>

DtlsStart(t) ==
  /\ Doing(t, "start")
  /\ started' = TRUE
  /\ IF ~started /\ dtls = "New"
       THEN /\ dtls' = "Connecting"
            /\ Then(t, <<<<"announce", "dtls", "Connecting">>,
                         <<"snapshot", "ice">>, <<"install", "fail">>, <<"drive">>>>)
       ELSE UNCHANGED dtls /\ Then(t, <<>>)
  /\ UNCHANGED <<ice, sctp, handshake, slot, snapshot, history>>

\* fail_transport()
FailTransport(t, fails) ==
  IF fails /\ dtls # "Failed"
    THEN dtls' = "Failed" /\ Then(t, <<<<"announce", "dtls", "Failed">>>>)
    ELSE UNCHANGED dtls /\ Then(t, <<>>)

CallFail(t) ==
  /\ Doing(t, "call") /\ Arg(t, 2) = "fail"
  /\ FailTransport(t, <<Arg(t, 3), Arg(t, 4)>> = <<"ice", "Failed">>)
  /\ UNCHANGED <<ice, sctp, started, handshake, slot, snapshot, history>>

\* connect() hooked to the wrong status
CallConnect_Slip(t) ==
  /\ Doing(t, "call") /\ Arg(t, 2) = "connect"
  /\ sctp' = IF Arg(t, 4) = "Connecting" /\ sctp = "New" THEN "Connecting" ELSE sctp
  /\ Then(t, <<>>)
  /\ UNCHANGED <<ice, dtls, started, handshake, slot, snapshot, history>>

\* connect() is idempotent.
CallConnect(t) ==
  /\ Doing(t, "call") /\ Arg(t, 2) = "connect"
  /\ sctp' = IF Arg(t, 4) = "Connected" /\ sctp = "New" THEN "Connecting" ELSE sctp
  /\ Then(t, <<>>)
  /\ UNCHANGED <<ice, dtls, started, handshake, slot, snapshot, history>>

-----------------------------------------------------------------------------
(* The handshake: going, with a record fed and not yet looked at, dead,    *)
(* over but not noticed, over and noticed (handshake_done).                *)

\* What a drive may come to: how far the handshake is then, and what is
\* returned.  An ICE error of the drain hides what OpenSSL said.
Drives(h) ==
  CASE h = "going" -> {<<"going", "waits">>, <<"going", "error">>, <<"dead", "error">>}
    [] h = "fed"   -> {<<"going", "waits">>, <<"going", "error">>, <<"dead", "error">>,
                       <<"over", "error">>, <<"noticed", "done">>}
    [] h = "dead"  -> {<<"dead", "error">>}
    [] h = "over"  -> {<<"over", "error">>, <<"noticed", "done">>}
    [] h = "noticed" -> {<<"noticed", "waits">>}

\* drive_handshake_locked(): Connected over whatever the state is now.
DriveHandshake(t, h, onError) ==
  \E outcome \in Drives(h) :
    /\ handshake' = outcome[1]
    /\ IF outcome[2] = "done"
         THEN /\ dtls' = "Connected"
              /\ revived' = (revived \/ dtls = "Failed")
              /\ Then(t, <<<<"announce", "dtls", "Connected">>>>)
         ELSE /\ UNCHANGED <<dtls, revived>>
              /\ Then(t, IF outcome[2] = "error" THEN onError ELSE <<>>)

\* The end of start(): a client drives once, and its caller is told of a
\* fatal error; nobody is told of an error of ICE.
Drive(t) ==
  /\ Doing(t, "drive")
  /\ \/ DriveHandshake(t, handshake, <<>>)
     \/ UNCHANGED <<dtls, handshake, revived>> /\ Then(t, <<>>)
  /\ UNCHANGED <<ice, sctp, started, slot, snapshot, told, latest, lost, missed>>

-----------------------------------------------------------------------------
(* The driver task.                                                        *)

IceMoves(s) ==
  /\ <<ice, s>> \in {<<"New", "Connected">>, <<"New", "Failed">>, <<"Connected", "Failed">>}
  /\ ice' = s
  /\ Call(driver, <<<<"announce", "ice", s>>>>)
  /\ UNCHANGED <<dtls, sctp, started, handshake, slot, snapshot, history>>

Datagram ==
  /\ ice = "Connected"
  /\ Contains(slot["ice"].data, "pump")
  /\ Call(driver, <<<<"pump">>>>)
  /\ UNCHANGED <<status, slot, snapshot, history>>

\* The record is fed, and drives the handshake if the state is Connecting;
\* data goes unnoticed.
Pump ==
  /\ Doing(driver, "pump")
  /\ LET h == IF handshake = "going" THEN "fed" ELSE handshake
     IN  IF dtls = "Connecting"
           THEN DriveHandshake(driver, h, <<<<"fail">>>>)
           ELSE handshake' = h /\ UNCHANGED <<dtls, revived>> /\ Then(driver, <<>>)
  /\ UNCHANGED <<ice, sctp, started, slot, snapshot, told, latest, lost, missed>>

\* Its error path, with inner released: start() may drive in between.
PumpFails ==
  /\ Doing(driver, "fail")
  /\ FailTransport(driver, TRUE)
  /\ UNCHANGED <<ice, sctp, started, handshake, slot, snapshot, history>>

-----------------------------------------------------------------------------
Step(t) ==
  \/ Snapshot(t) \/ Install(t)
  \/ Announce(t) \/ CallApp(t) \/ CallAuto(t) \/ CallFail(t) \/ CallConnect(t)
  \/ DtlsStart(t) \/ Drive(t)

Operation(u) ==
  \/ DtlsNew(u) \/ SctpNew(u) \/ Start(u)
  \/ \E l \in Layer, a \in App : SetCallbacks(u, l, a)

Next ==
  \/ \E t \in Thread : Step(t)
  \/ \E u \in User : Operation(u)
  \/ \E s \in {"Connected", "Failed"} : IceMoves(s)
  \/ Datagram \/ Pump \/ PumpFails

Spec == Init /\ [][Next]_vars

-----------------------------------------------------------------------------
(* Properties.                                                             *)

\* Nobody is in a chain twice.
IsChain(c) == c \in Seq(App \cup Hook) /\ IsInjective(c)
IsCallbacks(s) == IsChain(s.state) /\ IsChain(s.data)

TypeOK ==
  /\ ice \in {"New", "Connected", "Failed"}
  /\ dtls \in {"none", "New", "Connecting", "Connected", "Failed"}
  /\ sctp \in {"none", "New", "Connecting"}
  /\ started \in BOOLEAN
  /\ handshake \in {"going", "fed", "dead", "over", "noticed"}
  /\ \A l \in Layer : IsCallbacks(slot[l])
  /\ \A t \in Thread : IsCallbacks(snapshot[t])
  /\ latest \in [Layer -> App]
  /\ lost \in [Layer -> BOOLEAN]
  /\ missed \subseteq Layer
  /\ revived \in BOOLEAN

(* However the explicit and the automatic start(), the constructors and    *)
(* the two drivers of the handshake interleave, a layer is wrapped into a  *)
(* slot once and enters a state once, so nobody is told of one change      *)
(* twice: not the application, and not the layer above.  There is one      *)
(* exception: where start() puts Connected over the pump's Failed, a       *)
(* second failure is announced as well, and never a third.                 *)
ToldOnce ==
  \A e \in DOMAIN told :
    told[e] <= IF e[2] = "dtls" /\ e[3] = "Failed" /\ revived THEN 2 ELSE 1

(* "The existing user-installed on_state_change is captured and re-fired": *)
(* the application's latest callback set is still in the chain, unless it  *)
(* was installed between a layer's callbacks() and its set_callbacks().    *)
KeepsTheApplication ==
  \A l \in Layer : Contains(slot[l].state, latest[l]) \/ lost[l]

(* When all is quiet, ICE connected means DTLS was started, and DTLS       *)
(* connected means SCTP was: unless the hook was not there at that moment. *)
(* And the hook does not connect SCTP before DTLS is connected, though it  *)
(* runs on any thread that announces anything: an application that does    *)
(* not call connect() itself, as here, finds the two in order.             *)
StartsTheLayerAbove ==
  /\ Idle => /\ ice = "Connected" /\ dtls = "New" => "ice" \in missed
             /\ dtls = "Connected" /\ sctp = "New" => "dtls" \in missed
  /\ sctp = "Connecting" => dtls \in {"Connected", "Failed"}
=============================================================================

------------------------------ MODULE Lifecycle ------------------------------
(***************************************************************************)
(* What every transport of the stack promises about its state: a status    *)
(* cell that several actors (application threads, the ICE driver task)     *)
(* move along the edges of a graph, and an announcement owed for every     *)
(* move.  The code changes the status under a lock or with one atomic      *)
(* operation, releases it, and only then calls on_state_change, so what    *)
(* the promise fixes is WHO owes an announcement and THAT it is made       *)
(* before that actor moves the status again; announcements of two actors   *)
(* may overtake each other.                                                *)
(*                                                                         *)
(* IceTransport, DtlsTransport and SctpTransport implement this module     *)
(* under the refinement mappings stated there.                             *)
(***************************************************************************)

CONSTANTS Actor,    \* the threads that may change the status
          Status,   \* the values of the status
          Initial,  \* the status a transport is constructed in
          Edge,     \* <<from, to>> pairs of statuses: the moves it may make
          Nothing   \* "no announcement owed", not a status

VARIABLES status,   \* the state cell
          owes,     \* owes[a]: the status actor a has set but not announced
          heard     \* the statuses announced so far

vars == <<status, owes, heard>>

TypeOK ==
  /\ status \in Status
  /\ owes \in [Actor -> Status \cup {Nothing}]
  /\ heard \subseteq Status

Init ==
  /\ status = Initial
  /\ owes = [a \in Actor |-> Nothing]
  /\ heard = {Initial}   \* new() returns the handle in this status

Move(a, s) ==
  /\ owes[a] = Nothing
  /\ <<status, s>> \in Edge
  /\ status' = s
  /\ owes' = [owes EXCEPT ![a] = s]
  /\ UNCHANGED heard

Announce(a) ==
  /\ owes[a] # Nothing
  /\ heard' = heard \cup {owes[a]}
  /\ owes' = [owes EXCEPT ![a] = Nothing]
  /\ UNCHANGED status

Next == \E a \in Actor : Announce(a) \/ \E s \in Status : Move(a, s)

Safe == Init /\ [][Next]_vars

Fairness == \A a \in Actor : WF_vars(Announce(a))

Spec == Safe /\ Fairness

-----------------------------------------------------------------------------
(* The application is never left behind for good: the status the cell      *)
(* holds has been announced, or some actor still owes its announcement.    *)
Covered == status \in heard \/ \E a \in Actor : owes[a] = status
=============================================================================

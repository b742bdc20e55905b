---------------------------- MODULE DualControl ----------------------------
(***************************************************************************)
(* Two-person approval of high-risk actions: a request waits for a second  *)
(* member of staff, and the approval executes its action in the same       *)
(* transaction.                                                            *)
(*                                                                         *)
(* decide locks the request's row (SELECT ... FOR UPDATE) from its read to *)
(* its commit.  list_requests expires what it reads without a lock.  What  *)
(* an executed action does is the business of the module that composes     *)
(* this one with the target (see TenantOperations).                        *)
(***************************************************************************)
EXTENDS Integers, FiniteSets

CONSTANTS MaxRequests, \* rows of dual_control_requests
          Requesters,  \* members of staff who may ask for an action
          Approvers,   \* members of staff with dual_control:approve
          Actions,     \* the dual-controlled actions
          Nobody       \* no member of staff

Requests == 1 .. MaxRequests
Staff == Requesters \cup Approvers

ASSUME DualControlAssumption ==
    MaxRequests \in Nat /\ Nobody \notin Staff /\ Actions # {}

VARIABLES requests,  \* the rows
          deciding,  \* for each request, the open decide transactions on it
          listed,    \* expired requests an open list_requests has read
          effects    \* how often each request's action was executed

dualVars == <<requests, deciding, listed, effects>>

\* late: expires_at has passed (kept while the request is pending).
Request == [status : {"absent", "pending", "rejected", "executed", "expired"},
            action : Actions, by : Staff \cup {Nobody},
            approver : Staff \cup {Nobody}, late : BOOLEAN]

Pending(r) == requests[r].status = "pending"

-----------------------------------------------------------------------------
(* Mutations of definitions below; not part of the specification.          *)

\* decide reads the request without FOR UPDATE.
MutUnlocked(r) == TRUE
\* decide does not compare the requester with the member of staff.
MutMayDecideOwn(r, s) == TRUE

-----------------------------------------------------------------------------

DualInit ==
    /\ requests = [r \in Requests |->
          [status |-> "absent", action |-> CHOOSE a \in Actions : TRUE,
           by |-> Nobody, approver |-> Nobody, late |-> FALSE]]
    /\ deciding = [r \in Requests |-> {}]
    /\ listed = {}
    /\ effects = [r \in Requests |-> 0]

\* create_request: nothing looks for a pending request on the same target.
CreateRequest(r, a, s) ==
    /\ requests[r].status = "absent"
    /\ \A q \in Requests : q < r => requests[q].status # "absent"
    /\ requests' = [requests EXCEPT ![r] = [status |-> "pending", action |-> a,
                      by |-> s, approver |-> Nobody, late |-> FALSE]]
    /\ UNCHANGED <<deciding, listed, effects>>

\* The clock passes expires_at.
Elapse(r) ==
    /\ Pending(r) /\ ~requests[r].late
    /\ requests' = [requests EXCEPT ![r].late = TRUE]
    /\ UNCHANGED <<deciding, listed, effects>>

\* The request leaves "pending", decided by s.
Decided(r, status, s) ==
    requests' = [requests EXCEPT ![r].status = status, ![r].approver = s,
                                 ![r].late = FALSE]

\* decide finds the request late: it commits the expiry and answers 410.
ExpireOnDecide(r) ==
    /\ Pending(r) /\ requests[r].late /\ deciding[r] = {}
    /\ Decided(r, "expired", Nobody)
    /\ UNCHANGED <<deciding, listed, effects>>

Unlocked(r) == deciding[r] = {}
MayDecide(r, s) == requests[r].by # s

\* decide takes the row lock and passes its checks.
BeginDecide(r, s) ==
    /\ Unlocked(r)
    /\ Pending(r) /\ ~requests[r].late
    /\ MayDecide(r, s)
    /\ s \notin deciding[r]
    /\ deciding' = [deciding EXCEPT ![r] = @ \cup {s}]
    /\ UNCHANGED <<requests, listed, effects>>

Release(r, s) == deciding' = [deciding EXCEPT ![r] = @ \ {s}]

Reject(r, s) ==
    /\ s \in deciding[r]
    /\ Release(r, s)
    /\ Decided(r, "rejected", s)
    /\ UNCHANGED <<listed, effects>>

\* The approval and the action commit together.
Approve(r, s) ==
    /\ s \in deciding[r]
    /\ Release(r, s)
    /\ Decided(r, "executed", s)
    /\ effects' = [effects EXCEPT ![r] = @ + 1]
    /\ UNCHANGED listed

\* _execute raises (404, legal hold): the transaction is rolled back.
Abort(r, s) ==
    /\ s \in deciding[r]
    /\ Release(r, s)
    /\ UNCHANGED <<requests, listed, effects>>

\* list_requests reads the late requests, unlocked, ...
ListRead ==
    /\ listed = {}
    /\ listed' = {r \in Requests : Pending(r) /\ requests[r].late}
    /\ listed' # {}
    /\ UNCHANGED <<requests, deciding, effects>>

\* ... and commits their expiry, which waits for a decide that holds a lock.
ListExpire ==
    /\ listed # {}
    /\ \A r \in listed : deciding[r] = {}
    /\ requests' = [r \in Requests |->
          IF r \in listed THEN [requests[r] EXCEPT !.status = "expired", !.late = FALSE]
                          ELSE requests[r]]
    /\ listed' = {}
    /\ UNCHANGED <<deciding, effects>>

-----------------------------------------------------------------------------

DualTypeOK ==
    /\ requests \in [Requests -> Request]
    /\ deciding \in [Requests -> SUBSET Approvers]
    /\ listed \subseteq Requests
    /\ effects \in [Requests -> Nat]

\* Two approvers hitting the button at once do not execute an action twice,
\* whatever list_requests does to the row meanwhile (decide's FOR UPDATE).
ExecutedAtMostOnce == \A r \in Requests : effects[r] <= 1

\* An executed action had two people behind it.
TwoPeople ==
    \A r \in Requests : effects[r] > 0 =>
        requests[r].approver # Nobody /\ requests[r].approver # requests[r].by

\* decide: an approved action runs once, with two people behind it.
ApprovalsAreSound == ExecutedAtMostOnce /\ TwoPeople
=============================================================================

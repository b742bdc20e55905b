--------------------------- MODULE EventDelivery ---------------------------
(***************************************************************************)
(* What the outbox promises the handlers that append to it: an event, once *)
(* appended, reaches the school server at least once before it counts as   *)
(* published, a published event stays published, and an event the worker   *)
(* gives up on is a dead letter rather than lost.                          *)
(***************************************************************************)
CONSTANT Events

VARIABLES appended,  \* events committed with the change they announce
          reached,   \* events the school server has received
          published, \* events recorded as delivered
          dead       \* events recorded as dead letters

vars == <<appended, reached, published, dead>>

Init == appended = {} /\ reached = {} /\ published = {} /\ dead = {}

Append(e) ==
    /\ e \notin appended
    /\ appended' = appended \cup {e}
    /\ UNCHANGED <<reached, published, dead>>

Reach(e) ==
    /\ e \in appended
    /\ reached' = reached \cup {e}
    /\ UNCHANGED <<appended, published, dead>>

\* A batch is recorded in one transaction.
Record(ok, given) ==
    /\ ok \subseteq reached /\ given \subseteq appended
    /\ published' = published \cup ok
    /\ dead' = (dead \ ok) \cup given
    /\ UNCHANGED <<appended, reached>>

Next == \/ \E e \in Events : Append(e) \/ Reach(e)
        \/ \E ok, given \in SUBSET Events : Record(ok, given)

Spec == Init /\ [][Next]_vars
=============================================================================

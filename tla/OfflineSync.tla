----------------------------- MODULE OfflineSync -----------------------------
(***************************************************************************)
(* The operations an offline device sends when it is back, and sends again *)
(* until it has an answer.  The server looks the operation up, applies it  *)
(* and records it, in statements of their own, each of which may fail and  *)
(* end the request.                                                        *)
(***************************************************************************)
EXTENDS Naturals, FiniteSets

CONSTANTS NamedCreates,   \* creates whose payload carries the row's id
          OtherOps,       \* updates, and creates that get an id of the server
          Deliveries      \* requests of the device

ASSUME OfflineSyncAssumption == IsFiniteSet(Deliveries)

VARIABLES
    recorded,      \* sync_operations: its key is the operation's id
    present,       \* named creates whose row is there: its id is its key
    delivery,      \* where each request is, and the answer it got
    applications,  \* ghost: how often the statement of an operation was executed
    removals,      \* ghost: how often the row of a named create was deleted
    again          \* ghost: operations sent while an earlier request was unfinished

syncVars == <<recorded, present, delivery, applications, removals, again>>

DeviceOps == NamedCreates \cup OtherOps
Unsent == "unsent"
Sends(o) == {d \in Deliveries : delivery[d].op = o}
Unfinished(d) == delivery[d].pc \in {"apply", "record"}
Answers(d, pc) == delivery' = [delivery EXCEPT ![d].pc = pc]

-----------------------------------------------------------------------------
(* Mutations of definitions below; not part of the specification.          *)

MutKnown(o) == FALSE
MutApplies(o) == TRUE

-----------------------------------------------------------------------------
SyncInit ==
    /\ recorded = {} /\ present = {} /\ again = {}
    /\ applications = [o \in DeviceOps |-> 0] /\ removals = [o \in NamedCreates |-> 0]
    /\ delivery = [d \in Deliveries |-> [pc |-> "new", op |-> Unsent]]

\* apply: an operation that is recorded is answered, not applied.
Known(o) == o \in recorded
LookUpOperation(d, o) ==
    /\ delivery[d].pc = "new"
    /\ delivery' = [delivery EXCEPT ![d] =
          [pc |-> IF Known(o) THEN "already_applied" ELSE "apply", op |-> o]]
    /\ again' = again \cup {x \in {o} : \E e \in Sends(o) : Unfinished(e)}
    /\ UNCHANGED <<recorded, present, applications, removals>>

\* applySupported.  The insert of a row that exists fails on its key.
Applies(o) == o \notin present
ApplyOperation(d) ==
    /\ delivery[d].pc = "apply"
    /\ LET o == delivery[d].op IN
       IF Applies(o)
       THEN /\ applications' = [applications EXCEPT ![o] = @ + 1]
            /\ present' = present \cup ({o} \cap NamedCreates)
            /\ Answers(d, "record")
       ELSE Answers(d, "failed") /\ UNCHANGED <<present, applications>>
    /\ UNCHANGED <<recorded, removals, again>>

\* The insert of an operation that is recorded fails on its key.
RecordOperation(d) ==
    /\ delivery[d].pc = "record"
    /\ LET o == delivery[d].op IN
       IF o \in recorded THEN Answers(d, "failed") /\ UNCHANGED recorded
       ELSE Answers(d, "applied") /\ recorded' = recorded \cup {o}
    /\ UNCHANGED <<present, applications, removals, again>>

\* A statement fails for another reason, or the process dies: the request ends,
\* torn when the operation has been applied and is not recorded.
CutShort(d) ==
    /\ Unfinished(d)
    /\ Answers(d, IF delivery[d].pc = "record" THEN "torn" ELSE "failed")
    /\ UNCHANGED <<recorded, present, applications, removals, again>>

\* remove of the timetable and of lesson notes.
RemoveRow(o) ==
    /\ o \in present
    /\ present' = present \ {o} /\ removals' = [removals EXCEPT ![o] = @ + 1]
    /\ UNCHANGED <<recorded, delivery, applications, again>>

SyncNext ==
    \/ \E d \in Deliveries : \/ \E o \in DeviceOps : LookUpOperation(d, o)
                             \/ ApplyOperation(d) \/ RecordOperation(d) \/ CutShort(d)
    \/ \E o \in NamedCreates : RemoveRow(o)

SyncSpec == SyncInit /\ [][SyncNext]_syncVars

SyncTypeOK ==
    /\ recorded \subseteq DeviceOps /\ again \subseteq DeviceOps /\ present \subseteq NamedCreates
    /\ applications \in [DeviceOps -> 0..Cardinality(Deliveries)]
    /\ removals \in [NamedCreates -> 0..Cardinality(Deliveries)]
    /\ delivery \in [Deliveries ->
          [pc : {"new", "apply", "record", "applied", "already_applied", "failed", "torn"},
           op : DeviceOps \cup {Unsent}]]

Torn(o) == {d \in Sends(o) : delivery[d].pc = "torn"}

(***************************************************************************)
(* Of an operation that is never sent again before an earlier request of   *)
(* it ended, at most one request takes effect, besides those that ended    *)
(* between the effect and its record: each of these may take effect again. *)
(* However its requests overlap, a create that names its row inserts it    *)
(* again only after somebody has deleted it.  A device that is told of     *)
(* success, once with "applied", can forget the operation: it has taken    *)
(* effect and is recorded, and every later request of it is refused.       *)
(* (sync.service.ts apply, applySupported.)                                *)
(***************************************************************************)
SyncedOnce ==
    /\ \A o \in DeviceOps \ again : applications[o] <= 1 + Cardinality(Torn(o))
    /\ \A o \in NamedCreates : applications[o] <= 1 + removals[o]
    /\ \A d \in Deliveries : delivery[d].pc \in {"applied", "already_applied"}
          => applications[delivery[d].op] > 0 /\ delivery[d].op \in recorded
    /\ \A o \in DeviceOps : Cardinality({d \in Sends(o) : delivery[d].pc = "applied"}) <= 1
=============================================================================

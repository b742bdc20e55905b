------------------------------- MODULE Outbox -------------------------------
(***************************************************************************)
(* The transactional outbox: handlers append events in their own           *)
(* transactions; a worker loop, and the console's "run" route beside it,   *)
(* read the due rows without locking them, POST each to the school server  *)
(* and commit what became of the whole batch.  A crash, or an exception,   *)
(* between the first POST and the commit rolls every mark back.            *)
(***************************************************************************)
EXTENDS Integers, FiniteSets

CONSTANTS MaxEvents,    \* rows of outbox_events
          Drainers,     \* the worker loop, and runs of the console's job
          MaxAttempts,  \* MAX_ATTEMPTS
          BatchLimits,  \* values of the limit of process_outbox_batch
          MaxCrashes    \* bound: crashes between a read and its commit

ASSUME OutboxAssumption ==
    /\ MaxEvents \in Nat /\ BatchLimits \subseteq Nat \ {0}
    /\ MaxAttempts \in Nat \ {0} /\ MaxCrashes \in Nat

Events == 1 .. MaxEvents

VARIABLES rows,      \* outbox_events
          batch,     \* for each drainer, its open process_outbox_batch
          reached,   \* events the school server has received
          refused,   \* failed posts of each event, up to MaxAttempts; one
                     \* refusal by the school server counts for all of them
          limit,     \* the limit, the same for all batches
          crashes

outboxVars == <<rows, batch, reached, refused, limit, crashes>>

\* due: next_attempt_at has passed.
Row == [status : {"absent", "pending", "delivered", "dead_letter"},
        published : BOOLEAN, attempts : 0 .. MaxAttempts, due : BOOLEAN]
NoRow == [status |-> "absent", published |-> FALSE, attempts |-> 0, due |-> FALSE]

\* A mark is what the session will write to a row it has read: delivered,
\* failed (with the attempts it counts from) or rejected.
Marks == [kind : {"none", "delivered", "failed", "rejected"},
          from : 0 .. MaxAttempts]
NoMark == [kind |-> "none", from |-> 0]
Idle == [open |-> FALSE, todo |-> {}, marks |-> [e \in Events |-> NoMark]]

-----------------------------------------------------------------------------
(* Mutations of definitions below; not part of the specification.          *)

\* An error answer counts as delivered.
MutPostFailed(d, e) ==
    /\ batch[d].open /\ e \in batch[d].todo
    /\ batch' = [batch EXCEPT ![d].todo = @ \ {e},
                              ![d].marks[e].kind = "delivered"]
    /\ UNCHANGED <<rows, reached, refused, limit, crashes>>
\* No dead letters: a failing event is retried for ever.
MutFailed(row, from) == [row EXCEPT !.attempts = from + 1, !.due = FALSE]
\* The last attempt is not made.
MutEager(row, from) ==
    IF from + 2 >= MaxAttempts
      THEN [row EXCEPT !.status = "dead_letter", !.due = FALSE]
      ELSE [row EXCEPT !.attempts = from + 1, !.due = FALSE]
\* The limit applies before the dead letters are left out.
MutSelection ==
    {e \in Events :
        /\ rows[e].status = "pending" /\ ~rows[e].published /\ rows[e].due
        /\ Cardinality({f \in Events : f < e /\ rows[f].status # "absent"
                                       /\ ~rows[f].published}) < limit}

-----------------------------------------------------------------------------

OutboxInit ==
    /\ rows = [e \in Events |-> NoRow]
    /\ batch = [d \in Drainers |-> Idle]
    /\ reached = {}
    /\ refused = [e \in Events |-> 0]
    /\ limit \in BatchLimits
    /\ crashes = 0

\* enqueue_outbox commits with the change it announces.
Enqueue(e) ==
    /\ rows[e].status = "absent"
    /\ \A f \in Events : f < e => rows[f].status # "absent"
    /\ rows' = [rows EXCEPT ![e] = [status |-> "pending", published |-> FALSE,
                                    attempts |-> 0, due |-> TRUE]]
    /\ UNCHANGED <<batch, reached, refused, limit, crashes>>

\* A backoff ends.
BackoffEnds(e) ==
    /\ rows[e].status = "pending" /\ ~rows[e].due
    /\ rows' = [rows EXCEPT ![e].due = TRUE]
    /\ UNCHANGED <<batch, reached, refused, limit, crashes>>

IsDue(e) == /\ rows[e].status \notin {"absent", "dead_letter"}
            /\ ~rows[e].published /\ rows[e].due
DueEvents == {e \in Events : IsDue(e)}
\* The first of the due rows, by id.
Selection == {e \in DueEvents :
                 Cardinality({f \in DueEvents : f < e}) < limit}

\* process_outbox_batch reads the due rows.
ReadBatch(d) ==
    /\ ~batch[d].open /\ DueEvents # {}
    /\ batch' = [batch EXCEPT ![d] =
          [open |-> TRUE, todo |-> Selection,
           marks |-> [e \in Events |-> IF e \in Selection
                        THEN [kind |-> "none", from |-> rows[e].attempts]
                        ELSE NoMark]]]
    /\ UNCHANGED <<rows, reached, refused, limit, crashes>>

Mark(d, e, kind) ==
    batch' = [batch EXCEPT ![d].todo = @ \ {e}, ![d].marks[e].kind = kind]

CountRefusal(e, n) ==
    refused' = [refused EXCEPT ![e] =
                   IF @ + n <= MaxAttempts THEN @ + n ELSE MaxAttempts]

\* The events of a batch are posted in the order of their ids.
Posting(d, e) == /\ batch[d].open /\ e \in batch[d].todo
                 /\ \A f \in batch[d].todo : e <= f

\* The school server accepts the event, ...
PostAccepted(d, e) ==
    /\ Posting(d, e)
    /\ Mark(d, e, "delivered")
    /\ reached' = reached \cup {e}
    /\ UNCHANGED <<rows, refused, limit, crashes>>

\* ... accepts it and its answer is lost (timeout), ...
PostUnanswered(d, e) ==
    /\ Posting(d, e)
    /\ Mark(d, e, "failed")
    /\ reached' = reached \cup {e}
    /\ CountRefusal(e, 1)
    /\ UNCHANGED <<rows, limit, crashes>>

\* ... is unreachable or answers with an error, ...
PostFailed(d, e) ==
    /\ Posting(d, e)
    /\ Mark(d, e, "failed")
    /\ CountRefusal(e, 1)
    /\ UNCHANGED <<rows, reached, limit, crashes>>

\* ... or refuses it (400, 401, 403, 422).
PostRejected(d, e) ==
    /\ Posting(d, e)
    /\ Mark(d, e, "rejected")
    /\ CountRefusal(e, MaxAttempts)
    /\ UNCHANGED <<rows, reached, limit, crashes>>

\* _mark_failed.
Failed(row, from) ==
    IF from + 1 >= MaxAttempts
      THEN [row EXCEPT !.attempts = MaxAttempts, !.status = "dead_letter",
                       !.due = FALSE]
      ELSE [row EXCEPT !.attempts = from + 1, !.due = FALSE]

\* The columns the session has changed, on the row as it is at the commit.
Written(row, mark) ==
    CASE mark.kind = "none" -> row
      [] mark.kind = "delivered" ->
            [row EXCEPT !.published = TRUE, !.status = "delivered",
                        !.due = FALSE]
      [] mark.kind = "failed" -> Failed(row, mark.from)
      [] mark.kind = "rejected" ->
            [row EXCEPT !.attempts = MaxAttempts, !.status = "dead_letter",
                        !.due = FALSE]

\* The commit of a batch.
CommitBatch(d) ==
    /\ batch[d].open /\ batch[d].todo = {}
    /\ rows' = [e \in Events |-> Written(rows[e], batch[d].marks[e])]
    /\ batch' = [batch EXCEPT ![d] = Idle]
    /\ UNCHANGED <<reached, refused, limit, crashes>>

\* A crash, a shutdown or an exception: the transaction is rolled back.
Crash(d) ==
    /\ batch[d].open /\ crashes < MaxCrashes
    /\ batch' = [batch EXCEPT ![d] = Idle]
    /\ crashes' = crashes + 1
    /\ UNCHANGED <<rows, reached, refused, limit>>

Post(d) == \E e \in Events : \/ PostAccepted(d, e) \/ PostUnanswered(d, e)
                             \/ PostFailed(d, e) \/ PostRejected(d, e)

Drain(d) == ReadBatch(d) \/ Post(d) \/ CommitBatch(d)

OutboxNext == \/ \E e \in Events : Enqueue(e) \/ BackoffEnds(e)
        \/ \E d \in Drainers : Drain(d) \/ Crash(d)

\* Backoffs end and the worker loop goes on.
OutboxFairness == /\ \A e \in Events : WF_outboxVars(BackoffEnds(e))
            /\ \A d \in Drainers : WF_outboxVars(Drain(d))

OutboxSpec == OutboxInit /\ [][OutboxNext]_outboxVars /\ OutboxFairness

-----------------------------------------------------------------------------

OutboxTypeOK == /\ rows \in [Events -> Row]
          /\ batch \in [Drainers -> [open : BOOLEAN, todo : SUBSET Events,
                                     marks : [Events -> Marks]]]
          /\ reached \subseteq Events
          /\ refused \in [Events -> 0 .. MaxAttempts]
          /\ limit \in BatchLimits /\ crashes \in 0 .. MaxCrashes

\* Whatever crashes, answers are lost and batches overlap, the outbox delivers
\* at least once before it says so, never forgets and never takes it back.
Delivery == INSTANCE EventDelivery WITH
    appended <- {e \in Events : rows[e].status # "absent"},
    reached <- reached,
    published <- {e \in Events : rows[e].published},
    dead <- {e \in Events : rows[e].status = "dead_letter"}
DeliversAtLeastOnce == Delivery!Init /\ [][Delivery!Next]_(Delivery!vars)

\* "A permanently failing event" neither lasts nor keeps newer events "out of
\* the batch window" (models/outbox.py): every event ends published or dead.
EventsSettle ==
    \A e \in Events : rows[e].status = "pending"
                         ~> (rows[e].published \/ rows[e].status = "dead_letter")

\* An event is given up for dead only when the school server has refused it or
\* MAX_ATTEMPTS posts of it have failed: overlapping batches, which count from
\* what they have read (_mark_failed), never count too many.
DeadLettersAreEarned ==
    \A e \in Events : rows[e].status = "dead_letter" => refused[e] = MaxAttempts
=============================================================================

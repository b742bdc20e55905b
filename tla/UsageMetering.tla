---------------------------- MODULE UsageMetering ----------------------------
(***************************************************************************)
(* Usage of one meter by one tenant in one period: ingest_usage_event      *)
(* stores the event, adds it to the roll-up and raises a signal when a cap *)
(* is reached, in a transaction that locks nothing it has read.            *)
(***************************************************************************)
EXTENDS Integers, FiniteSets, Functions

CONSTANTS EventIds,   \* events, by the event_id their senders give them
          Unidentified,  \* of them, the events that come without an event_id
          NoEvent,
          Ingests,    \* POST /usage requests, copies of one event included
          Quantity,   \* Quantity[e]: what event e adds
          Quota       \* of the tenant's subscription

ASSUME MeteringAssumption ==
    /\ NoEvent \notin EventIds /\ Unidentified \subseteq EventIds
    /\ IsFiniteSet(EventIds) /\ IsFiniteSet(Ingests)
    /\ Quantity \in [EventIds -> Nat] /\ Quota \in Nat \ {0}

VARIABLES
    stored,   \* usage_events: how many rows an event has
    rollup,   \* usage_rollups.quantity, or NoRollup
    raised,   \* abuse_signals: how many rows of each type
    ingest,   \* where each request is and what it has read
    overlap   \* ghost: have two requests overlapped?

usageVars == <<stored, rollup, raised, ingest, overlap>>

NoRollup == -1
Caps == {"soft", "hard"}
NewIngest == [pc |-> "new", event |-> NoEvent, read |-> NoRollup, signal |-> 0]

\* What the stored events add up to.
Total == SumFunctionOnSet([e \in EventIds |-> stored[e] * Quantity[e]], EventIds)
Quantities == {NoRollup} \cup 0 .. SumFunctionOnSet(
                  [e \in EventIds |-> Cardinality(Ingests) * Quantity[e]], EventIds)

SoftThreshold == (Quota * 8) \div 10
CapOf(quantity) == IF quantity >= Quota THEN "hard"
                   ELSE IF quantity >= SoftThreshold THEN "soft" ELSE "none"

-----------------------------------------------------------------------------
(* Mutations of definitions below; not part of the specification.          *)

\* The cap is looked up for what the roll-up was.
MutReached(i) == IF ingest[i].read = NoRollup THEN 0 ELSE ingest[i].read

-----------------------------------------------------------------------------
UsageInit ==
    /\ stored = [e \in EventIds |-> 0]
    /\ rollup = NoRollup
    /\ raised = [c \in Caps |-> 0]
    /\ ingest = [i \in Ingests |-> NewIngest]
    /\ overlap = FALSE

Ingesting(i) == ingest[i].pc \in {"rollup", "caps", "commit"}

\* An event id that is stored is not stored again.  When two copies have been
\* stored the look-up itself fails.  An event without an id is not looked up.
AlreadyStored(e) == e \notin Unidentified /\ stored[e] > 0
LookUpEvent(i, e) ==
    /\ ingest[i].pc = "new"
    /\ ingest' = [ingest EXCEPT ![i].event = e,
                     ![i].pc = IF AlreadyStored(e) THEN "done" ELSE "rollup"]
    /\ overlap' = (overlap \/ \E j \in Ingests : Ingesting(j))
    /\ UNCHANGED <<stored, rollup, raised>>

ReadRollup(i) ==
    /\ ingest[i].pc = "rollup"
    /\ ingest' = [ingest EXCEPT ![i].pc = "caps", ![i].read = rollup]
    /\ UNCHANGED <<stored, rollup, raised, overlap>>

\* rollup.quantity after the addition.
Reached(i) == Quantity[ingest[i].event]
                + (IF ingest[i].read = NoRollup THEN 0 ELSE ingest[i].read)

\* _check_usage_caps looks for the signal of the cap; again two rows fail the
\* request.
CheckCaps(i) ==
    LET cap == CapOf(Reached(i))
        found == IF cap = "none" THEN 0 ELSE raised[cap]
    IN  /\ ingest[i].pc = "caps"
        /\ ingest' = [ingest EXCEPT ![i].signal = found,
                         ![i].pc = IF found > 1 THEN "done" ELSE "commit"]
        /\ UNCHANGED <<stored, rollup, raised, overlap>>

\* The roll-up is written as it was read, plus the event; of two requests
\* that both found none, the second violates its UNIQUE constraint.
CommitUsage(i) ==
    LET cap == CapOf(Reached(i)) IN
    /\ ingest[i].pc = "commit"
    /\ ingest[i].read = NoRollup => rollup = NoRollup
    /\ stored' = [stored EXCEPT ![ingest[i].event] = @ + 1]
    /\ rollup' = Reached(i)
    /\ raised' = IF cap = "none" \/ ingest[i].signal = 1 THEN raised
                 ELSE [raised EXCEPT ![cap] = @ + 1]
    /\ ingest' = [ingest EXCEPT ![i].pc = "done"]
    /\ UNCHANGED overlap

\* The UNIQUE constraint, another failed statement, or a stop of the server.
FailUsage(i) ==
    /\ Ingesting(i)
    /\ ingest' = [ingest EXCEPT ![i].pc = "done"]
    /\ UNCHANGED <<stored, rollup, raised, overlap>>

UsageNext ==
    \E i \in Ingests :
       \/ ReadRollup(i) \/ CheckCaps(i) \/ CommitUsage(i) \/ FailUsage(i)
       \/ \E e \in EventIds : LookUpEvent(i, e)

UsageSpec == UsageInit /\ [][UsageNext]_usageVars

UsageTypeOK ==
    /\ stored \in [EventIds -> 0 .. Cardinality(Ingests)]
    /\ rollup \in Quantities
    /\ raised \in [Caps -> 0 .. Cardinality(Ingests)]
    /\ ingest \in [Ingests -> [pc : {"new", "rollup", "caps", "commit", "done"},
                               event : EventIds \cup {NoEvent},
                               read : Quantities, signal : 0 .. Cardinality(Ingests)]]
    /\ overlap \in BOOLEAN

(***************************************************************************)
(* However requests overlap, a tenant is never billed for more than the    *)
(* stored events, and a roll-up at a cap has its signal.  Until two of     *)
(* them overlap the roll-up is the sum of the events, each that has an id  *)
(* stored once, and no cap is signalled twice or before it is reached.     *)
(* (usage_metering.py ingest_usage_event and _check_usage_caps.)           *)
(***************************************************************************)
UsageCounted ==
    /\ rollup <= Total
    /\ CapOf(rollup) # "none" => raised[CapOf(rollup)] > 0
    /\ ~overlap =>
          /\ rollup # NoRollup => rollup = Total
          /\ \A e \in EventIds \ Unidentified : stored[e] <= 1
          /\ \A c \in Caps : raised[c] <= 1
          /\ raised["soft"] > 0 => rollup >= SoftThreshold
          /\ raised["hard"] > 0 => rollup >= Quota
=============================================================================

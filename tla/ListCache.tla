------------------------------ MODULE ListCache ------------------------------
(***************************************************************************)
(* ListCacheService for one key: the web-server's in-process cache of      *)
(* lists.  Concurrent readers of a key share one load, and an              *)
(* invalidation has to keep a load that was already under way from putting *)
(* back what the invalidating writer has just replaced.                    *)
(***************************************************************************)
EXTENDS Integers, FiniteSets

CONSTANTS Loads,             \* calls of the loader
          NoLoad,
          Readers,           \* requests for the list
          MaxEdits,          \* bound: changes of the rows
          MaxInvalidations   \* bound: loads disowned

ASSUME ListCacheAssumption ==
    /\ MaxEdits \in Nat /\ MaxInvalidations \in Nat
    /\ NoLoad \notin Loads

NoEntry == -1

VARIABLES
    rows,         \* the rows the loader reads: how often they have changed
    entry,        \* entries.get(key): what the list was, or NoEntry
    inFlight,     \* inFlight.get(key)
    generation,   \* generations.get(key)
    load,         \* the loader's calls
    reader,       \* the callers of getOrLoad; .floor is ghost
    floor         \* ghost: rows when invalidate last returned

listVars == <<rows, entry, inFlight, generation, load, reader, floor>>

Versions == 0 .. MaxEdits
LoadPcs == {"free", "query", "queried", "stored", "settled"}
NewLoad == [pc |-> "free", gen |-> 0, value |-> 0]
NewReader == [pc |-> "idle", load |-> NoLoad, value |-> 0, floor |-> 0]

Running(l) == load[l].pc \in {"query", "queried", "stored"}
Waiting(l) == {r \in Readers : reader[r].pc = "waiting" /\ reader[r].load = l}

-----------------------------------------------------------------------------
(* Mutations of definitions below; not part of the specification.          *)

\* invalidate leaves the load under way alone.
MutForgetInFlight == UNCHANGED <<inFlight, generation>>

-----------------------------------------------------------------------------
ListInit ==
    /\ rows = 0 /\ entry = NoEntry
    /\ inFlight = NoLoad /\ generation = 0
    /\ load = [l \in Loads |-> NewLoad]
    /\ reader = [r \in Readers |-> NewReader]
    /\ floor = 0

\* The rows change: by a writer that goes on to invalidate the list, or by
\* one that does not (approveResult and the seeding of the calendar do not).
ChangeRows ==
    /\ rows < MaxEdits
    /\ rows' = rows + 1
    /\ UNCHANGED <<entry, inFlight, generation, load, reader, floor>>

\* A load whose key is in flight is disowned: its generation is over.
ForgetInFlight ==
    IF inFlight = NoLoad THEN UNCHANGED <<inFlight, generation>>
    ELSE inFlight' = NoLoad /\ generation' = generation + 1

Invalidate ==
    /\ generation < MaxInvalidations
    /\ entry' = NoEntry
    /\ ForgetInFlight
    /\ floor' = rows
    /\ UNCHANGED <<rows, load, reader>>

\* The entry expires, or is the oldest of a full cache and evicted.
Expire ==
    /\ entry # NoEntry
    /\ entry' = NoEntry
    /\ UNCHANGED <<rows, inFlight, generation, load, reader, floor>>

-----------------------------------------------------------------------------
(* getOrLoad, up to its first await.                                       *)

Idle(r) == reader[r].pc # "waiting"
Await(r, l) ==
    reader' = [reader EXCEPT ![r] =
        [pc |-> "waiting", load |-> l, value |-> 0, floor |-> floor]]

GetCached(r) ==
    /\ Idle(r) /\ entry # NoEntry
    /\ reader' = [reader EXCEPT ![r] =
          [pc |-> "done", load |-> NoLoad, value |-> entry, floor |-> floor]]
    /\ UNCHANGED <<rows, entry, inFlight, generation, load, floor>>

\* Without an entry, or with force, the caller joins the load under way ...
JoinInFlight(r) ==
    /\ Idle(r) /\ inFlight # NoLoad
    /\ Await(r, inFlight)
    /\ UNCHANGED <<rows, entry, inFlight, generation, load, floor>>

\* ... and starts one when there is none.
StartLoad(r, l) ==
    /\ Idle(r) /\ inFlight = NoLoad
    /\ ~Running(l) /\ Waiting(l) = {}
    /\ load' = [load EXCEPT ![l] = [pc |-> "query", gen |-> generation, value |-> 0]]
    /\ inFlight' = l
    /\ Await(r, l)
    /\ UNCHANGED <<rows, entry, generation, floor>>

-----------------------------------------------------------------------------
(* The load, and the callbacks of its promise.                             *)

Query(l) ==
    /\ load[l].pc = "query"
    /\ load' = [load EXCEPT ![l].pc = "queried", ![l].value = rows]
    /\ UNCHANGED <<rows, entry, inFlight, generation, reader, floor>>

\* then: a load of the current generation becomes the entry.
Store(l) ==
    /\ load[l].pc = "queried"
    /\ entry' = IF load[l].gen = generation THEN load[l].value ELSE entry
    /\ load' = [load EXCEPT ![l].pc = "stored"]
    /\ UNCHANGED <<rows, inFlight, generation, reader, floor>>

\* finally: unless another load has taken its place, the key is free again.
Settle(l) ==
    /\ load[l].pc = "stored"
    /\ inFlight' = IF inFlight = l THEN NoLoad ELSE inFlight
    /\ load' = [load EXCEPT ![l].pc = "settled"]
    /\ UNCHANGED <<rows, entry, generation, reader, floor>>

\* The callers who wait for the load get its value.
Deliver(r) ==
    /\ reader[r].pc = "waiting"
    /\ load[reader[r].load].pc = "settled"
    /\ reader' = [reader EXCEPT ![r].pc = "done",
                                ![r].value = load[reader[r].load].value]
    /\ UNCHANGED <<rows, entry, inFlight, generation, load, floor>>

\* The loader throws: every caller who waits for it gets the error.
FailLoad(l) ==
    /\ load[l].pc = "query"
    /\ load' = [load EXCEPT ![l] = NewLoad]
    /\ inFlight' = IF inFlight = l THEN NoLoad ELSE inFlight
    /\ reader' = [r \in Readers |-> IF r \in Waiting(l) THEN NewReader ELSE reader[r]]
    /\ UNCHANGED <<rows, entry, generation, floor>>

-----------------------------------------------------------------------------
ListNext ==
    \/ ChangeRows \/ Invalidate \/ Expire
    \/ \E r \in Readers : GetCached(r) \/ JoinInFlight(r) \/ Deliver(r)
    \/ \E r \in Readers, l \in Loads : StartLoad(r, l)
    \/ \E l \in Loads : Query(l) \/ Store(l) \/ Settle(l) \/ FailLoad(l)

ListSpec == ListInit /\ [][ListNext]_listVars

ListTypeOK ==
    /\ rows \in Versions /\ floor \in Versions
    /\ entry \in Versions \cup {NoEntry}
    /\ inFlight \in Loads \cup {NoLoad}
    /\ generation \in 0 .. MaxInvalidations
    /\ load \in [Loads -> [pc : LoadPcs, gen : 0 .. MaxInvalidations, value : Versions]]
    /\ reader \in [Readers -> [pc : {"idle", "waiting", "done"},
                               load : Loads \cup {NoLoad},
                               value : Versions, floor : Versions]]

(***************************************************************************)
(* A caller never gets a list older than the last invalidation that        *)
(* preceded its call, whichever loads were under way, however they         *)
(* overlapped, and whether it forced the load or not.  (list-cache.service.ts *)
(* disowns the loads in flight for this; the callers of invalidate rely on *)
(* it to see what they wrote.)                                             *)
(***************************************************************************)
ReadsAreCurrent ==
    \A r \in Readers : reader[r].pc = "done" => reader[r].value >= reader[r].floor
=============================================================================

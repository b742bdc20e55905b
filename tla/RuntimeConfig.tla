--------------------------- MODULE RuntimeConfig ---------------------------
(***************************************************************************)
(* How a change made in the control plane reaches one school.  A change    *)
(* empties the cache of the control process that makes it, commits, and is *)
(* announced by a webhook that may be late, repeated or lost (see Outbox). *)
(* A control process keeps what it built until the next change it makes    *)
(* itself, or until it is too old; it builds and keeps in two steps.       *)
(* The school server keeps the configuration in memory and, when REDIS_URL *)
(* is set, in Redis; it serves a stale entry while one refresh runs, and   *)
(* the webhook empties its memory and starts a new generation.  Requests   *)
(* read Redis side by side, and put what they read into memory whatever    *)
(* has been put there since they asked.                                    *)
(*                                                                         *)
(* Time is abstracted to an entry's age: fresh (within the TTL), stale     *)
(* (within the stale ceiling), expired.                                    *)
(***************************************************************************)
EXTENDS Integers, Sequences

CONSTANTS Replicas,    \* processes of the control plane's API
          Tasks,       \* refreshes of the school server in flight
          MaxReads,    \* bound: its requests that are reading Redis at once
          RedisModes,  \* whether REDIS_URL is set for the school server
          MaxVersion,  \* bound: configuration versions
          MaxFlushes,  \* bound: webhooks received
          Nothing

ASSUME RuntimeConfigAssumption ==
    /\ MaxVersion \in Nat \ {0} /\ MaxFlushes \in Nat /\ MaxReads \in Nat
    /\ RedisModes \subseteq BOOLEAN
    /\ Nothing \notin Replicas

VARIABLES useRedis,    \* REDIS_URL is set (one of RedisModes, for good)
          version,     \* committed SystemState.config_version
          changing,    \* the replica with an open change, or Nothing
          served,      \* _version_cache and _runtime_cache of each replica, as
                       \* one: a version, or 0
          generation,  \* generation and globalGeneration of the school server
          cache,       \* its memory: an entry, or Nothing
          redis,       \* its Redis key: an entry, or Nothing
          reads,       \* what Redis answers to the reads under way, in order
          tasks,       \* its refreshes
          answer       \* what getConfig last returned: a version, or 0

configVars == <<useRedis, version, changing, served, generation, cache, redis,
          reads, tasks, answer>>

Versions == 1 .. MaxVersion
Generations == 0 .. MaxFlushes
\* generation: the one in which the entry's fetch began.
Entry == [version : Versions, generation : Generations,
          age : {"fresh", "stale", "expired"}]

ASSUME NothingAssumption == Nothing \notin Entry

\* booked: the task is the one in inFlight; waited: a request waits for it; by:
\* the replica that builds the answer anew, Nothing for an answer it had kept.
Task == [pc : {"idle", "asked", "built", "answered"}, version : 0 .. MaxVersion,
         generation : Generations, booked : BOOLEAN, waited : BOOLEAN,
         by : Replicas \cup {Nothing}]
NoTask == [pc |-> "idle", version |-> 0, generation |-> 0, booked |-> FALSE,
           waited |-> FALSE, by |-> Nothing]

-----------------------------------------------------------------------------
(* Mutations of definitions below; not part of the specification.          *)

\* A refresh caches what it got, whatever was flushed meanwhile.
MutCurrent(t) == TRUE
\* An entry is served for ever: its age is not looked at.
MutOlder(e) == [e EXCEPT !.age = "fresh"]
\* A refresh does not look for the one in flight.
MutBooked == FALSE
\* A refresh takes the generation of the next flush.
MutAsk(w) == [NoTask EXCEPT !.pc = "asked", !.generation = generation + 1,
                            !.booked = TRUE, !.waited = w]

-----------------------------------------------------------------------------

ConfigInit ==
    /\ useRedis \in RedisModes
    /\ version = 1
    /\ changing = Nothing
    /\ served = [c \in Replicas |-> 0]
    /\ generation = 0
    /\ cache = Nothing /\ redis = Nothing
    /\ reads = <<>>
    /\ tasks = [t \in Tasks |-> NoTask]
    /\ answer = 0

(* The control plane *)

schoolVars == <<useRedis, generation, cache, redis, reads, tasks, answer>>

\* bump_config_version empties the process's cache, inside the transaction.
BeginChange(c) ==
    /\ changing = Nothing /\ version < MaxVersion
    /\ changing' = c
    /\ served' = [served EXCEPT ![c] = 0]
    /\ UNCHANGED <<version, schoolVars>>

CommitChange ==
    /\ changing # Nothing
    /\ changing' = Nothing
    /\ version' = version + 1
    /\ UNCHANGED <<served, schoolVars>>

RollBackChange ==
    /\ changing # Nothing
    /\ changing' = Nothing
    /\ UNCHANGED <<version, served, schoolVars>>

\* RUNTIME_CONFIG_TTL_SECONDS pass since the replica built its answer.
ServedExpires(c) ==
    /\ served[c] # 0
    /\ served' = [served EXCEPT ![c] = 0]
    /\ UNCHANGED <<version, changing, schoolVars>>

(* The school server *)

control == <<useRedis, version, changing, served>>

Resting(t) == tasks[t].pc = "idle"
Booked == \E t \in Tasks : tasks[t].booked

Ask(w) == [pc |-> "asked", version |-> 0, generation |-> generation,
           booked |-> TRUE, waited |-> w, by |-> Nothing]

\* refresh: join the refresh in flight, or book one; w: the caller waits for it.
Refresh(w) ==
    \/ \E t \in Tasks :
          /\ Booked /\ tasks[t].booked
          /\ tasks' = [tasks EXCEPT ![t].waited = @ \/ w]
    \/ \E t \in Tasks :
          /\ ~Booked /\ Resting(t)
          /\ tasks' = [tasks EXCEPT ![t] = Ask(w)]

\* getConfig with what it found in memory or in Redis: an entry within the TTL,
\* one that is served while it is refreshed, or nothing that can be served.
Resolve(e) ==
    \/ /\ e # Nothing /\ e.age = "fresh"
       /\ answer' = e.version
       /\ UNCHANGED tasks
    \/ /\ e # Nothing /\ e.age = "stale"
       /\ answer' = e.version
       /\ Refresh(FALSE)
    \/ /\ e # Nothing => e.age = "expired"
       /\ Refresh(TRUE)
       /\ UNCHANGED answer

\* Without an entry in memory a request asks Redis, if there is one; Redis, which
\* takes commands in the order in which they are sent, has none (Nothing) or fails.
FromMemory ==
    /\ cache # Nothing \/ ~useRedis
    /\ Resolve(cache)
    /\ UNCHANGED <<control, generation, cache, redis, reads>>

AskRedis ==
    /\ useRedis /\ cache = Nothing /\ Len(reads) < MaxReads
    /\ \E e \in {redis, Nothing} : reads' = Append(reads, e)
    /\ UNCHANGED <<control, generation, cache, redis, tasks, answer>>

\* What Redis had enters the memory, whatever is there by now; a request that
\* got nothing goes on without looking at the memory again.
RedisAnswers ==
    /\ reads # <<>>
    /\ reads' = Tail(reads)
    /\ cache' = IF Head(reads) # Nothing THEN Head(reads) ELSE cache
    /\ Resolve(Head(reads))
    /\ UNCHANGED <<control, generation, redis>>

\* build_runtime_config: the answer, or the version, that the replica has kept, ...
AnswerKept(t) ==
    /\ tasks[t].pc = "asked"
    /\ \E c \in Replicas :
          /\ served[c] # 0
          /\ tasks' = [tasks EXCEPT ![t].pc = "answered", ![t].version = served[c]]
    /\ UNCHANGED <<control, generation, cache, redis, reads, answer>>

\* ... or the committed state, ...
Build(t) ==
    /\ tasks[t].pc = "asked"
    /\ \E c \in Replicas :
          /\ served[c] = 0
          /\ tasks' = [tasks EXCEPT ![t].pc = "built", ![t].version = version, ![t].by = c]
    /\ UNCHANGED <<control, generation, cache, redis, reads, answer>>

\* ... which it keeps when it has built it, whatever has been bumped since.
Keep(t) ==
    /\ tasks[t].pc = "built"
    /\ served' = [served EXCEPT ![tasks[t].by] = tasks[t].version]
    /\ tasks' = [tasks EXCEPT ![t].pc = "answered"]
    /\ UNCHANGED <<useRedis, version, changing, generation, cache, redis,
                   reads, answer>>

Current(t) == tasks[t].generation = generation

Fetched(t) == [version |-> tasks[t].version, age |-> "fresh",
               generation |-> tasks[t].generation]

\* The refresh ends; it is discarded if invalidate() ran while it was in flight.
\* Nobody waits for the write to Redis and it may fail; no later read overtakes it.
Complete(t) ==
    /\ tasks[t].pc = "answered"
    /\ \/ /\ Current(t)
          /\ cache' = Fetched(t)
          /\ redis' \in IF useRedis THEN {redis, Fetched(t)} ELSE {redis}
       \/ ~Current(t) /\ UNCHANGED <<cache, redis>>
    /\ answer' = IF tasks[t].waited THEN tasks[t].version ELSE answer
    /\ tasks' = [tasks EXCEPT ![t] = NoTask]
    /\ UNCHANGED <<control, generation, reads>>

\* The control plane is out of reach, or its answer is lost: who waits gets the
\* fail-closed configuration.
RefreshFails(t) ==
    /\ tasks[t].pc \in {"asked", "answered"}
    /\ tasks' = [tasks EXCEPT ![t] = NoTask]
    /\ answer' = IF tasks[t].waited THEN 0 ELSE answer
    /\ UNCHANGED <<control, generation, cache, redis, reads>>

\* The webhook: invalidate() of every tenant, which leaves Redis alone, or of this
\* one, which deletes its key, unless Redis fails.
Flush ==
    /\ generation < MaxFlushes
    /\ cache' = Nothing
    /\ redis' \in {redis, Nothing}
    /\ generation' = generation + 1
    /\ tasks' = [t \in Tasks |-> [tasks[t] EXCEPT !.booked = FALSE]]
    /\ UNCHANGED <<control, reads, answer>>

Older(e) == [e EXCEPT !.age = IF @ = "fresh" THEN "stale" ELSE "expired"]

\* The copies of an entry: in memory, in Redis and on its way back.
Copies == ({cache, redis} \cup {reads[i] : i \in DOMAIN reads}) \ {Nothing}

\* Time passes for an entry and all its copies; Redis drops it at the stale ceiling.
Ages(e) ==
    /\ e.age # "expired" \/ e = redis
    /\ cache' = IF cache = e THEN Older(e) ELSE cache
    /\ redis' = IF redis # e THEN redis ELSE IF e.age = "fresh" THEN Older(e) ELSE Nothing
    /\ reads' = [i \in DOMAIN reads |-> IF reads[i] = e THEN Older(e) ELSE reads[i]]
    /\ UNCHANGED <<control, generation, tasks, answer>>

GetConfig == FromMemory \/ AskRedis \/ RedisAnswers

ConfigNext ==
    \/ \E c \in Replicas : BeginChange(c) \/ ServedExpires(c)
    \/ CommitChange \/ RollBackChange
    \/ GetConfig
    \/ \E t \in Tasks : AnswerKept(t) \/ Build(t) \/ Keep(t) \/ Complete(t) \/ RefreshFails(t)
    \/ Flush
    \/ \E e \in Copies : Ages(e)

\* Requests keep coming, time passes, a build and a read of Redis end, and the
\* control plane is not out of reach for ever.  Nothing makes the webhook arrive.
ConfigFairness ==
    /\ WF_configVars(FromMemory) /\ WF_configVars(AskRedis) /\ WF_configVars(RedisAnswers)
    /\ WF_configVars(\E e \in Copies : Ages(e))
    /\ WF_configVars(CommitChange \/ RollBackChange)
    /\ \A c \in Replicas : WF_configVars(ServedExpires(c))
    /\ SF_configVars(\E t \in Tasks : AnswerKept(t) \/ Build(t))
    /\ WF_configVars(\E t \in Tasks : Keep(t))
    /\ SF_configVars(\E t \in Tasks : Complete(t))

ConfigSpec == ConfigInit /\ [][ConfigNext]_configVars /\ ConfigFairness

-----------------------------------------------------------------------------

ConfigTypeOK ==
    /\ useRedis \in BOOLEAN
    /\ version \in Versions
    /\ changing \in Replicas \cup {Nothing}
    /\ served \in [Replicas -> 0 .. MaxVersion]
    /\ generation \in Generations
    /\ cache \in Entry \cup {Nothing}
    /\ redis \in Entry \cup {Nothing}
    /\ reads \in Seq(Entry \cup {Nothing})
    /\ tasks \in [Tasks -> Task]
    /\ answer \in 0 .. MaxVersion

\* "A refresh that started before the webhook cannot write a stale config back
\* into the cache after a deliberate flush": without Redis, what is in memory
\* was asked for after the last webhook.
FlushHolds == ~useRedis /\ cache # Nothing => cache.generation = generation

\* At most one refresh is in flight for a generation (refresh: "collapsing
\* concurrent callers onto one request").
OneRefreshPerGeneration ==
    \A s, t \in Tasks : ~Resting(s) /\ ~Resting(t) /\ s # t
                           => tasks[s].generation # tasks[t].generation

\* What is in memory, and what is on its way there, belongs to one flush each
\* (RuntimeConfigService refresh, writeCache, invalidate).
RefreshesHold == FlushHolds /\ OneRefreshPerGeneration

\* An answer of Redis arrives at a request, or one a replica had kept at a refresh.
CopyArrives ==
    \/ Len(reads') < Len(reads)
    \/ \E t \in Tasks : tasks[t].pc = "answered" /\ tasks[t].by = Nothing /\ tasks'[t].pc = "idle"

\* The configuration in memory goes back in time only where the code takes a copy
\* for good: an entry that Redis answers, or an answer a control process had kept.
\* What a refresh has had built from the committed state is never older than what
\* it replaces, whatever flushes, Redis reads, and other
\* refreshes came between the build and its arrival (refresh, getConfig).
OnlyCopiesRegress ==
    [][cache # Nothing /\ cache' # Nothing /\ cache'.version < cache.version
          => CopyArrives]_configVars

\* A change reaches the school, with or without its webhook: again and again what
\* is committed is what the school is answered.  When there are no more changes the
\* copies that Redis and the control processes hold of older ones wash out: the
\* answer is the last one for good, unless the control plane is out of reach (0,
\* the fail-closed configuration).
ChangeReachesSchool ==
    /\ []<>(answer = version)
    /\ <>[](answer \in {0, version})

-----------------------------------------------------------------------------
(* What the source says and the code does not do.                          *)

\* RuntimeConfigService: "`invalidate()` is called by the control webhook, so
\* real changes still propagate immediately": what is in memory was asked for
\* after the last webhook, with Redis as well.
ChangesPropagate == cache # Nothing => cache.generation = generation
=============================================================================

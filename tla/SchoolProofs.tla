----------------------------- MODULE SchoolProofs -----------------------------
(***************************************************************************)
(* Proofs about parts of the school server: the cache of lists, Links and  *)
(* Promotions, computer-based tests, exeats, the timetable, offline        *)
(* devices, the library, the sign-in of staff, and the accounts that       *)
(* schools and families get, for any number of requests, rows, devices and *)
(* people.                                                                 *)
(***************************************************************************)
EXTENDS ListCache, Rosters, Cbt, Exeats, TimetableSync, Library,
        StaffAttendance, Accounts, SumTheorems, SequenceTheorems, TLAPS

-----------------------------------------------------------------------------
(* The cache of lists: ListCache.                                          *)

-----------------------------------------------------------------------------
(* The strengthening.                                                      *)

Queried(l) == load[l].pc \in {"queried", "stored", "settled"}
UpToDate(l) == Running(l) /\ load[l].gen = generation

\* The key's load in flight is the one load of the current generation that
\* runs: an invalidation that finds none has none to disown.
InFlightInv ==
    /\ \A l \in Loads : load[l].gen <= generation
    /\ \A l \in Loads : UpToDate(l) <=> inFlight = l

\* What may still be stored, and what is, is as young as the last invalidation.
EntryInv ==
    /\ floor <= rows
    /\ entry # NoEntry => entry >= floor
    /\ \A l \in Loads : UpToDate(l) /\ Queried(l) => load[l].value >= floor

\* A caller waits for a load that has not read yet, or has read late enough.
Served(r) ==
    /\ reader[r].floor <= rows
    /\ reader[r].pc = "waiting" =>
          /\ reader[r].load \in Loads
          /\ load[reader[r].load].pc # "free"
          /\ Queried(reader[r].load) =>
                load[reader[r].load].value >= reader[r].floor
    /\ reader[r].pc = "done" => reader[r].value >= reader[r].floor

WaitingInv == \A r \in Readers : Served(r)

ListInv == InFlightInv /\ EntryInv /\ WaitingInv

-----------------------------------------------------------------------------
(* Type correctness: a caller only ever waits for a load.                  *)

LEMMA ListInitType == ListInit => ListTypeOK
BY ListCacheAssumption
   DEF ListInit, ListTypeOK, Versions, LoadPcs, NewLoad, NewReader, NoEntry

LEMMA ReaderStepType ==
    ASSUME ListTypeOK, ListInv, NEW r \in Readers,
           GetCached(r) \/ JoinInFlight(r) \/ Deliver(r)
    PROVE  ListTypeOK'
<1> USE ListCacheAssumption DEF ListTypeOK, Versions, NoEntry
<1>1. CASE GetCached(r)
      BY <1>1 DEF GetCached
<1>2. CASE JoinInFlight(r)
      BY <1>2 DEF JoinInFlight, Await
<1>3. CASE Deliver(r)
  <2>1. reader[r].load \in Loads
        BY <1>3 DEF Deliver, ListInv, WaitingInv, Served
  <2>2. load[reader[r].load].value \in 0 .. MaxEdits
        BY <2>1
  <2>3. [reader[r] EXCEPT !.pc = "done", !.value = load[reader[r].load].value]
           \in [pc : {"idle", "waiting", "done"}, load : Loads \cup {NoLoad},
                value : 0 .. MaxEdits, floor : 0 .. MaxEdits]
        BY <2>2
  <2>4. reader' = [reader EXCEPT ![r] = [reader[r] EXCEPT !.pc = "done",
                                     !.value = load[reader[r].load].value]]
        BY <1>3 DEF Deliver
  <2>5. QED BY <1>3, <2>3, <2>4 DEF Deliver
<1>4. QED BY <1>1, <1>2, <1>3

LEMMA LoadStepType ==
    ASSUME ListTypeOK, NEW l \in Loads,
           \/ \E r \in Readers : StartLoad(r, l)
           \/ Query(l) \/ Store(l) \/ Settle(l) \/ FailLoad(l)
    PROVE  ListTypeOK'
<1> USE ListCacheAssumption DEF ListTypeOK, Versions, NoEntry, LoadPcs
<1>1. CASE \E r \in Readers : StartLoad(r, l)
      BY <1>1 DEF StartLoad, Await
<1>2. CASE Query(l)
  <2> DEFINE Record == [pc : {"free", "query", "queried", "stored", "settled"},
                        gen : 0 .. MaxInvalidations, value : 0 .. MaxEdits]
  <2>0. load[l] \in Record /\ rows \in 0 .. MaxEdits
        OBVIOUS
  <2>1. [load[l] EXCEPT !.pc = "queried", !.value = rows] \in Record
        BY ONLY <2>0
  <2>2. load' = [load EXCEPT ![l] = [load[l] EXCEPT !.pc = "queried", !.value = rows]]
        BY <1>2 DEF Query
  <2>3. QED BY <1>2, <2>1, <2>2 DEF Query
<1>3. CASE Store(l)
      BY <1>3 DEF Store
<1>4. CASE Settle(l)
      BY <1>4 DEF Settle
<1>5. CASE FailLoad(l)
      BY <1>5 DEF FailLoad, NewLoad, NewReader
<1>6. QED BY <1>1, <1>2, <1>3, <1>4, <1>5

LEMMA ListStepType ==
    ASSUME ListTypeOK, ListInv, [ListNext]_listVars
    PROVE  ListTypeOK'
<1>1. CASE ChangeRows
      BY <1>1, ListCacheAssumption DEF ChangeRows, ListTypeOK, Versions
<1>2. CASE Invalidate
      BY <1>2, ListCacheAssumption DEF Invalidate, ForgetInFlight, ListTypeOK, Versions
<1>3. CASE Expire
      BY <1>3 DEF Expire, ListTypeOK
<1>4. CASE UNCHANGED listVars
      BY <1>4 DEF listVars, ListTypeOK
<1>5. QED BY <1>1, <1>2, <1>3, <1>4, ReaderStepType, LoadStepType DEF ListNext

-----------------------------------------------------------------------------
(* The strengthening is inductive.                                         *)

LEMMA ListInitInv == ListInit => ListInv
BY ListCacheAssumption
   DEF ListInit, ListInv, InFlightInv, EntryInv, WaitingInv, Served, NewLoad,
       NewReader, NoEntry, UpToDate, Running, Queried

\* Rows change and entries go.
LEMMA ChangeInv ==
    ASSUME ListTypeOK, ListInv, ChangeRows \/ Expire
    PROVE  ListInv'
<1> USE DEF ListInv, InFlightInv, EntryInv, WaitingInv, Served, UpToDate,
            Running, Queried, ListTypeOK, Versions
<1>1. CASE ChangeRows
      BY <1>1, ListCacheAssumption DEF ChangeRows
<1>2. CASE Expire
      BY <1>2 DEF Expire
<1>3. QED BY <1>1, <1>2

LEMMA InvalidateInv ==
    ASSUME ListTypeOK, ListInv, Invalidate
    PROVE  ListInv'
<1> USE DEF ListTypeOK, Versions
<1>1. /\ entry' = NoEntry /\ floor' = rows /\ inFlight' = NoLoad
      /\ generation' = generation \/ generation' = generation + 1
      /\ generation' = generation => inFlight = NoLoad
      /\ UNCHANGED <<rows, load, reader>>
      BY DEF Invalidate, ForgetInFlight
<1>2. \A l \in Loads : ~UpToDate(l)'
      BY <1>1, ListCacheAssumption DEF ListInv, InFlightInv, UpToDate, Running
<1>3. InFlightInv'
      BY <1>1, <1>2, ListCacheAssumption DEF ListInv, InFlightInv
<1>4. EntryInv'
      BY <1>1, <1>2 DEF EntryInv
<1>5. WaitingInv'
      BY <1>1 DEF ListInv, WaitingInv, Served, Queried
<1>6. QED BY <1>3, <1>4, <1>5 DEF ListInv

LEMMA ReaderInv ==
    ASSUME ListTypeOK, ListInv, NEW r \in Readers,
           GetCached(r) \/ JoinInFlight(r) \/ Deliver(r)
    PROVE  ListInv'
<1> USE DEF ListTypeOK, Versions
<1>1. /\ UNCHANGED <<rows, entry, inFlight, generation, load, floor>>
      /\ \A q \in Readers : q # r => reader'[q] = reader[q]
      BY DEF GetCached, JoinInFlight, Await, Deliver
<1>2. InFlightInv' /\ EntryInv'
      BY <1>1 DEF ListInv, InFlightInv, EntryInv, UpToDate, Running, Queried
<1>3. Served(r)'
  <2>1. CASE GetCached(r)
        BY <2>1, <1>1 DEF GetCached, ListInv, EntryInv, Served
  <2>2. CASE JoinInFlight(r)
    <3>1. inFlight \in Loads /\ UpToDate(inFlight)
          BY <2>2 DEF JoinInFlight, ListInv, InFlightInv
    <3>2. Queried(inFlight) => load[inFlight].value >= floor
          BY <3>1 DEF ListInv, EntryInv
    <3>3. reader'[r] = [pc |-> "waiting", load |-> inFlight, value |-> 0, floor |-> floor]
          BY <2>2 DEF JoinInFlight, Await
    <3>4. load[inFlight].pc # "free" /\ floor <= rows
          BY <3>1 DEF UpToDate, Running, ListInv, EntryInv
    <3>5. /\ load'[inFlight] = load[inFlight] /\ rows' = rows
          BY <1>1
    <3>6. QED BY <3>1, <3>2, <3>3, <3>4, <3>5 DEF Served, Queried
  <2>3. CASE Deliver(r)
    <3>1. /\ reader[r].load \in Loads
          /\ load[reader[r].load].value >= reader[r].floor
          /\ reader[r].floor <= rows
          BY <2>3 DEF Deliver, ListInv, WaitingInv, Served, Queried
    <3>2. /\ reader'[r].pc = "done" /\ reader'[r].floor = reader[r].floor
          /\ reader'[r].value = load[reader[r].load].value
          BY <2>3 DEF Deliver
    <3>3. QED BY <3>1, <3>2, <1>1 DEF Served
  <2>4. QED BY <2>1, <2>2, <2>3
<1>4. WaitingInv'
      BY <1>1, <1>3 DEF ListInv, WaitingInv, Served, Queried
<1>5. QED BY <1>2, <1>4 DEF ListInv

LEMMA LoadStartInv ==
    ASSUME ListTypeOK, ListInv, NEW r \in Readers, NEW l \in Loads, StartLoad(r, l)
    PROVE  ListInv'
<1> USE DEF ListTypeOK, Versions
<1>1. /\ load'[l] = [pc |-> "query", gen |-> generation, value |-> 0]
      /\ \A k \in Loads : k # l => load'[k] = load[k]
      /\ reader'[r] = [pc |-> "waiting", load |-> l, value |-> 0, floor |-> floor]
      /\ \A q \in Readers : q # r => reader'[q] = reader[q]
      /\ inFlight = NoLoad /\ inFlight' = l
      /\ UNCHANGED <<rows, entry, generation, floor>>
      BY DEF StartLoad, Await
<1>2. \A k \in Loads : ~UpToDate(k)
      BY <1>1, ListCacheAssumption DEF ListInv, InFlightInv
<1>3. \A q \in Readers : reader[q].pc = "waiting" => reader[q].load # l
      BY DEF StartLoad, Waiting
<1>4. \A k \in Loads : k # l => (UpToDate(k)' <=> UpToDate(k))
      BY <1>1 DEF UpToDate, Running
<1>5. UpToDate(l)' /\ ~Queried(l)'
      BY <1>1 DEF UpToDate, Running, Queried
<1>6. InFlightInv'
      BY <1>1, <1>2, <1>4, <1>5 DEF ListInv, InFlightInv
<1>7. EntryInv'
      BY <1>1, <1>2, <1>4, <1>5 DEF ListInv, EntryInv
<1>8. ASSUME NEW q \in Readers
      PROVE  Served(q)'
  <2>1. CASE q = r
        BY <2>1, <1>1, <1>5 DEF ListInv, EntryInv, Served, Queried
  <2>2. CASE q # r
        BY <2>2, <1>1, <1>3 DEF ListInv, WaitingInv, Served, Queried
  <2>3. QED BY <2>1, <2>2
<1>9. WaitingInv'
      BY <1>8 DEF WaitingInv
<1>10. QED BY <1>6, <1>7, <1>9 DEF ListInv

LEMMA QueryInv ==
    ASSUME ListTypeOK, ListInv, NEW l \in Loads, Query(l)
    PROVE  ListInv'
<1> USE DEF ListTypeOK, Versions
<1>1. /\ load'[l].pc = "queried" /\ load'[l].gen = load[l].gen /\ load'[l].value = rows
      /\ load[l].pc = "query"
      /\ \A k \in Loads : k # l => load'[k] = load[k]
      /\ UNCHANGED <<rows, entry, inFlight, generation, reader, floor>>
      BY DEF Query
<1>2. \A k \in Loads : UpToDate(k)' <=> UpToDate(k)
      BY <1>1 DEF UpToDate, Running
<1>3. InFlightInv'
      BY <1>1, <1>2 DEF ListInv, InFlightInv
<1>4. EntryInv'
      BY <1>1, <1>2 DEF ListInv, EntryInv, Queried
<1>5. WaitingInv'
      BY <1>1 DEF ListInv, WaitingInv, Served, Queried
<1>6. QED BY <1>3, <1>4, <1>5 DEF ListInv

LEMMA StoreInv ==
    ASSUME ListTypeOK, ListInv, NEW l \in Loads, Store(l)
    PROVE  ListInv'
<1> USE DEF ListTypeOK, Versions
<1>1. /\ load[l].pc = "queried" /\ load'[l].pc = "stored"
      /\ load'[l].gen = load[l].gen /\ load'[l].value = load[l].value
      /\ \A k \in Loads : k # l => load'[k] = load[k]
      /\ entry' = IF load[l].gen = generation THEN load[l].value ELSE entry
      /\ UNCHANGED <<rows, inFlight, generation, reader, floor>>
      BY DEF Store
<1>2. \A k \in Loads : UpToDate(k)' <=> UpToDate(k)
      BY <1>1 DEF UpToDate, Running
<1>3. InFlightInv'
      BY <1>1, <1>2 DEF ListInv, InFlightInv
<1>4. entry' # NoEntry => entry' >= floor
      BY <1>1 DEF ListInv, EntryInv, UpToDate, Running, Queried
<1>5. EntryInv'
      BY <1>1, <1>2, <1>4 DEF ListInv, EntryInv, Queried
<1>6. WaitingInv'
      BY <1>1 DEF ListInv, WaitingInv, Served, Queried
<1>7. QED BY <1>3, <1>5, <1>6 DEF ListInv

LEMMA SettleInv ==
    ASSUME ListTypeOK, ListInv, NEW l \in Loads, Settle(l)
    PROVE  ListInv'
<1> USE DEF ListTypeOK, Versions
<1>1. /\ load[l].pc = "stored" /\ load'[l].pc = "settled"
      /\ load'[l].gen = load[l].gen /\ load'[l].value = load[l].value
      /\ \A k \in Loads : k # l => load'[k] = load[k]
      /\ inFlight' = IF inFlight = l THEN NoLoad ELSE inFlight
      /\ UNCHANGED <<rows, entry, generation, reader, floor>>
      BY DEF Settle
<1>2. \A k \in Loads : UpToDate(k)' <=> UpToDate(k) /\ k # l
      BY <1>1 DEF UpToDate, Running
<1>3. InFlightInv'
      BY <1>1, <1>2, ListCacheAssumption DEF ListInv, InFlightInv
<1>4. EntryInv'
      BY <1>1, <1>2 DEF ListInv, EntryInv, Queried
<1>5. WaitingInv'
      BY <1>1 DEF ListInv, WaitingInv, Served, Queried
<1>6. QED BY <1>3, <1>4, <1>5 DEF ListInv

LEMMA FailInv ==
    ASSUME ListTypeOK, ListInv, NEW l \in Loads, FailLoad(l)
    PROVE  ListInv'
<1> USE DEF ListTypeOK, Versions
<1>1. /\ load'[l].pc = "free" /\ load'[l].gen = 0
      /\ \A k \in Loads : k # l => load'[k] = load[k]
      /\ inFlight' = IF inFlight = l THEN NoLoad ELSE inFlight
      /\ \A q \in Readers : reader'[q] = IF q \in Waiting(l) THEN NewReader ELSE reader[q]
      /\ UNCHANGED <<rows, entry, generation, floor>>
      BY DEF FailLoad, NewLoad
<1>2. \A k \in Loads : UpToDate(k)' <=> UpToDate(k) /\ k # l
      BY <1>1 DEF UpToDate, Running
<1>3. InFlightInv'
      BY <1>1, <1>2, ListCacheAssumption DEF ListInv, InFlightInv
<1>4. EntryInv'
      BY <1>1, <1>2 DEF ListInv, EntryInv, Queried
<1>5. ASSUME NEW q \in Readers
      PROVE  Served(q)'
  <2>1. CASE q \in Waiting(l)
        BY <2>1, <1>1 DEF NewReader, Served
  <2>2. CASE q \notin Waiting(l)
        BY <2>2, <1>1 DEF Waiting, ListInv, WaitingInv, Served, Queried
  <2>3. QED BY <2>1, <2>2
<1>6. WaitingInv'
      BY <1>5 DEF WaitingInv
<1>7. QED BY <1>3, <1>4, <1>6 DEF ListInv

LEMMA ListStepInv ==
    ASSUME ListTypeOK, ListInv, [ListNext]_listVars
    PROVE  ListInv'
<1>1. CASE UNCHANGED listVars
      BY <1>1 DEF listVars, ListInv, InFlightInv, EntryInv, WaitingInv, Served,
            UpToDate, Running, Queried
<1>2. CASE ListNext
      BY <1>2, ChangeInv, InvalidateInv, ReaderInv, LoadStartInv, QueryInv, StoreInv,
         SettleInv, FailInv DEF ListNext
<1>3. QED BY <1>1, <1>2

LEMMA ListAlways == ListSpec => [](ListTypeOK /\ ListInv)
<1>1. QED BY ListInitType, ListInitInv, ListStepType, ListStepInv, PTL DEF ListSpec

\* Entries, loads and callers keep their shapes.
THEOREM ListTypes == ListSpec => []ListTypeOK
<1>1. QED BY ListAlways, PTL

\* getOrLoad never answers with a list older than the last invalidation before
\* the call, whichever loads overlap.
THEOREM ListsAreCurrent == ListSpec => []ReadsAreCurrent
<1>1. WaitingInv => ReadsAreCurrent
      BY DEF WaitingInv, Served, ReadsAreCurrent
<1>2. QED BY <1>1, ListAlways, PTL DEF ListInv

-----------------------------------------------------------------------------
(* Links.                                                                  *)

\* All requests that are about x list it, or all of them leave it out.
AllWant(x) == \A r \in About(x) : x \in linker[r].want
NoneWants(x) == \A r \in About(x) : x \notin linker[r].want

\* What a request knows of a link that is not in doubt.
KeepsInv(x) ==
    AllWant(x) =>
       /\ x \in firstLinks => x \in linked
       /\ \A r \in About(x) : x \in linker[r].have => x \in linked
       /\ \A r \in Through(x) : x \in linked

DropsInv(x) ==
    NoneWants(x) =>
       /\ x \notin firstLinks => x \notin linked
       /\ \A r \in About(x) : x \in linked => x \in linker[r].have
       /\ \A r \in Through(x) : x \notin linked

\* A request inserts and deletes only what its list is about.
ListsInv ==
    \A r \in Linkers :
        /\ linker[r].want \subseteq linker[r].list
        /\ linker[r].have \subseteq linker[r].list
        /\ linker[r].pc = "delete" => linker[r].want \subseteq linker[r].have

LinksInv == LinksTypeOK /\ ListsInv /\ \A x \in Items : KeepsInv(x) /\ DropsInv(x)

LEMMA LinksInitInv == LinksInit => LinksInv
<1> SUFFICES ASSUME LinksInit PROVE LinksInv
    OBVIOUS
<1>1. LinksTypeOK /\ ListsInv
      BY DEF LinksInit, LinksTypeOK, ListsInv, NewLinker
<1>2. ASSUME NEW x \in Items PROVE KeepsInv(x) /\ DropsInv(x)
  <2>1. About(x) = {} /\ Through(x) = {}
        BY DEF LinksInit, NewLinker, About, Through
  <2>2. QED BY <2>1 DEF LinksInit, KeepsInv, DropsInv
<1>3. QED BY <1>1, <1>2 DEF LinksInv

\* A request that is under way takes a step: it stays about the same list.
LEMMA LinkerStep ==
    ASSUME LinksInv, NEW r \in Linkers, NEW x \in Items,
           linker[r].pc # "new", linker'[r].pc # "new",
           \A q \in Linkers : q # r => linker'[q] = linker[q],
           linker'[r].list = linker[r].list, linker'[r].want = linker[r].want
    PROVE  /\ About(x)' = About(x)
           /\ AllWant(x)' <=> AllWant(x)
           /\ NoneWants(x)' <=> NoneWants(x)
<1>1. \A q \in Linkers : /\ linker'[q].list = linker[q].list
                          /\ linker'[q].want = linker[q].want
                          /\ linker'[q].pc # "new" <=> linker[q].pc # "new"
      OBVIOUS
<1>2. About(x)' = About(x) /\ About(x) \subseteq Linkers
      BY <1>1 DEF About
<1>3. QED BY <1>1, <1>2 DEF AllWant, NoneWants

\* What a step of a request may do to a link, and to what the request knows of
\* it: a wanted link is not lost, one that is not wanted is not created, and
\* the request that gets through has seen to it.
Effect(r, x) ==
    /\ x \in linker[r].want \/ x \notin linker[r].list => (x \in linked => x \in linked')
    /\ x \in linker'[r].have => x \in linker[r].have \/ x \in linked'
    /\ x \in linker[r].want /\ linker'[r].pc = "done" => x \in linker[r].have \/ x \in linked'
    /\ x \notin linker[r].want => (x \in linked' => x \in linked)
    /\ x \in linked' /\ x \in linker[r].have => x \in linker'[r].have
    /\ x \in linker[r].list \ linker[r].want /\ linker'[r].pc = "done"
          /\ (x \in linked => x \in linker[r].have)
          => x \notin linked'

\* One link is kept, or dropped, by a step of a request.
LEMMA LinkKept ==
    ASSUME LinksInv, NEW r \in Linkers, NEW x \in Items,
           linker[r].pc \notin {"new", "done"}, linker'[r].pc # "new",
           \A q \in Linkers : q # r => linker'[q] = linker[q],
           linker'[r].list = linker[r].list, linker'[r].want = linker[r].want,
           UNCHANGED firstLinks,
           Effect(r, x)
    PROVE  KeepsInv(x)' /\ DropsInv(x)'
<1>1. /\ About(x)' = About(x)
      /\ AllWant(x)' <=> AllWant(x)
      /\ NoneWants(x)' <=> NoneWants(x)
      BY LinkerStep
<1>2. r \in About(x) <=> x \in linker[r].list
      BY DEF About
<1>3. x \in linker[r].want => x \in linker[r].list
      BY DEF LinksInv, ListsInv
<1>4. ASSUME AllWant(x)
      PROVE  KeepsInv(x)'
  <2>1. x \in linker[r].want \/ x \notin linker[r].list
        BY <1>2, <1>4 DEF AllWant
  <2>2. x \in linked => x \in linked'
        BY <2>1 DEF Effect
  <2>3. KeepsInv(x)
        BY DEF LinksInv
  <2>4. x \in firstLinks' => x \in linked'
        BY <2>2, <2>3, <1>4 DEF KeepsInv
  <2>5. \A q \in About(x) : x \in linker'[q].have => x \in linked'
        BY <2>2, <2>3, <1>4 DEF KeepsInv, About, Effect
  <2>6. \A q \in About(x) : linker'[q].pc = "done" => x \in linked'
        BY <2>1, <2>2, <2>3, <1>2, <1>4 DEF KeepsInv, About, Through, Effect
  <2>7. QED BY <1>1, <2>4, <2>5, <2>6 DEF KeepsInv, Through
<1>5. ASSUME NoneWants(x)
      PROVE  DropsInv(x)'
  <2>1. x \notin linker[r].want
        BY <1>2, <1>3, <1>5 DEF NoneWants
  <2>2. x \in linked' => x \in linked
        BY <2>1 DEF Effect
  <2>3. DropsInv(x)
        BY DEF LinksInv
  <2>4. x \notin firstLinks' => x \notin linked'
        BY <2>2, <2>3, <1>5 DEF DropsInv
  <2>5. \A q \in About(x) : x \in linked' => x \in linker'[q].have
        BY <2>2, <2>3, <1>5 DEF DropsInv, About, Effect
  <2>6. \A q \in About(x) : linker'[q].pc = "done" => x \notin linked'
        BY <2>1, <2>2, <2>3, <1>2, <1>5 DEF DropsInv, About, Through, Effect
  <2>7. QED BY <1>1, <2>4, <2>5, <2>6 DEF DropsInv, Through
<1>6. QED BY <1>1, <1>4, <1>5 DEF KeepsInv, DropsInv

-----------------------------------------------------------------------------
(* The requests' steps.                                                    *)

LinkerRows == [pc : {"new", "insert", "delete", "replace", "done", "failed"},
               list : SUBSET Items, want : SUBSET Items, have : SUBSET Items]

LEMMA LinkerFacts ==
    ASSUME LinksInv, NEW r \in Linkers
    PROVE  /\ linker[r] \in LinkerRows /\ linked \subseteq Items
           /\ linker[r].want \subseteq linker[r].list
           /\ linker[r].have \subseteq linker[r].list
           /\ linker[r].pc = "delete" => linker[r].want \subseteq linker[r].have
BY DEF LinksInv, LinksTypeOK, ListsInv, LinkerRows

\* Request r gets to pc, having seen or made these links.
StepTo(r, pc, have) ==
    linker' = [linker EXCEPT ![r] = [linker[r] EXCEPT !.pc = pc, !.have = have]]

NextPcs == {"insert", "delete", "replace", "done", "failed"}

LEMMA StepToFacts ==
    ASSUME LinksInv, NEW r \in Linkers, NEW pc \in NextPcs,
           NEW have \in SUBSET linker[r].list, StepTo(r, pc, have)
    PROVE  /\ linker'[r].pc = pc /\ linker'[r].have = have
           /\ linker'[r].list = linker[r].list /\ linker'[r].want = linker[r].want
           /\ \A q \in Linkers : q # r => linker'[q] = linker[q]
           /\ linker' \in [Linkers -> LinkerRows]
<1>1. linker[r] \in LinkerRows /\ linker \in [Linkers -> LinkerRows]
      BY DEF LinksInv, LinksTypeOK, LinkerRows
<1>2. have \in SUBSET Items
      BY <1>1 DEF LinkerRows
<1>3. [linker[r] EXCEPT !.pc = pc, !.have = have] \in LinkerRows
      BY <1>1, <1>2 DEF LinkerRows, NextPcs
<1>4. QED BY <1>1, <1>3 DEF LinkerRows, StepTo

Effects(r) == \A x \in Items : Effect(r, x)

LEMMA LinksStepOf ==
    ASSUME LinksInv, NEW r \in Linkers, NEW pc \in NextPcs,
           NEW have \in SUBSET linker[r].list, StepTo(r, pc, have),
           linker[r].pc \notin {"new", "done"},
           pc = "delete" => linker[r].want \subseteq have,
           linked' \subseteq Items, UNCHANGED firstLinks, Effects(r)
    PROVE  LinksInv'
<1>1. LinksTypeOK'
      BY StepToFacts DEF LinksInv, LinksTypeOK, LinkerRows
<1>2. ListsInv'
      BY StepToFacts DEF LinksInv, ListsInv
<1>3. ASSUME NEW x \in Items
      PROVE  KeepsInv(x)' /\ DropsInv(x)'
  <2>1. Effect(r, x)
        BY DEF Effects
  <2>2. linker'[r].pc # "new"
        BY StepToFacts DEF NextPcs
  <2>3. QED BY <2>1, <2>2, StepToFacts, LinkKept
<1>4. QED BY <1>1, <1>2, <1>3 DEF LinksInv

LEMMA InsertInv ==
    ASSUME LinksInv, NEW r \in Linkers, NEW y \in Items, InsertLink(r, y)
    PROVE  LinksInv'
<1>1. /\ linker[r].pc = "insert" /\ y \in linker[r].want /\ y \notin linker[r].have
      /\ linked' = linked \cup {y} /\ UNCHANGED firstLinks
      BY DEF InsertLink, Missing
<1>2. linked' \subseteq Items
      BY <1>1, LinkerFacts
<1>3. PICK pc \in NextPcs, have \in SUBSET linker[r].list :
         /\ StepTo(r, pc, have)
         /\ \/ pc = "failed" /\ have = linker[r].have
            \/ pc = "insert" /\ have = linker[r].have \cup {y}
  <2>1. CASE y \in linked
    <3>1. StepTo(r, "failed", linker[r].have)
          BY LinkerFacts, <2>1 DEF InsertLink, LinkerRows, StepTo
    <3>2. linker[r].have \in SUBSET linker[r].list
          BY LinkerFacts
    <3>3. QED BY <3>1, <3>2 DEF NextPcs
  <2>2. CASE y \notin linked
    <3>1. StepTo(r, "insert", linker[r].have \cup {y})
          BY <1>1, <2>2, LinkerFacts DEF InsertLink, LinkerRows, StepTo
    <3>2. linker[r].have \cup {y} \in SUBSET linker[r].list
          BY <1>1, LinkerFacts
    <3>3. QED BY <3>1, <3>2 DEF NextPcs
  <2>3. QED BY <2>1, <2>2
<1>4. linker'[r].pc = pc /\ linker'[r].have = have
      BY <1>3, StepToFacts
<1>5. Effects(r)
      BY <1>1, <1>3, <1>4, LinkerFacts DEF Effects, Effect
<1>6. linker[r].pc \notin {"new", "done"} /\ pc # "delete"
      BY <1>1, <1>3
<1>7. QED BY <1>1, <1>2, <1>3, <1>5, <1>6, LinksStepOf

LEMMA DeleteInv ==
    ASSUME LinksInv, NEW r \in Linkers, NEW y \in Items, DeleteLink(r, y)
    PROVE  LinksInv'
<1> DEFINE have == linker[r].have \ {y}
<1>1. /\ linker[r].pc = "delete" /\ y \notin linker[r].want /\ y \in linker[r].have
      /\ linked' = linked \ {y} /\ UNCHANGED firstLinks
      BY DEF DeleteLink, Extra
<1>2. StepTo(r, "delete", have)
      BY <1>1, LinkerFacts DEF DeleteLink, LinkerRows, StepTo
<1>3. "delete" \in NextPcs /\ have \in SUBSET linker[r].list /\ linked' \subseteq Items
      BY <1>1, LinkerFacts DEF NextPcs
<1>4. linker[r].want \subseteq have
      BY <1>1, LinkerFacts
<1>5. linker'[r].pc = "delete" /\ linker'[r].have = have
  <2> HIDE DEF have
  <2>1. QED BY <1>2, <1>3, StepToFacts
<1>6. Effects(r)
      BY <1>1, <1>5, LinkerFacts DEF Effects, Effect
<1>7. linker[r].pc \notin {"new", "done"}
      BY <1>1
<1> HIDE DEF have
<1>8. QED BY <1>1, <1>2, <1>3, <1>4, <1>6, <1>7, LinksStepOf

\* Steps that write no link: the end of the inserts and of the request, and a
\* failure.
LEMMA EndInv ==
    ASSUME LinksInv, NEW r \in Linkers,
           EndInserts(r) \/ EndLinks(r) \/ FailLinks(r)
    PROVE  LinksInv'
<1> DEFINE have == linker[r].have
<1>1. PICK pc \in NextPcs :
         /\ linker' = [linker EXCEPT ![r].pc = pc]
         /\ linker[r].pc \in {"insert", "delete", "replace"}
         /\ pc = "delete" => linker[r].want \subseteq linker[r].have
         /\ pc = "done" => linker[r].pc = "delete"
                           /\ linker[r].have \subseteq linker[r].want
      BY DEF EndInserts, EndLinks, FailLinks, Missing, Extra, NextPcs
<1>2. UNCHANGED <<linked, firstLinks>>
      BY DEF EndInserts, EndLinks, FailLinks
<1>3. StepTo(r, pc, have)
      BY <1>1, LinkerFacts DEF LinkerRows, StepTo
<1>4. have \in SUBSET linker[r].list /\ linked' \subseteq Items
      BY <1>2, LinkerFacts
<1>5. linker'[r].pc = pc /\ linker'[r].have = have
      BY <1>1, <1>3, <1>4, StepToFacts
<1>6. Effects(r)
      BY <1>1, <1>2, <1>5, LinkerFacts DEF Effects, Effect
<1>7. linker[r].pc \notin {"new", "done"}
      BY <1>1
<1>8. QED BY <1>1, <1>2, <1>3, <1>4, <1>6, <1>7, LinksStepOf

LEMMA CommitInv ==
    ASSUME LinksInv, NEW r \in Linkers, CommitScope(r)
    PROVE  LinksInv'
<1> DEFINE have == linker[r].have
           others == linked \ linker[r].have
<1>1. linker[r].pc = "replace" /\ UNCHANGED firstLinks
      BY DEF CommitScope
<1>2. PICK pc \in {"done", "failed"} :
         /\ linker' = [linker EXCEPT ![r].pc = pc]
         /\ pc = "failed" => linked' = linked
         /\ pc = "done" => linked' = others \cup linker[r].want
      BY DEF CommitScope
<1>3. StepTo(r, pc, have)
      BY <1>2, LinkerFacts DEF LinkerRows, StepTo
<1>4. /\ pc \in NextPcs /\ have \in SUBSET linker[r].list
      /\ linked' \subseteq Items
      BY <1>2, LinkerFacts DEF NextPcs, LinkerRows
<1>5. linker'[r].pc = pc /\ linker'[r].have = have
      BY <1>3, <1>4, StepToFacts
<1>6. Effects(r)
      BY <1>2, <1>5, LinkerFacts DEF Effects, Effect
<1>7. linker[r].pc \notin {"new", "done"} /\ pc # "delete"
      BY <1>1, <1>2
<1>8. QED BY <1>1, <1>3, <1>4, <1>6, <1>7, LinksStepOf

LEMMA ReadInv ==
    ASSUME LinksInv, NEW r \in Linkers, NEW list \in SUBSET Items, NEW want,
           NEW pc \in {"insert", "replace"}, ReadLinks(r, list, want, pc)
    PROVE  LinksInv'
<1>1. /\ linker[r].pc = "new" /\ want \subseteq list
      /\ linker'[r] = [pc |-> pc, list |-> list, want |-> want, have |-> linked \cap list]
      /\ \A q \in Linkers : q # r => linker'[q] = linker[q]
      /\ UNCHANGED <<linked, firstLinks>>
      BY DEF ReadLinks, LinksInv, LinksTypeOK
<1>2. LinksTypeOK'
      BY <1>1 DEF ReadLinks, LinksInv, LinksTypeOK
<1>3. ListsInv'
      BY <1>1 DEF LinksInv, ListsInv
<1>4. ASSUME NEW x \in Items
      PROVE  KeepsInv(x)' /\ DropsInv(x)'
  <2>1. About(x)' = About(x) \cup {q \in {r} : x \in list}
        BY <1>1 DEF About
  <2>2. /\ AllWant(x)' => AllWant(x)
        /\ NoneWants(x)' => NoneWants(x)
        BY <1>1, <2>1 DEF AllWant, NoneWants, About
  <2>3. Through(x)' = Through(x)
        BY <1>1, <2>1 DEF Through, About
  <2>4. KeepsInv(x) /\ DropsInv(x)
        BY DEF LinksInv
  <2>5. KeepsInv(x)'
        BY <1>1, <2>1, <2>2, <2>3, <2>4 DEF KeepsInv, About
  <2>6. DropsInv(x)'
        BY <1>1, <2>1, <2>2, <2>3, <2>4 DEF DropsInv, About
  <2>7. QED BY <2>5, <2>6
<1>5. QED BY <1>2, <1>3, <1>4 DEF LinksInv

LEMMA LinksStepInv ==
    ASSUME LinksInv, [LinksNext]_linksVars
    PROVE  LinksInv'
<1>1. CASE UNCHANGED linksVars
      BY <1>1 DEF linksVars, LinksInv, LinksTypeOK, ListsInv, KeepsInv, DropsInv, AllWant,
            NoneWants, About, Through
<1>2. ASSUME NEW r \in Linkers, NEW want \in SUBSET Items,
             \/ LinkTeacherToClasses(r, want) \/ LinkTeacherToSubjects(r, want)
             \/ LinkParentToStudents(r, want) \/ EnrollStudentsInClass(r, want)
             \/ BeginScope(r, want)
      PROVE  LinksInv'
      BY <1>2, ReadInv DEF LinkTeacherToClasses, LinkTeacherToSubjects,
         LinkParentToStudents, EnrollStudentsInClass, BeginScope, Items, Scope
<1>3. CASE LinksNext
      BY <1>2, <1>3, InsertInv, DeleteInv, EndInv, CommitInv DEF LinksNext
<1>4. QED BY <1>1, <1>3

\* Requests that agree on a link leave no doubt about it, however they overlap
\* and whichever fail.
THEOREM LinksAreAgreed == LinksSpec => []LinksAgree
<1>1. LinksInv => LinksAgree
  <2>1. ASSUME NEW x \in Items, AllWant(x), KeepsInv(x)
        PROVE  x \in firstLinks \/ Through(x) # {} => x \in linked
        BY <2>1 DEF KeepsInv
  <2>2. ASSUME NEW x \in Items, NoneWants(x), DropsInv(x)
        PROVE  x \notin firstLinks \/ Through(x) # {} => x \notin linked
        BY <2>2 DEF DropsInv
  <2>3. QED BY <2>1, <2>2 DEF LinksInv, LinksAgree, AllWant, NoneWants
<1>2. QED BY <1>1, LinksInitInv, LinksStepInv, PTL DEF LinksSpec

\* The requests on links, and what each has read, keep their types.
LEMMA LinksTypesHold == LinksSpec => []LinksTypeOK
BY LinksInitInv, LinksStepInv, PTL DEF LinksSpec, LinksInv

-----------------------------------------------------------------------------
(* Promotions.                                                             *)

EnrolmentRows == [pc : EnrolmentPcs, to : Classes \cup {NoClass}, promotes : BOOLEAN]

\* Only a promotion deletes, and every request has a class.
WellBegun(r) ==
    /\ enrolling[r].pc \in {"record", "delete"} => enrolling[r].promotes
    /\ enrolling[r].pc # "new" => enrolling[r].to \in Classes

\* Nobody else is at work while a request is alone, and a promotion that is
\* alone inserts into what it has emptied.
Undisturbed(r) ==
    r \in alone =>
       /\ \A q \in Enrolments : q # r => ~ Enrolling(q)
       /\ Landing(r) => enrolled = {}

\* A promotion got through alone, and nothing has begun since.
Settled ==
    lastTo # NoClass =>
       /\ \A r \in Enrolments : ~ Enrolling(r)
       /\ enrolled = {lastTo}

PromotionInv ==
    /\ PromotionTypeOK
    /\ \A r \in Enrolments : WellBegun(r) /\ Undisturbed(r)
    /\ stranded \/ unlisted \/ enrolled # {} \/ \E r \in Enrolments : Landing(r)
    /\ Settled

LEMMA PromotionInitInv == PromotionInit => PromotionInv
<1> SUFFICES ASSUME PromotionInit PROVE PromotionInv
    OBVIOUS
<1>1. NewEnrolment \in EnrolmentRows
      BY DEF NewEnrolment, EnrolmentRows, EnrolmentPcs
<1>2. PromotionTypeOK
      BY <1>1 DEF PromotionInit, PromotionTypeOK, EnrolmentRows
<1>3. enrolled # {} /\ Settled
      BY DEF PromotionInit, Settled
<1>4. ASSUME NEW r \in Enrolments PROVE WellBegun(r) /\ Undisturbed(r)
      BY DEF PromotionInit, WellBegun, Undisturbed, NewEnrolment
<1>5. QED BY <1>2, <1>3, <1>4 DEF PromotionInv

LEMMA EnrolmentFacts ==
    ASSUME PromotionInv, NEW r \in Enrolments
    PROVE  /\ enrolling[r] \in EnrolmentRows /\ enrolling \in [Enrolments -> EnrolmentRows]
           /\ enrolled \subseteq Classes
           /\ WellBegun(r) /\ Undisturbed(r)
BY DEF PromotionInv, PromotionTypeOK, EnrolmentRows

\* Request r, at pc, is about to enrol the student it promotes.
Lands(r, pc) == enrolling[r].promotes /\ pc \in {"look", "insert"}

\* What a step of a request makes of its row, and of nobody else's.
LEMMA ProceedsFacts ==
    ASSUME PromotionInv, NEW r \in Enrolments, NEW pc \in EnrolmentPcs, Proceeds(r, pc)
    PROVE  /\ enrolling' \in [Enrolments -> EnrolmentRows]
           /\ enrolling'[r].pc = pc
           /\ enrolling'[r].to = enrolling[r].to
           /\ enrolling'[r].promotes = enrolling[r].promotes
           /\ \A q \in Enrolments : q # r => enrolling'[q] = enrolling[q]
BY EnrolmentFacts DEF Proceeds, EnrolmentRows

\* A request begins: it is alone when nobody else is at work.
LEMMA BeginInv ==
    ASSUME PromotionInv, NEW r \in Enrolments, NEW to \in Classes,
           BeginPromotion(r, to) \/ BeginResult(r, to) \/ BeginUnlisting(r, to)
    PROVE  PromotionInv'
<1>1. PICK pc \in {"record", "look", "list"}, promotes \in BOOLEAN :
         /\ BeginEnrolment(r, pc, to, promotes)
         /\ promotes <=> pc = "record"
      BY DEF BeginPromotion, BeginResult, BeginUnlisting
<1>2. /\ enrolling[r].pc = "new" /\ enrolled' = enrolled /\ stranded' = stranded
      /\ lastTo' = NoClass /\ unlisted' = unlisted
      /\ enrolling'[r] = [pc |-> pc, to |-> to, promotes |-> promotes]
      /\ \A q \in Enrolments : q # r => enrolling'[q] = enrolling[q]
      /\ alone' = IF \E q \in Enrolments : Enrolling(q) THEN {} ELSE {r}
      BY <1>1, EnrolmentFacts DEF BeginEnrolment
<1>3. PromotionTypeOK'
  <2>1. [pc |-> pc, to |-> to, promotes |-> promotes] \in EnrolmentRows
        BY DEF EnrolmentRows, EnrolmentPcs
  <2>2. enrolling' \in [Enrolments -> EnrolmentRows]
        BY <1>1, <2>1, EnrolmentFacts DEF BeginEnrolment
  <2>3. QED BY <1>2, <2>2 DEF PromotionInv, PromotionTypeOK, EnrolmentRows
<1>4. ASSUME NEW q \in Enrolments PROVE WellBegun(q)' /\ Undisturbed(q)'
      BY <1>1, <1>2, EnrolmentFacts DEF WellBegun, Undisturbed, Enrolling, Landing
<1>5. (stranded \/ unlisted \/ enrolled # {} \/ \E q \in Enrolments : Landing(q))'
      BY <1>1, <1>2 DEF PromotionInv, Landing
<1>6. QED BY <1>2, <1>3, <1>4, <1>5 DEF PromotionInv, Settled

\* What a step that gets a request r to pc may do to the enrolments.
Moves(r, pc) ==
    /\ alone' = alone /\ enrolled' \subseteq Classes
    /\ stranded' \in BOOLEAN /\ unlisted' \in BOOLEAN
    /\ r \in alone /\ Lands(r, pc) => enrolled' = {}
    /\ \/ stranded' \/ unlisted' \/ enrolled' # {} \/ Lands(r, pc)
       \/ /\ stranded' = stranded /\ unlisted' = unlisted
          /\ enrolled' = enrolled /\ ~ Landing(r)
    /\ \/ lastTo' = NoClass
       \/ lastTo' \in Classes /\ r \in alone /\ pc = "done" /\ enrolled' = {lastTo'}

\* A request that is at work takes a step: it stays alone if it was, and what
\* a promotion alone finds and leaves is as it should be.
LEMMA EnrolmentStep ==
    ASSUME PromotionInv, NEW r \in Enrolments, Enrolling(r),
           NEW pc \in EnrolmentPcs \ {"new", "record"}, Proceeds(r, pc), Moves(r, pc),
           pc = "delete" => enrolling[r].promotes
    PROVE  PromotionInv'
<1>1. /\ enrolling' \in [Enrolments -> EnrolmentRows]
      /\ enrolling'[r].pc = pc
      /\ enrolling'[r].to = enrolling[r].to
      /\ enrolling'[r].promotes = enrolling[r].promotes
      /\ \A q \in Enrolments : q # r => enrolling'[q] = enrolling[q]
      BY ProceedsFacts
<1> Lands(r, pc) <=> Landing(r)'
      BY <1>1 DEF Lands, Landing
<1>2. PromotionTypeOK'
      BY <1>1 DEF PromotionInv, PromotionTypeOK, EnrolmentRows, Moves
<1>3. ASSUME NEW q \in Enrolments PROVE WellBegun(q)'
      BY <1>1, EnrolmentFacts DEF WellBegun, Enrolling
<1>4. ASSUME NEW q \in Enrolments PROVE Undisturbed(q)'
  <2>1. CASE q = r
        BY <1>1, <2>1, EnrolmentFacts DEF Undisturbed, Enrolling, Moves
  <2>2. CASE q # r
        BY <2>2, EnrolmentFacts DEF Undisturbed, Moves
  <2>3. QED BY <2>1, <2>2
<1>5. (stranded \/ unlisted \/ enrolled # {} \/ \E q \in Enrolments : Landing(q))'
  <2>1. CASE stranded' \/ unlisted' \/ enrolled' # {} \/ Landing(r)'
        BY <2>1
  <2>2. CASE /\ stranded' = stranded /\ unlisted' = unlisted
             /\ enrolled' = enrolled /\ ~ Landing(r)
        BY <1>1, <2>2 DEF PromotionInv, Landing
  <2>3. QED BY <2>1, <2>2 DEF Moves
<1>6. Settled'
  <2>1. r \in alone /\ pc = "done" => \A q \in Enrolments : ~ Enrolling(q)'
        BY <1>1, EnrolmentFacts DEF Undisturbed, Enrolling
  <2>2. QED BY <2>1 DEF Settled, Enrolling, Moves
<1>7. QED BY <1>2, <1>3, <1>4, <1>5, <1>6 DEF PromotionInv

\* While a request is at work, no promotion counts as the last.
LEMMA NothingSettled ==
    ASSUME PromotionInv, NEW r \in Enrolments, Enrolling(r)
    PROVE  lastTo = NoClass
BY DEF PromotionInv, Settled

LEMMA PromotionStepInv ==
    ASSUME PromotionInv, [PromotionNext]_promotionVars
    PROVE  PromotionInv'
<1>1. CASE UNCHANGED promotionVars
      BY <1>1 DEF promotionVars, PromotionInv, PromotionTypeOK, WellBegun, Undisturbed,
            Settled, Enrolling, Landing
<1>2. ASSUME NEW r \in Enrolments, RecordPromotion(r)
      PROVE  PromotionInv'
  <2>1. /\ enrolling[r].pc = "record" /\ Proceeds(r, "delete") /\ enrolling[r].promotes
        /\ Enrolling(r) /\ ~ Landing(r)
        BY <1>2, EnrolmentFacts DEF RecordPromotion, AfterRecord, WellBegun, Enrolling, Landing
  <2>2. "delete" \in EnrolmentPcs \ {"new", "record"}
        BY DEF EnrolmentPcs
  <2>3. /\ enrolled' \subseteq Classes /\ stranded' = stranded /\ stranded \in BOOLEAN
        /\ unlisted' = unlisted /\ unlisted \in BOOLEAN
        /\ enrolled' = enrolled /\ lastTo' = NoClass /\ alone' = alone
        BY <1>2, <2>1, EnrolmentFacts, NothingSettled
           DEF RecordPromotion, PromotionInv, PromotionTypeOK
  <2>4. Moves(r, "delete")
        BY <2>1, <2>3, Zenon DEF Moves, Lands
  <2>5. QED BY <2>1, <2>2, <2>4, EnrolmentStep
<1>3. ASSUME NEW r \in Enrolments, DeleteEnrolments(r)
      PROVE  PromotionInv'
  <2>1. /\ enrolling[r].pc = "delete" /\ Proceeds(r, "look") /\ enrolling[r].promotes
        /\ Enrolling(r)
        BY <1>3, EnrolmentFacts DEF DeleteEnrolments, WellBegun, Enrolling
  <2>2. "look" \in EnrolmentPcs \ {"new", "record"}
        BY DEF EnrolmentPcs
  <2>3. /\ enrolled' = {} /\ stranded' = stranded /\ stranded \in BOOLEAN
        /\ unlisted' = unlisted /\ unlisted \in BOOLEAN
        /\ lastTo' = NoClass /\ alone' = alone
        BY <1>3, <2>1, NothingSettled DEF DeleteEnrolments, PromotionInv, PromotionTypeOK
  <2>4. Moves(r, "look")
        BY <2>1, <2>3 DEF Moves, Lands
  <2>5. QED BY <2>1, <2>2, <2>4, EnrolmentStep
<1>4. ASSUME NEW r \in Enrolments, LookUpEnrolment(r)
      PROVE  PromotionInv'
  <2>1. /\ enrolling[r].pc = "look" /\ Enrolling(r) /\ enrolled' = enrolled
        /\ stranded' = stranded /\ stranded \in BOOLEAN /\ alone' = alone
        /\ unlisted' = unlisted /\ unlisted \in BOOLEAN
        /\ lastTo = NoClass /\ enrolled \subseteq Classes
        BY <1>4, EnrolmentFacts, NothingSettled
           DEF LookUpEnrolment, Enrolling, PromotionInv, PromotionTypeOK
  <2>2. {"done", "insert"} \subseteq EnrolmentPcs \ {"new", "record"}
        BY DEF EnrolmentPcs
  <2>3. CASE enrolling[r].to \in enrolled
    <3>1. Proceeds(r, "done") /\ Ended(r)
          BY <1>4, <2>3 DEF LookUpEnrolment
    <3>2. ~ (enrolling[r].promotes /\ r \in alone)
          BY <2>1, <2>3, EnrolmentFacts DEF Undisturbed, Landing
    <3>3. lastTo' = NoClass
          BY <3>1, <3>2 DEF Ended
    <3>4. Moves(r, "done")
          BY <2>1, <2>3, <3>3 DEF Moves, Lands
    <3>5. QED BY <2>1, <2>2, <3>1, <3>4, EnrolmentStep
  <2>4. CASE enrolling[r].to \notin enrolled
    <3>1. Proceeds(r, "insert") /\ lastTo' = NoClass
          BY <1>4, <2>1, <2>4 DEF LookUpEnrolment
    <3>2. Lands(r, "insert") <=> Landing(r)
          BY <2>1 DEF Landing, Lands
    <3>3. r \in alone /\ Landing(r) => enrolled' = {}
          BY <2>1, EnrolmentFacts DEF Undisturbed
    <3>4. Moves(r, "insert")
          BY <2>1, <3>1, <3>2, <3>3 DEF Moves
    <3>5. QED BY <2>1, <2>2, <3>1, <3>4, EnrolmentStep
  <2>5. QED BY <2>3, <2>4
<1>5. ASSUME NEW r \in Enrolments, InsertEnrolment(r)
      PROVE  PromotionInv'
  <2>1. /\ enrolling[r].pc = "insert" /\ Enrolling(r) /\ Proceeds(r, "done") /\ Ended(r)
        /\ enrolled' = enrolled \cup {enrolling[r].to}
        /\ stranded' = stranded /\ stranded \in BOOLEAN /\ alone' = alone
        /\ unlisted' = FALSE
        BY <1>5 DEF InsertEnrolment, Enrolling, PromotionInv, PromotionTypeOK
  <2>2. "done" \in EnrolmentPcs \ {"new", "record"}
        BY DEF EnrolmentPcs
  <2>3. enrolling[r].to \in Classes /\ enrolled' \subseteq Classes /\ enrolled' # {}
        BY <2>1, EnrolmentFacts DEF WellBegun
  <2>4. ~ Lands(r, "done")
        BY DEF Lands
  <2>5. \/ lastTo' = NoClass
        \/ lastTo' \in Classes /\ r \in alone /\ enrolled' = {lastTo'}
        BY <2>1, <2>3, EnrolmentFacts DEF Ended, Undisturbed, Landing
  <2>6. Moves(r, "done")
        BY <2>1, <2>3, <2>4, <2>5 DEF Moves
  <2>7. QED BY <2>1, <2>2, <2>6, EnrolmentStep
<1>6. ASSUME NEW r \in Enrolments, CutEnrolment(r)
      PROVE  PromotionInv'
  <2>1. /\ Enrolling(r) /\ Proceeds(r, "done")
        /\ enrolled' = enrolled /\ enrolled \subseteq Classes /\ alone' = alone
        /\ stranded' = (stranded \/ Landing(r)) /\ stranded \in BOOLEAN
        /\ unlisted' = unlisted /\ unlisted \in BOOLEAN
        /\ lastTo' = NoClass
        BY <1>6, EnrolmentFacts, NothingSettled
           DEF CutEnrolment, PromotionInv, PromotionTypeOK
  <2>2. "done" \in EnrolmentPcs \ {"new", "record"}
        BY DEF EnrolmentPcs
  <2>3. ~ Lands(r, "done")
        BY DEF Lands
  <2>4. stranded' \in BOOLEAN /\ (stranded' \/ (stranded' = stranded /\ ~ Landing(r)))
        BY <2>1
  <2>5. Moves(r, "done")
        BY <2>1, <2>3, <2>4, Zenon DEF Moves
  <2>6. QED BY <2>1, <2>2, <2>5, EnrolmentStep
<1>7. ASSUME NEW r \in Enrolments, ReadList(r)
      PROVE  PromotionInv'
  <2>1. PICK pc \in {"remove", "done"} : Proceeds(r, pc)
        BY <1>7 DEF ReadList
  <2>2. pc \in EnrolmentPcs \ {"new", "record"} /\ pc # "delete"
        BY DEF EnrolmentPcs
  <2>3. Enrolling(r) /\ ~ Landing(r)
        BY <1>7 DEF ReadList, Enrolling, Landing
  <2>4. /\ enrolled' \subseteq Classes /\ stranded' = stranded /\ stranded \in BOOLEAN
        /\ unlisted' = unlisted /\ unlisted \in BOOLEAN
        /\ enrolled' = enrolled /\ lastTo' = NoClass /\ alone' = alone
        BY <1>7, <2>3, EnrolmentFacts, NothingSettled
           DEF ReadList, PromotionInv, PromotionTypeOK
  <2>5. ~ Lands(r, pc)
        BY DEF Lands
  <2>6. Moves(r, pc)
        BY <2>3, <2>4, <2>5, Zenon DEF Moves
  <2>7. QED BY <2>1, <2>2, <2>3, <2>6, EnrolmentStep
<1>8. ASSUME NEW r \in Enrolments, RemoveUnlisted(r)
      PROVE  PromotionInv'
  <2>1. /\ enrolling[r].pc = "remove" /\ Proceeds(r, "done") /\ Enrolling(r) /\ ~ Landing(r)
        /\ enrolled' = enrolled \ {enrolling[r].to}
        /\ unlisted' = (unlisted \/ enrolling[r].to \in enrolled)
        BY <1>8 DEF RemoveUnlisted, Enrolling, Landing
  <2>2. "done" \in EnrolmentPcs \ {"new", "record"}
        BY DEF EnrolmentPcs
  <2>3. /\ enrolled' \subseteq Classes /\ stranded' = stranded /\ stranded \in BOOLEAN
        /\ unlisted' \in BOOLEAN /\ lastTo' = NoClass /\ alone' = alone
        BY <1>8, <2>1, EnrolmentFacts, NothingSettled
           DEF RemoveUnlisted, PromotionInv, PromotionTypeOK
  <2>4. ~ Lands(r, "done")
        BY DEF Lands
  <2>5. unlisted' \/ (unlisted' = unlisted /\ enrolled' = enrolled)
    <3>1. CASE enrolling[r].to \in enrolled
          BY <2>1, <3>1
    <3>2. CASE enrolling[r].to \notin enrolled
      <4>1. enrolled' = enrolled
            BY <2>1, <3>2
      <4>2. unlisted \in {TRUE, FALSE} /\ unlisted' \in {TRUE, FALSE}
            BY <2>3 DEF PromotionInv, PromotionTypeOK
      <4>3. CASE unlisted = TRUE
            BY <2>1, <4>3
      <4>4. CASE unlisted = FALSE
            BY <2>1, <3>2, <4>1, <4>2, <4>4
      <4>5. QED BY <4>2, <4>3, <4>4
    <3>3. QED BY <3>1, <3>2
  <2>6. Moves(r, "done")
        BY <2>1, <2>3, <2>4, <2>5, Zenon DEF Moves
  <2>7. QED BY <2>1, <2>2, <2>6, EnrolmentStep
<1>9. QED BY <1>1, <1>2, <1>3, <1>4, <1>5, <1>6, <1>7, <1>8, BeginInv DEF PromotionNext

LEMMA PromotionInvHolds == PromotionSpec => []PromotionInv
BY PromotionInitInv, PromotionStepInv, PTL DEF PromotionSpec

LEMMA InvEnrols == PromotionInv => StudentsAreEnrolled
BY DEF PromotionInv, Settled, StudentsAreEnrolled

\* A student is enrolled, or about to be, unless a promotion stopped between
\* its deletes and its insert or a class list took the enrolment; a promotion
\* that is alone moves the student.
THEOREM StudentsStayEnrolled == PromotionSpec => []StudentsAreEnrolled
BY PromotionInvHolds, InvEnrols, PTL

\* The rows of enrolments and the promotions keep their types.
LEMMA PromotionTypesHold == PromotionSpec => []PromotionTypeOK
<1>1. PromotionInv => PromotionTypeOK
      BY DEF PromotionInv
<1>2. QED BY <1>1, PromotionInvHolds, PTL

\* Links and promotions touch different rows: side by side, both lists are
\* what the requests agree on.
THEOREM RostersAreAgreed == LinksSpec /\ PromotionSpec => []RostersAgree
<1>1. LinksAgree /\ StudentsAreEnrolled => RostersAgree
      BY DEF RostersAgree
<1>2. QED BY <1>1, LinksAreAgreed, StudentsStayEnrolled, PTL

-----------------------------------------------------------------------------
(* Computer-based tests.                                                   *)

\* Attempts are of a published exam, and its questions are all there unless it
\* was published early.
PaperInv ==
    /\ \A a \in Attempts : attempt[a].status # "none" => exam = "published"
    /\ starting # {} => exam = "published"
    /\ exam = "published" => hasty \/ ~authoring

\* Answers are of stored questions, and a submit works on an attempt.
AnswersInv ==
    /\ \A a \in Attempts : attempt[a].answers \subseteq questions
    /\ \A u \in Submits : Underway(u) =>
          /\ submitting[u].attempt \in Attempts
          /\ attempt[submitting[u].attempt].status # "none"
          /\ submitting[u].answers \subseteq questions

\* u works on a.
At(u, a) == Underway(u) /\ submitting[u].attempt = a

\* One submit works on an attempt that is not contested, and the attempt is open.
SoloInv ==
    \A a \in Attempts \ contested :
        /\ \A u, v \in Submits : At(u, a) /\ At(v, a) => u = v
        /\ \A u \in Submits : At(u, a) => Open(a)

\* What it has read is what is there, and so is what it has stored.
ScoreInv ==
    ~hasty => \A a \in Attempts \ contested :
        /\ attempt[a].status = "submitted" =>
              /\ attempt[a].score = Cardinality(attempt[a].answers)
              /\ attempt[a].max = Cardinality(questions)
        /\ \A u \in Submits : At(u, a) =>
              /\ submitting[u].pc \in {"mark", "score"} =>
                    submitting[u].answers = attempt[a].answers
              /\ submitting[u].pc = "score" => submitting[u].paper = questions

CbtInv == CbtTypeOK /\ PaperInv /\ AnswersInv /\ SoloInv /\ ScoreInv

LEMMA CbtInitInv == CbtInit => CbtInv
<1> SUFFICES ASSUME CbtInit PROVE CbtInv
    OBVIOUS
<1>1. NoAttemptRow \in [status : {"none", "in_progress", "submitted"}, answers : SUBSET Questions,
                        score : 0 .. Cardinality(Questions), max : 0 .. Cardinality(Questions)]
      BY CbtAssumption, FS_CardinalityType DEF NoAttemptRow
<1>2. CbtTypeOK
      BY <1>1 DEF CbtInit, CbtTypeOK, NewSubmit, SubmitPcs
<1>3. PaperInv /\ AnswersInv /\ SoloInv /\ ScoreInv
      BY DEF CbtInit, PaperInv, AnswersInv, SoloInv, ScoreInv, At, Underway, NoAttemptRow, NewSubmit
<1>4. QED BY <1>2, <1>3 DEF CbtInv

\* The author, and time.
LEMMA AuthorInv ==
    ASSUME CbtInv,
           \/ CreateExam \/ EndCreateExam \/ PublishExam
           \/ \E q \in Questions : StoreQuestion(q)
           \/ \E a \in Attempts : RunOutOfTime(a)
    PROVE  CbtInv'
<1> USE DEF CbtInv
<1>1. UNCHANGED <<attempt, starting, submitting, contested>>
      BY DEF CreateExam, EndCreateExam, PublishExam, StoreQuestion, RunOutOfTime, ghosts
<1>2. CbtTypeOK'
  <2>1. /\ exam' \in {"none", "draft", "published"} /\ questions' \subseteq Questions
        /\ starting' \subseteq Starts /\ started' \subseteq Starts /\ late' \subseteq Attempts
        BY DEF CreateExam, EndCreateExam, PublishExam, StoreQuestion, RunOutOfTime, ghosts, CbtTypeOK
  <2>2. authoring' \in BOOLEAN /\ hasty' \in BOOLEAN
        BY ZenonT(30) DEF CreateExam, EndCreateExam, PublishExam, StoreQuestion, RunOutOfTime, ghosts,
           CbtTypeOK
  <2>3. QED BY <1>1, <2>1, <2>2 DEF CbtTypeOK
<1>3. PaperInv'
      BY <1>1 DEF CreateExam, EndCreateExam, PublishExam, StoreQuestion, RunOutOfTime, ghosts,
         PaperInv, CbtTypeOK
<1>4. questions \subseteq questions' /\ (hasty => hasty')
  <2>1. questions \subseteq questions'
        BY DEF CreateExam, EndCreateExam, PublishExam, StoreQuestion, RunOutOfTime, ghosts
  <2>2. hasty' = hasty \/ hasty' = (hasty \/ authoring)
        BY DEF CreateExam, EndCreateExam, PublishExam, StoreQuestion, RunOutOfTime, ghosts
  <2>3. hasty => hasty'
        BY <2>2, ZenonT(30)
  <2>4. QED BY <2>1, <2>3
<1>5. AnswersInv'
      BY <1>1, <1>4 DEF AnswersInv, Underway
<1>6. SoloInv'
      BY <1>1 DEF SoloInv, At, Underway, Open
<1>7. ~hasty /\ exam = "published" => questions' = questions
      BY DEF CreateExam, EndCreateExam, PublishExam, StoreQuestion, RunOutOfTime, ghosts, PaperInv
<1>8. ScoreInv'
  <2>1. SUFFICES ASSUME ~hasty PROVE ScoreInv'
        BY <1>4 DEF ScoreInv
  <2>2. CASE exam = "published"
        BY <1>1, <1>7, <2>1, <2>2 DEF ScoreInv, At, Underway
  <2>3. CASE exam # "published"
    <3>1. \A a \in Attempts : attempt[a].status = "none"
          BY <2>3 DEF PaperInv
    <3>2. \A u \in Submits : ~Underway(u)
          BY <3>1 DEF AnswersInv
    <3>3. QED BY <1>1, <3>1, <3>2 DEF ScoreInv, At, Underway
  <2>4. QED BY <2>2, <2>3
<1>9. QED BY <1>2, <1>3, <1>5, <1>6, <1>8

\* Starts.
LEMMA StartInv ==
    ASSUME CbtInv, NEW b \in Starts,
           BeginStart(b) \/ \E a \in Attempts : InsertAttempt(b, a)
    PROVE  CbtInv'
<1> USE DEF CbtInv
<1>1. CASE BeginStart(b)
  <2>1. UNCHANGED <<exam, questions, authoring, attempt, submitting, contested, hasty>>
        BY <1>1 DEF BeginStart, ghosts
  <2>2. CbtTypeOK' /\ PaperInv'
        BY <1>1, <2>1 DEF BeginStart, CbtTypeOK, PaperInv
  <2>3. AnswersInv' /\ SoloInv' /\ ScoreInv'
        BY <2>1 DEF AnswersInv, SoloInv, ScoreInv, At, Underway, Open
  <2>4. QED BY <2>2, <2>3
<1>2. ASSUME NEW a \in Attempts, InsertAttempt(b, a) PROVE CbtInv'
  <2>1. UNCHANGED <<exam, questions, authoring, submitting, contested, hasty>>
        BY <1>2 DEF InsertAttempt, ghosts
  <2>2. /\ attempt[a].status = "none" /\ attempt'[a] = [attempt[a] EXCEPT !.status = "in_progress"]
        /\ \A x \in Attempts : x # a => attempt'[x] = attempt[x]
        BY <1>2 DEF InsertAttempt, CbtTypeOK
  <2>3. /\ attempt'[a].status = "in_progress" /\ attempt'[a].answers = attempt[a].answers
        BY <2>2 DEF CbtTypeOK
  <2>4. CbtTypeOK'
        BY <1>2 DEF InsertAttempt, CbtTypeOK, ghosts
  <2>5. PaperInv'
        BY <1>2, <2>1, <2>2 DEF InsertAttempt, PaperInv
  <2>6. \A u \in Submits : ~At(u, a)
        BY <2>2 DEF AnswersInv, At
  <2>7. AnswersInv'
        BY <2>1, <2>2, <2>3 DEF AnswersInv, Underway
  <2>8. SoloInv'
        BY <2>1, <2>2, <2>6 DEF SoloInv, At, Underway, Open
  <2>9. \A v \in Submits, x \in Attempts : At(v, x)' <=> At(v, x)
        BY <2>1 DEF At, Underway
  <2>10. ScoreInv'
    <3>1. attempt'[a].status # "submitted" /\ \A v \in Submits : ~At(v, a)'
          BY <2>3, <2>6, <2>9
    <3>2. SUFFICES ASSUME ~hasty PROVE ScoreInv'
          BY <2>1 DEF ScoreInv
    <3>3. ASSUME NEW x \in Attempts \ contested, x # a
          PROVE  /\ attempt[x].status = "submitted" =>
                       /\ attempt[x].score = Cardinality(attempt[x].answers)
                       /\ attempt[x].max = Cardinality(questions)
                 /\ \A v \in Submits : At(v, x) =>
                       /\ submitting[v].pc \in {"mark", "score"} =>
                             submitting[v].answers = attempt[x].answers
                       /\ submitting[v].pc = "score" => submitting[v].paper = questions
          BY <3>2, <3>3 DEF ScoreInv
    <3>4. \A x \in Attempts : x # a => attempt'[x] = attempt[x]
          BY <2>2
    <3>5. QED BY <2>1, <2>9, <3>1, <3>3, <3>4 DEF ScoreInv
  <2>11. QED BY <2>4, <2>5, <2>7, <2>8, <2>10
<1>3. QED BY <1>1, <1>2

\* Submits.
LEMMA BeginSubmitInv ==
    ASSUME CbtInv, NEW u \in Submits, NEW a \in Attempts, NEW answers \in SUBSET questions,
           BeginSubmit(u, a, answers)
    PROVE  CbtInv'
<1> USE DEF CbtInv
<1>1. UNCHANGED <<exam, questions, authoring, attempt, starting, started, late, hasty>>
      BY DEF BeginSubmit
<1>2. /\ submitting[u].pc = "new" /\ Open(a)
      /\ submitting'[u].pc = "answer" /\ submitting'[u].attempt = a
      /\ submitting'[u].answers = answers
      /\ \A v \in Submits : v # u => submitting'[v] = submitting[v]
      BY DEF BeginSubmit, MaySubmit, CbtTypeOK, NewSubmit
<1>3. CbtTypeOK'
  <2>1. [NewSubmit EXCEPT !.pc = "answer", !.attempt = a, !.answers = answers]
           \in [pc : SubmitPcs, attempt : Attempts \cup {NoAttempt},
                answers : SUBSET Questions, paper : SUBSET Questions]
        BY DEF NewSubmit, SubmitPcs, CbtTypeOK
  <2>2. contested' \subseteq Attempts
        BY DEF BeginSubmit, CbtTypeOK
  <2>3. QED BY <1>1, <2>1, <2>2 DEF BeginSubmit, CbtTypeOK
<1>4. PaperInv'
      BY <1>1 DEF PaperInv
<1>5. AnswersInv'
      BY <1>1, <1>2 DEF AnswersInv, Underway, Open
<1>6. /\ contested \subseteq contested'
      /\ a \notin contested' => \A v \in Submits : ~At(v, a)
      BY DEF BeginSubmit, At
<1>7. \A v \in Submits : v # u => \A x \in Attempts : At(v, x)' <=> At(v, x)
      BY <1>2 DEF At, Underway
<1>8. \A x \in Attempts : At(u, x)' <=> x = a
      BY <1>2 DEF At, Underway
<1>9. SoloInv'
      BY <1>1, <1>2, <1>6, <1>7, <1>8 DEF SoloInv, Open
<1>10. ScoreInv'
      BY <1>1, <1>2, <1>6, <1>7, <1>8 DEF ScoreInv
<1>11. QED BY <1>3, <1>4, <1>5, <1>9, <1>10

\* A submit that is under way takes a step that leaves the attempts alone.
LEMMA ReadStepInv ==
    ASSUME CbtInv, NEW u \in Submits, ReadAnswers(u) \/ ReadQuestions(u) \/ FailSubmit(u)
    PROVE  CbtInv'
<1> USE DEF CbtInv
<1>1. UNCHANGED <<exam, questions, authoring, attempt, starting, started, late, contested, hasty>>
      BY DEF ReadAnswers, ReadQuestions, FailSubmit, ghosts
<1>2. /\ Underway(u) /\ submitting'[u].attempt = submitting[u].attempt
      /\ \A v \in Submits : v # u => submitting'[v] = submitting[v]
      BY DEF ReadAnswers, ReadQuestions, FailSubmit, Underway, CbtTypeOK
<1>3. PICK a \in Attempts : submitting[u].attempt = a
      BY <1>2 DEF AnswersInv
<1>4. \/ /\ submitting'[u].pc = "mark" /\ submitting'[u].answers = attempt[a].answers
      \/ /\ submitting[u].pc = "mark" /\ submitting'[u].pc = "score"
         /\ submitting'[u].answers = submitting[u].answers /\ submitting'[u].paper = questions
      \/ submitting'[u].pc = "done"
      BY <1>3 DEF ReadAnswers, ReadQuestions, FailSubmit, CbtTypeOK
<1>5. CbtTypeOK'
      BY <1>1, <1>3 DEF ReadAnswers, ReadQuestions, FailSubmit, CbtTypeOK, SubmitPcs
<1>6. PaperInv'
      BY <1>1 DEF PaperInv
<1>7. AnswersInv'
      BY <1>1, <1>2, <1>3, <1>4 DEF AnswersInv, Underway
<1>8. \A v \in Submits, x \in Attempts : At(v, x)' => At(v, x)
      BY <1>2 DEF At, Underway
<1>9. SoloInv'
      BY <1>1, <1>8 DEF SoloInv, Open
<1>10. ScoreInv'
      BY <1>1, <1>2, <1>3, <1>4, <1>8 DEF ScoreInv, At
<1>11. QED BY <1>5, <1>6, <1>7, <1>9, <1>10

LEMMA WriteAnswersInv ==
    ASSUME CbtInv, NEW u \in Submits, WriteAnswers(u)
    PROVE  CbtInv'
<1> USE DEF CbtInv
<1>1. UNCHANGED <<exam, questions, authoring, starting, started, late, contested, hasty>>
      BY DEF WriteAnswers, ghosts
<1>2. /\ Underway(u) /\ submitting'[u].attempt = submitting[u].attempt
      /\ submitting'[u].pc = "read" /\ submitting'[u].answers = submitting[u].answers
      /\ \A v \in Submits : v # u => submitting'[v] = submitting[v]
      BY DEF WriteAnswers, Underway, CbtTypeOK
<1>3. PICK a \in Attempts : submitting[u].attempt = a
      BY <1>2 DEF AnswersInv
<1>4. /\ attempt'[a].status = attempt[a].status /\ attempt'[a].answers = submitting[u].answers
      /\ attempt'[a].score = attempt[a].score /\ attempt'[a].max = attempt[a].max
      /\ \A x \in Attempts : x # a => attempt'[x] = attempt[x]
      BY <1>3 DEF WriteAnswers, CbtTypeOK
<1>5. CbtTypeOK'
  <2>1. submitting[u].answers \in SUBSET Questions
        BY DEF CbtTypeOK
  <2>2. [attempt[a] EXCEPT !.answers = submitting[u].answers]
           \in [status : {"none", "in_progress", "submitted"}, answers : SUBSET Questions,
                score : 0 .. Cardinality(Questions), max : 0 .. Cardinality(Questions)]
        BY <2>1 DEF CbtTypeOK
  <2>3. attempt' = [attempt EXCEPT ![a] = [attempt[a] EXCEPT !.answers = submitting[u].answers]]
        BY <1>3 DEF WriteAnswers
  <2>4. submitting' \in [Submits -> [pc : SubmitPcs, attempt : Attempts \cup {NoAttempt},
                            answers : SUBSET Questions, paper : SUBSET Questions]]
        BY DEF WriteAnswers, CbtTypeOK, SubmitPcs
  <2>5. QED BY <1>1, <2>2, <2>3, <2>4 DEF CbtTypeOK
<1>6. PaperInv'
      BY <1>1, <1>4 DEF PaperInv
<1>7. AnswersInv'
      BY <1>1, <1>2, <1>3, <1>4 DEF AnswersInv, Underway
<1>8. \A v \in Submits, x \in Attempts : At(v, x)' <=> At(v, x)
      BY <1>2 DEF At, Underway
<1>9. SoloInv'
      BY <1>1, <1>4, <1>8 DEF SoloInv, Open
<1>10. a \notin contested => Open(a) /\ \A v \in Submits : At(v, a) => v = u
      BY <1>2, <1>3 DEF SoloInv, At
<1>11. ScoreInv'
      BY <1>1, <1>2, <1>3, <1>4, <1>8, <1>10 DEF ScoreInv, At, Open
<1>12. QED BY <1>5, <1>6, <1>7, <1>9, <1>11

LEMMA StoreScoreInv ==
    ASSUME CbtInv, NEW u \in Submits, StoreScore(u)
    PROVE  CbtInv'
<1> USE DEF CbtInv
<1>1. UNCHANGED <<exam, questions, authoring, starting, started, late, contested, hasty>>
      BY DEF StoreScore, ghosts
<1>2. /\ Underway(u) /\ submitting[u].pc = "score"
      /\ submitting'[u].pc = "done"
      /\ \A v \in Submits : v # u => submitting'[v] = submitting[v]
      BY DEF StoreScore, Underway, CbtTypeOK
<1>3. PICK a \in Attempts : submitting[u].attempt = a
      BY <1>2 DEF AnswersInv
<1>4. attempt' = [attempt EXCEPT ![a] =
         [attempt[a] EXCEPT !.status = "submitted", !.score = Marks(u),
                            !.max = Cardinality(submitting[u].paper)]]
      BY <1>3 DEF StoreScore
<1>5. /\ attempt'[a].status = "submitted" /\ attempt'[a].answers = attempt[a].answers
      /\ attempt'[a].score = Marks(u) /\ attempt'[a].max = Cardinality(submitting[u].paper)
      /\ \A x \in Attempts : x # a => attempt'[x] = attempt[x]
      BY <1>4 DEF CbtTypeOK
<1>6. CbtTypeOK'
  <2>1. /\ submitting[u].paper \subseteq Questions
        /\ submitting[u].answers \cap submitting[u].paper \subseteq Questions
        BY DEF CbtTypeOK
  <2>2. ASSUME NEW S, S \subseteq Questions PROVE Cardinality(S) \in 0 .. Cardinality(Questions)
        BY <2>2, CbtAssumption, FS_Subset, FS_CardinalityType
  <2>3. Marks(u) \in 0 .. Cardinality(Questions)
        BY <2>1, <2>2 DEF Marks
  <2>4. Cardinality(submitting[u].paper) \in 0 .. Cardinality(Questions)
        BY <2>1, <2>2
  <2>5. [attempt[a] EXCEPT !.status = "submitted", !.score = Marks(u),
                           !.max = Cardinality(submitting[u].paper)]
           \in [status : {"none", "in_progress", "submitted"}, answers : SUBSET Questions,
                score : 0 .. Cardinality(Questions), max : 0 .. Cardinality(Questions)]
        BY <2>3, <2>4 DEF CbtTypeOK
  <2>6. submitting' \in [Submits -> [pc : SubmitPcs, attempt : Attempts \cup {NoAttempt},
                            answers : SUBSET Questions, paper : SUBSET Questions]]
        BY DEF StoreScore, CbtTypeOK, SubmitPcs
  <2>7. QED BY <1>1, <1>4, <2>5, <2>6 DEF CbtTypeOK
<1>7. exam = "published"
      BY <1>2 DEF AnswersInv, PaperInv
<1>8. PaperInv'
      BY <1>1, <1>5, <1>7 DEF PaperInv
<1>9. AnswersInv'
      BY <1>1, <1>2, <1>5 DEF AnswersInv, Underway
<1>10. ~Underway(u)' /\ \A v \in Submits, x \in Attempts : At(v, x)' => At(v, x) /\ v # u
      BY <1>2 DEF At, Underway
<1>11. a \notin contested => \A v \in Submits : ~At(v, a)'
      BY <1>2, <1>3, <1>10 DEF SoloInv, At
<1>12. SoloInv'
      BY <1>1, <1>5, <1>10, <1>11 DEF SoloInv, Open
<1>13. ScoreInv'
  <2>1. SUFFICES ASSUME ~hasty PROVE ScoreInv'
        BY <1>1 DEF ScoreInv
  <2>2. ASSUME a \notin contested
        PROVE  /\ attempt'[a].score = Cardinality(attempt[a].answers)
               /\ attempt'[a].max = Cardinality(questions)
    <3>1. submitting[u].answers = attempt[a].answers /\ submitting[u].paper = questions
          BY <1>2, <1>3, <2>1, <2>2 DEF ScoreInv, At
    <3>2. attempt[a].answers \cap questions = attempt[a].answers
          BY DEF AnswersInv
    <3>3. QED BY <1>5, <3>1, <3>2 DEF Marks
  <2>3. \A v \in Submits : v # u => submitting'[v] = submitting[v]
        BY <1>2
  <2>4. QED BY <1>1, <1>5, <1>10, <1>11, <2>1, <2>2, <2>3 DEF ScoreInv
<1>14. QED BY <1>6, <1>8, <1>9, <1>12, <1>13

LEMMA CbtStepInv == CbtInv /\ [CbtNext]_cbtVars => CbtInv'
<1> SUFFICES ASSUME CbtInv, [CbtNext]_cbtVars PROVE CbtInv'
    OBVIOUS
<1>1. CASE UNCHANGED cbtVars
      BY <1>1 DEF cbtVars, CbtInv, CbtTypeOK, PaperInv, AnswersInv, SoloInv, ScoreInv, At,
         Underway, Open
<1>2. QED BY <1>1, AuthorInv, StartInv, BeginSubmitInv, ReadStepInv, WriteAnswersInv, StoreScoreInv
         DEF CbtNext

\* Nobody works on an attempt that was handed in, and nobody is let in.
LEMMA HandedStands ==
    ASSUME CbtInv, [CbtNext]_cbtVars, NEW a \in Attempts, Handed(a)
    PROVE  Handed(a)' /\ attempt'[a] = attempt[a]
<1> USE DEF CbtInv
<1>1. \A u \in Submits : ~At(u, a)
      BY DEF Handed, At
<1>2. CASE UNCHANGED <<attempt, submitting>>
      BY <1>2 DEF Handed, Underway
<1>3. ASSUME NEW b \in Starts, NEW x \in Attempts, InsertAttempt(b, x)
      PROVE  Handed(a)' /\ attempt'[a] = attempt[a]
      BY <1>3 DEF InsertAttempt, Handed, Underway, CbtTypeOK
<1>4. ASSUME NEW u \in Submits, NEW x \in Attempts, NEW answers, BeginSubmit(u, x, answers)
      PROVE  Handed(a)' /\ attempt'[a] = attempt[a]
  <2>1. x # a /\ attempt' = attempt
        BY <1>4 DEF BeginSubmit, MaySubmit, Open, Handed
  <2>2. /\ submitting'[u].attempt = x
        /\ \A v \in Submits : v # u => submitting'[v] = submitting[v]
        BY <1>4 DEF BeginSubmit, CbtTypeOK, NewSubmit
  <2>3. QED BY <2>1, <2>2 DEF Handed, Underway
<1>5. ASSUME NEW u \in Submits,
             \/ WriteAnswers(u) \/ ReadAnswers(u) \/ ReadQuestions(u)
             \/ StoreScore(u) \/ FailSubmit(u)
      PROVE  Handed(a)' /\ attempt'[a] = attempt[a]
  <2>1. /\ Underway(u) /\ submitting'[u].attempt = submitting[u].attempt
        /\ \A v \in Submits : v # u => submitting'[v] = submitting[v]
        BY <1>5 DEF WriteAnswers, ReadAnswers, ReadQuestions, StoreScore, FailSubmit, Underway,
           CbtTypeOK
  <2>2. submitting[u].attempt # a
        BY <1>1, <2>1 DEF At
  <2>3. attempt'[a] = attempt[a]
        BY <1>5, <2>2 DEF WriteAnswers, ReadAnswers, ReadQuestions, StoreScore, FailSubmit,
           CbtTypeOK
  <2>4. QED BY <2>1, <2>2, <2>3 DEF Handed, Underway
<1>6. QED BY <1>2, <1>3, <1>4, <1>5 DEF CbtNext, cbtVars, CreateExam, EndCreateExam, PublishExam,
         StoreQuestion, RunOutOfTime, BeginStart

\* However starts and submits overlap and fail, an attempt that was handed in
\* stands as it was scored, and unless two submits worked on it or the exam was
\* published early, the score is right (cbt.service.ts submitAnswers).
THEOREM AttemptsAreSound == CbtInit /\ [][CbtNext]_cbtVars => AttemptsSound
<1>1. CbtInv /\ CbtInv' /\ [CbtNext]_cbtVars =>
        [\A a \in Attempts : /\ Marked(a)'
                             /\ Handed(a) => Handed(a)' /\ attempt'[a] = attempt[a]]_cbtVars
  <2>1. SUFFICES ASSUME CbtInv, CbtInv', [CbtNext]_cbtVars, NEW a \in Attempts
                 PROVE  Marked(a)' /\ (Handed(a) => Handed(a)' /\ attempt'[a] = attempt[a])
        OBVIOUS
  <2>2. Marked(a)'
        BY <2>1 DEF CbtInv, ScoreInv, Marked, Handed
  <2>3. QED BY <2>1, <2>2, HandedStands
<1>2. QED BY CbtInitInv, CbtStepInv, <1>1, PTL DEF AttemptsSound

\* Attempts, scores and answers keep their types.
LEMMA CbtTypesHold == CbtInit /\ [][CbtNext]_cbtVars => []CbtTypeOK
<1>1. CbtInv => CbtTypeOK
      BY DEF CbtInv
<1>2. QED BY <1>1, CbtInitInv, CbtStepInv, PTL

-----------------------------------------------------------------------------
(* Exeats.                                                                 *)

USE ExeatAssumption

\* What a call of each trade may be at.
DesksInv ==
    /\ \A c \in Gates : desk[c] \in {"new", "open", "done"}
    /\ \A c \in Wards : desk[c] \in {"new", "approve", "confirm", "done"}
    /\ \A c \in FormTeachers \cup Leaders : desk[c] \in {"new", "approve", "decline", "done"}

\* Who has to do with a request of each kind.
KindInv ==
    /\ exeat.kind = "school_initiated" =>
          /\ exeat.status \in {"pending_parent", "approved", "used"} /\ ~refused
          /\ exeat.ruler \in Wards \cup {NoRuler}
          /\ \A c \in FormTeachers \cup Leaders : desk[c] = "new"
          /\ exeat.pass => exeat.confirmed \/ \E c \in Wards : desk[c] = "confirm"
    /\ exeat.kind = "parent_initiated" =>
          /\ exeat.status # "pending_parent"
          /\ exeat.ruler \in Leaders \cup {NoRuler}
          /\ \A c \in Wards : desk[c] = "new"

\* Nobody leaves without a pass, which somebody has issued.
PassInv ==
    /\ exeat.pass => exeat.ruler # NoRuler
    /\ \A c \in Gates : desk[c] = "open" => exeat.pass
    /\ exits > 0 => exeat.pass /\ exeat.gateUsed

\* While gates do not overlap, one that has let the pass in finds it unused.
GatesInv ==
    "gates" \notin ruling =>
       /\ \A c, d \in Gates : desk[c] = "open" /\ desk[d] = "open" => c = d
       /\ \A c \in Gates : desk[c] = "open" => ~exeat.gateUsed
       /\ exits > 0 => exits = 1

\* While rulers do not overlap, the one at work rules on a request that waits,
\* and a request that was declined stays so.
RulersInv ==
    "rulers" \notin ruling =>
       /\ \A c, d \in Rulers : AtDesk(c) /\ AtDesk(d) => c = d
       /\ \A c \in Rulers : desk[c] \in {"approve", "decline"} =>
             exeat.status \in {"pending_parent", "pending_form_teacher", "pending_principal"}
       /\ exeat.pass => exeat.status \in {"approved", "used"}
       /\ refused => exeat.status = "declined"

ExeatInv == ExeatTypeOK /\ DesksInv /\ KindInv /\ PassInv /\ GatesInv /\ RulersInv

LEMMA ExeatInitInv == ExeatInit => ExeatInv
<1> SUFFICES ASSUME ExeatInit PROVE ExeatInv
    OBVIOUS
<1>1. ExeatTypeOK
  <2>1. PICK leave \in ExeatKinds, status \in ExeatStatus :
           exeat = [kind |-> leave, status |-> status, ruler |-> NoRuler, pass |-> FALSE,
                    confirmed |-> FALSE, gateUsed |-> FALSE]
        BY DEF ExeatInit
  <2>2. exits \in Nat /\ refused \in BOOLEAN /\ ruling = {}
        BY DEF ExeatInit
  <2>3. QED BY <2>1, <2>2 DEF ExeatInit, ExeatTypeOK
<1>2. DesksInv /\ KindInv /\ PassInv /\ GatesInv /\ RulersInv
      BY DEF ExeatInit, DesksInv, KindInv, PassInv, GatesInv, RulersInv, Desks, Rulers, AtDesk
<1>3. QED BY <1>1, <1>2 DEF ExeatInv

LEMMA TakesUpDesk ==
    ASSUME ExeatTypeOK, NEW c \in Desks, NEW what, TakesUp(c, what)
    PROVE  /\ desk[c] = "new" /\ desk'[c] = what
           /\ \A d \in Desks : d # c => desk'[d] = desk[d]
           /\ UNCHANGED <<exeat, exits, refused>>
           /\ ruling' \subseteq {"gates", "rulers"}
           /\ "gates" \in ruling => "gates" \in ruling'
           /\ "gates" \notin ruling' /\ c \in Gates => \A d \in Gates : ~AtDesk(d)
           /\ "rulers" \in ruling => "rulers" \in ruling'
           /\ "rulers" \notin ruling' /\ c \notin Gates => \A d \in Rulers : ~AtDesk(d)
BY DEF TakesUp, ExeatTypeOK

\* Somebody at work leaves the row alone.
LEMMA TakesUpInv ==
    ASSUME ExeatInv, NEW c \in Desks,
           NEW what \in {"approve", "decline", "open"}, TakesUp(c, what),
           what = "open" <=> c \in Gates,
           c \in Wards => what = "approve" /\ exeat.status = "pending_parent",
           c \in FormTeachers \cup Leaders =>
              exeat.status \in {"pending_form_teacher", "pending_principal"},
           c \in Gates => exeat.pass /\ ~exeat.gateUsed
    PROVE  ExeatInv'
<1> USE DEF ExeatInv
<1>1. /\ desk[c] = "new" /\ desk'[c] = what
      /\ \A d \in Desks : d # c => desk'[d] = desk[d]
      /\ UNCHANGED <<exeat, exits, refused>>
      /\ ruling' \subseteq {"gates", "rulers"}
      /\ "gates" \in ruling => "gates" \in ruling'
      /\ "gates" \notin ruling' /\ c \in Gates => \A d \in Gates : ~AtDesk(d)
      /\ "rulers" \in ruling => "rulers" \in ruling'
      /\ "rulers" \notin ruling' /\ c \notin Gates => \A d \in Rulers : ~AtDesk(d)
      BY TakesUpDesk
<1>2. ExeatTypeOK'
      BY <1>1 DEF ExeatTypeOK, TakesUp
<1>3. DesksInv'
      BY <1>1 DEF DesksInv, Desks, Rulers
<1>4. KindInv'
      BY <1>1 DEF KindInv, Desks, Rulers
<1>5. PassInv'
      BY <1>1 DEF PassInv, Desks
<1>6. GatesInv'
  <2>1. CASE c \in Gates
        BY <1>1, <2>1 DEF GatesInv, Desks, AtDesk
  <2>2. CASE c \notin Gates
    <3>1. \A d \in Gates : desk'[d] = desk[d]
          BY <1>1, <2>2 DEF Desks
    <3>2. QED BY <1>1, <3>1 DEF GatesInv
  <2>3. QED BY <2>1, <2>2
<1>7. RulersInv'
  <2>1. CASE c \in Gates
    <3>1. \A d \in Rulers : desk'[d] = desk[d]
          BY <1>1, <2>1 DEF Desks, Rulers
    <3>2. QED BY <1>1, <3>1 DEF RulersInv, AtDesk
  <2>2. CASE c \in Rulers
    <3>1. "rulers" \notin ruling' => \A d \in Rulers : d # c => ~AtDesk(d)'
          BY <1>1, <2>2 DEF Desks, Rulers, AtDesk
    <3>2. exeat.status \in {"pending_parent", "pending_form_teacher", "pending_principal"}
          BY <2>2 DEF Rulers
    <3>3. QED BY <1>1, <2>2, <3>1, <3>2 DEF RulersInv, AtDesk
  <2>3. QED BY <2>1, <2>2 DEF Desks
<1>8. QED BY <1>2, <1>3, <1>4, <1>5, <1>6, <1>7

LEMMA LeavesDeskOf ==
    ASSUME ExeatTypeOK, NEW c \in Desks, LeavesDesk(c)
    PROVE  /\ desk'[c] = "done"
           /\ \A d \in Desks : d # c => desk'[d] = desk[d]
           /\ desk' \in [Desks -> {"new", "approve", "decline", "confirm", "open", "done"}]
BY DEF LeavesDesk, ExeatTypeOK

\* The columns that nobody but createExeat, a pass and the gate writes.
Keeps == exeat'.kind = exeat.kind /\ exeat'.pass = exeat.pass /\ exeat'.gateUsed = exeat.gateUsed

LEMMA WriteReviewInv ==
    ASSUME ExeatInv, NEW c \in FormTeachers, WriteReview(c)
    PROVE  ExeatInv'
<1> USE DEF ExeatInv
<1>1. /\ desk'[c] = "done" /\ \A d \in Desks : d # c => desk'[d] = desk[d]
      /\ desk' \in [Desks -> {"new", "approve", "decline", "confirm", "open", "done"}]
      BY LeavesDeskOf DEF WriteReview, Desks, Rulers
<1>2. /\ Keeps /\ exeat'.status = "pending_principal"
      /\ exeat'.ruler = exeat.ruler /\ exeat'.confirmed = exeat.confirmed
      BY DEF WriteReview, ExeatTypeOK, Keeps
<1>3. desk[c] = "approve" /\ UNCHANGED <<exits, refused, ruling>>
      BY DEF WriteReview
<1>4. ExeatTypeOK'
      BY <1>1, <1>3 DEF ExeatTypeOK, WriteReview, ExeatStatus
<1>5. DesksInv'
      BY <1>1 DEF DesksInv, Desks, Rulers
<1>6. KindInv'
      BY <1>1, <1>2, <1>3 DEF KindInv, Desks, Rulers, Keeps
<1>7. PassInv' /\ GatesInv'
      BY <1>1, <1>2, <1>3 DEF PassInv, GatesInv, Desks, Rulers, Keeps
<1>8. RulersInv'
  <2>1. SUFFICES ASSUME "rulers" \notin ruling
                 PROVE  RulersInv'
        BY <1>3 DEF RulersInv
  <2>2. \A d \in Rulers : d # c => ~AtDesk(d)'
        BY <1>1, <1>3, <2>1 DEF RulersInv, Desks, Rulers, AtDesk
  <2>3. ~exeat.pass /\ ~refused
        BY <1>3, <2>1 DEF RulersInv, Rulers
  <2>4. QED BY <1>1, <1>2, <1>3, <2>2, <2>3 DEF RulersInv, Rulers, AtDesk, Keeps
<1>9. QED BY <1>4, <1>5, <1>6, <1>7, <1>8

LEMMA WriteDeclineInv ==
    ASSUME ExeatInv, NEW c \in FormTeachers \cup Leaders, WriteDecline(c)
    PROVE  ExeatInv'
<1> USE DEF ExeatInv
<1>1. /\ desk'[c] = "done" /\ \A d \in Desks : d # c => desk'[d] = desk[d]
      /\ desk' \in [Desks -> {"new", "approve", "decline", "confirm", "open", "done"}]
      BY LeavesDeskOf DEF WriteDecline, Desks, Rulers
<1>2. /\ Keeps /\ exeat'.status = "declined" /\ exeat'.confirmed = exeat.confirmed
      /\ exeat'.ruler = IF c \in Leaders THEN c ELSE exeat.ruler
      BY DEF WriteDecline, ExeatTypeOK, Keeps
<1>3. desk[c] = "decline" /\ refused' = TRUE /\ UNCHANGED <<exits, ruling>>
      BY DEF WriteDecline
<1>4. ExeatTypeOK'
      BY <1>1, <1>3 DEF ExeatTypeOK, WriteDecline, ExeatStatus, Rulers
<1>5. DesksInv'
      BY <1>1 DEF DesksInv, Desks, Rulers
<1>6. exeat.kind = "parent_initiated"
      BY <1>3 DEF KindInv, ExeatTypeOK, ExeatKinds
<1>7. KindInv'
      BY <1>1, <1>2, <1>6 DEF KindInv, Desks, Rulers, Keeps
<1>8. PassInv' /\ GatesInv'
      BY <1>1, <1>2, <1>3 DEF PassInv, GatesInv, Desks, Rulers, Keeps
<1>9. RulersInv'
  <2>1. SUFFICES ASSUME "rulers" \notin ruling
                 PROVE  RulersInv'
        BY <1>3 DEF RulersInv
  <2>2. \A d \in Rulers : d # c => ~AtDesk(d)'
        BY <1>1, <1>3, <2>1 DEF RulersInv, Desks, Rulers, AtDesk
  <2>3. ~exeat.pass
        BY <1>3, <2>1 DEF RulersInv, Rulers
  <2>4. QED BY <1>1, <1>2, <1>3, <2>2, <2>3 DEF RulersInv, Rulers, AtDesk, Keeps
<1>10. QED BY <1>4, <1>5, <1>7, <1>8, <1>9

\* A leader or a parent lets the request through.
LEMMA IssuePassInv ==
    ASSUME ExeatInv, NEW c \in Leaders \cup Wards,
           WriteApproval(c) \/ ConsentIssuesPass(c)
    PROVE  ExeatInv'
<1> USE DEF ExeatInv
<1>1. \A d \in Desks : d # c => desk'[d] = desk[d]
      BY DEF WriteApproval, ConsentIssuesPass, LeavesDesk, ExeatTypeOK
<1>2. /\ c \in Leaders => desk'[c] = "done"
      /\ c \in Wards => desk'[c] = "confirm"
      /\ desk' \in [Desks -> {"new", "approve", "decline", "confirm", "open", "done"}]
      BY DEF WriteApproval, ConsentIssuesPass, LeavesDesk, ExeatTypeOK, Desks, Rulers
<1>3. desk[c] = "approve" /\ UNCHANGED <<exits, refused, ruling>> /\ IssuePass(c)
      BY DEF WriteApproval, ConsentIssuesPass
<1>4. /\ exeat'.kind = exeat.kind /\ exeat'.status = "approved" /\ exeat'.pass
      /\ exeat'.confirmed = exeat.confirmed /\ exeat'.gateUsed = exeat.gateUsed
      /\ exeat'.ruler = IF exeat.ruler = NoRuler THEN c ELSE exeat.ruler
      BY <1>3 DEF IssuePass, ExeatTypeOK
<1>5. ExeatTypeOK'
      BY <1>2, <1>3 DEF ExeatTypeOK, IssuePass, ExeatStatus, Rulers
<1>6. DesksInv'
      BY <1>1, <1>2 DEF DesksInv, Desks, Rulers
<1>7. KindInv'
      BY <1>1, <1>2, <1>3, <1>4 DEF KindInv, Desks, Rulers
<1>8. PassInv'
      BY <1>1, <1>3, <1>4 DEF PassInv, Desks, Rulers
<1>9. GatesInv'
      BY <1>1, <1>3, <1>4 DEF GatesInv, Desks, Rulers
<1>10. RulersInv'
  <2>1. SUFFICES ASSUME "rulers" \notin ruling
                 PROVE  RulersInv'
        BY <1>3 DEF RulersInv
  <2>2. \A d \in Rulers : d # c => ~AtDesk(d)'
        BY <1>1, <1>3, <2>1 DEF RulersInv, Desks, Rulers, AtDesk
  <2>3. ~refused
        BY <1>3, <2>1 DEF RulersInv, Rulers
  <2>4. QED BY <1>2, <1>3, <1>4, <2>2, <2>3 DEF RulersInv, Rulers, AtDesk
<1>11. QED BY <1>5, <1>6, <1>7, <1>8, <1>9, <1>10

LEMMA NoteConsentInv ==
    ASSUME ExeatInv, NEW c \in Wards, NoteConsent(c)
    PROVE  ExeatInv'
<1> USE DEF ExeatInv
<1>1. /\ desk'[c] = "done" /\ \A d \in Desks : d # c => desk'[d] = desk[d]
      /\ desk' \in [Desks -> {"new", "approve", "decline", "confirm", "open", "done"}]
      BY LeavesDeskOf DEF NoteConsent, Desks, Rulers
<1>2. /\ Keeps /\ exeat'.status = exeat.status /\ exeat'.confirmed
      /\ exeat'.ruler = exeat.ruler
      BY DEF NoteConsent, ExeatTypeOK, Keeps
<1>3. UNCHANGED <<exits, refused, ruling>>
      BY DEF NoteConsent
<1>4. ExeatTypeOK'
      BY <1>1, <1>3 DEF ExeatTypeOK, NoteConsent
<1>5. DesksInv'
      BY <1>1 DEF DesksInv, Desks, Rulers
<1>6. KindInv'
      BY <1>1, <1>2, <1>3 DEF KindInv, Desks, Rulers, Keeps, NoteConsent
<1>7. PassInv' /\ GatesInv'
      BY <1>1, <1>2, <1>3 DEF PassInv, GatesInv, Desks, Rulers, Keeps
<1>8. RulersInv'
      BY <1>1, <1>2, <1>3 DEF RulersInv, Desks, Rulers, AtDesk, Keeps
<1>9. QED BY <1>4, <1>5, <1>6, <1>7, <1>8

LEMMA OpenGateInv ==
    ASSUME ExeatInv, NEW c \in Gates, OpenGate(c)
    PROVE  ExeatInv'
<1> USE DEF ExeatInv
<1>1. /\ desk'[c] = "done" /\ \A d \in Desks : d # c => desk'[d] = desk[d]
      /\ desk' \in [Desks -> {"new", "approve", "decline", "confirm", "open", "done"}]
      BY LeavesDeskOf DEF OpenGate, Desks
<1>2. /\ exeat'.kind = exeat.kind /\ exeat'.status = "used" /\ exeat'.gateUsed
      /\ exeat'.ruler = exeat.ruler /\ exeat'.pass = exeat.pass
      /\ exeat'.confirmed = exeat.confirmed
      BY DEF OpenGate, ExeatTypeOK
<1>3. desk[c] = "open" /\ exits' = exits + 1 /\ exits \in Nat /\ UNCHANGED <<refused, ruling>>
      BY DEF OpenGate, ExeatTypeOK
<1>4. ExeatTypeOK'
  <2>1. exeat' \in [kind : ExeatKinds, status : ExeatStatus, ruler : Rulers \cup {NoRuler},
                    pass : BOOLEAN, confirmed : BOOLEAN, gateUsed : BOOLEAN]
        BY DEF ExeatTypeOK, OpenGate, ExeatStatus
  <2>2. exits' \in Nat
        BY <1>3
  <2>3. QED BY <1>1, <1>3, <2>1, <2>2 DEF ExeatTypeOK
<1>5. DesksInv'
      BY <1>1 DEF DesksInv, Desks, Rulers
<1>6. KindInv'
      BY <1>1, <1>2, <1>3 DEF KindInv, Desks, Rulers
<1>7. PassInv'
      BY <1>1, <1>2, <1>3 DEF PassInv, Desks
<1>8. GatesInv'
      BY <1>1, <1>2, <1>3 DEF GatesInv, PassInv, Desks
<1>9. RulersInv'
  <2>1. SUFFICES ASSUME "rulers" \notin ruling
                 PROVE  RulersInv'
        BY <1>3 DEF RulersInv
  <2>2. exeat.status \in {"approved", "used"}
        BY <1>3, <2>1 DEF PassInv, RulersInv
  <2>3. \A d \in Rulers : desk[d] \notin {"approve", "decline"} /\ desk'[d] = desk[d]
        BY <1>1, <2>1, <2>2 DEF RulersInv, Desks, Rulers
  <2>4. QED BY <1>2, <1>3, <2>1, <2>2, <2>3 DEF RulersInv, AtDesk
<1>10. QED BY <1>4, <1>5, <1>6, <1>7, <1>8, <1>9

LEMMA ExeatStepInv ==
    ASSUME ExeatInv, [ExeatNext]_exeatVars
    PROVE  ExeatInv'
<1>1. ASSUME NEW c \in FormTeachers, NEW decision \in {"approve", "decline"},
             ReadForReview(c, decision)
      PROVE  ExeatInv'
      BY <1>1, TakesUpInv DEF ReadForReview, Awaits, Desks, Rulers
<1>2. ASSUME NEW c \in Leaders, NEW decision \in {"approve", "decline"},
             ReadForDecision(c, decision)
      PROVE  ExeatInv'
      BY <1>2, TakesUpInv DEF ReadForDecision, Decidable, Desks, Rulers
<1>3. ASSUME NEW c \in Wards, ReadForConsent(c) PROVE ExeatInv'
      BY <1>3, TakesUpInv DEF ReadForConsent, Awaits, Desks, Rulers
<1>4. ASSUME NEW c \in Gates, PresentPass(c) PROVE ExeatInv'
      BY <1>4, TakesUpInv DEF PresentPass, GatePasses, Desks, Rulers
<1>5. CASE UNCHANGED exeatVars
      BY <1>5 DEF exeatVars, ExeatInv, ExeatTypeOK, DesksInv, KindInv, PassInv, GatesInv,
         RulersInv, AtDesk
<1>6. QED BY <1>1, <1>2, <1>3, <1>4, <1>5, WriteReviewInv, WriteDeclineInv, IssuePassInv,
         NoteConsentInv, OpenGateInv DEF ExeatNext

LEMMA ExeatInvAllows == ExeatInv => ExitsAllowed
BY DEF ExeatInv, ExeatTypeOK, ExeatKinds, KindInv, PassInv, GatesInv, RulersInv, ExitsAllowed

\* However the calls overlap, nobody leaves without the permission the kind of
\* the exeat asks for; two gates or two decisions at one time are all that can
\* open it twice or after it was declined (safeguarding.service.ts).
THEOREM ExitsAreAllowed == ExeatInit /\ [][ExeatNext]_exeatVars => []ExitsAllowed
<1>1. ExeatInv /\ [ExeatNext]_exeatVars => ExeatInv'
      BY ExeatStepInv
<1>2. QED BY ExeatInitInv, ExeatInvAllows, <1>1, PTL

\* The exeat, its passes and the requests on it keep their types.
LEMMA ExeatTypesHold == ExeatInit /\ [][ExeatNext]_exeatVars => []ExeatTypeOK
<1>1. ExeatInv => ExeatTypeOK
      BY DEF ExeatInv
<1>2. ExeatInv /\ [ExeatNext]_exeatVars => ExeatInv'
      BY ExeatStepInv
<1>3. QED BY <1>1, <1>2, ExeatInitInv, PTL

-----------------------------------------------------------------------------
(* The slots of the timetable: Timetable.                                  *)

PlannerPcs == {"new", "class", "teacher", "write", "done"}
PlannerRows == [pc : PlannerPcs, slot : SlotPlanners \cup {"none"},
                row : SlotRows \cup {NoSlot}, missed : SUBSET SlotPlanners]

SlotTypes ==
    /\ slots \in [SlotPlanners -> SlotRows \cup {NoSlot}]
    /\ planner \in [SlotPlanners -> PlannerRows]
    /\ \A p \in SlotPlanners :
          Planning(p) => planner[p].slot \in SlotPlanners /\ planner[p].row \in SlotRows

\* What a request has looked at leaves room for its slot, but for the slots that
\* were written while it was at work.
SeenBy(p) == PlannedSlots \ ({planner[p].slot} \cup planner[p].missed)
RoomFor(p) ==
    /\ planner[p].pc \in {"teacher", "write"} =>
          \A s \in SeenBy(p) : slots[s].class = planner[p].row.class
             => ~Overlap(slots[s].window, planner[p].row.window)
    /\ planner[p].pc = "write" =>
          \A s \in SeenBy(p) :
             slots[s].teacher = planner[p].row.teacher /\ planner[p].row.teacher # NoTeacher
             => ~Overlap(slots[s].window, planner[p].row.window)

RoomInv == \A p \in SlotPlanners : RoomFor(p)

TimetableInv == SlotTypes /\ RoomInv /\ ClashesAreUnseen

LEMMA OverlapBothWays == \A a, b : Overlap(a, b) <=> Overlap(b, a)
BY DEF Overlap

\* A request that moves on and writes no slot.
LEMMA PlannerMoves ==
    ASSUME TimetableInv, NEW p \in SlotPlanners, NEW new \in PlannerRows,
           planner' = [planner EXCEPT ![p] = new], UNCHANGED <<slots, unseen>>,
           new.pc \in {"class", "teacher", "write"} =>
              new.slot \in SlotPlanners /\ new.row \in SlotRows,
           RoomFor(p)'
    PROVE  TimetableInv'
<1>1. /\ planner' \in [SlotPlanners -> PlannerRows] /\ planner'[p] = new
      /\ \A q \in SlotPlanners : q # p => planner'[q] = planner[q]
      BY DEF TimetableInv, SlotTypes
<1>2. SlotTypes'
      BY <1>1 DEF TimetableInv, SlotTypes, Planning
<1>3. PlannedSlots' = PlannedSlots
      BY DEF PlannedSlots
<1>4. ASSUME NEW q \in SlotPlanners, q # p PROVE RoomFor(q)'
      BY <1>1, <1>3, <1>4 DEF TimetableInv, RoomInv, RoomFor, SeenBy
<1>5. RoomInv'
      BY <1>4 DEF RoomInv
<1>6. ClashesAreUnseen'
      BY <1>3 DEF TimetableInv, ClashesAreUnseen
<1>7. QED BY <1>2, <1>5, <1>6 DEF TimetableInv

\* A slot is written to s by p, and the others have not seen it.
LEMMA SlotWritten ==
    ASSUME TimetableInv, NEW p \in SlotPlanners, NEW s \in SlotPlanners,
           NEW written \in SlotRows, NEW pairs,
           slots' = [slots EXCEPT ![s] = written], OthersMiss(p, s),
           \A t, u \in SlotPlanners : t # s /\ u # s /\ {t, u} \in unseen => {t, u} \in pairs,
           unseen' = pairs,
           \A t \in PlannedSlots :
              /\ t # s /\ {s, t} \notin pairs
              /\ \/ slots[t].class = written.class
                 \/ slots[t].teacher = written.teacher /\ written.teacher # NoTeacher
              => ~Overlap(slots[t].window, written.window)
    PROVE  TimetableInv'
<1>1. /\ slots'[s] = written /\ slots' \in [SlotPlanners -> SlotRows \cup {NoSlot}]
      /\ \A t \in SlotPlanners : t # s => slots'[t] = slots[t]
      BY DEF TimetableInv, SlotTypes
<1>2. \A t \in PlannedSlots' : t \in SlotPlanners /\ (t # s => t \in PlannedSlots)
      BY <1>1 DEF PlannedSlots
<1>3. \A q \in SlotPlanners :
         planner'[q] = IF q = p THEN [IdlePlanner EXCEPT !.pc = "done"]
                       ELSE IF Planning(q) THEN [planner[q] EXCEPT !.missed = @ \cup {s}]
                       ELSE planner[q]
      BY DEF OthersMiss
<1>4. planner'[p].pc = "done" /\ planner'[p] \in PlannerRows
      BY <1>3 DEF IdlePlanner, PlannerRows, PlannerPcs
<1>5. ASSUME NEW q \in SlotPlanners, q # p
      PROVE  /\ planner'[q] \in PlannerRows
             /\ planner'[q].pc = planner[q].pc /\ planner'[q].slot = planner[q].slot
             /\ planner'[q].row = planner[q].row
             /\ Planning(q) => planner'[q].missed = planner[q].missed \cup {s}
  <2>1. planner[q] \in PlannerRows
        BY DEF TimetableInv, SlotTypes
  <2>2. CASE Planning(q)
    <3>1. planner'[q] = [planner[q] EXCEPT !.missed = planner[q].missed \cup {s}]
          BY <1>3, <1>5, <2>2
    <3>2. planner[q].missed \cup {s} \in SUBSET SlotPlanners
          BY <2>1 DEF PlannerRows
    <3>3. QED BY <2>1, <3>1, <3>2 DEF PlannerRows
  <2>3. CASE ~Planning(q)
        BY <1>3, <1>5, <2>1, <2>3
  <2>4. QED BY <2>2, <2>3
<1>6. SlotTypes'
  <2>1. planner' \in [SlotPlanners -> PlannerRows]
    <3>1. \A q \in SlotPlanners : planner'[q] \in PlannerRows
          BY <1>4, <1>5
    <3>2. planner' = [q \in SlotPlanners |-> planner'[q]]
          BY DEF OthersMiss
    <3>3. QED BY <3>1, <3>2
  <2>2. \A q \in SlotPlanners : Planning(q)' =>
           planner'[q].slot \in SlotPlanners /\ planner'[q].row \in SlotRows
        BY <1>4, <1>5 DEF TimetableInv, SlotTypes, Planning
  <2>3. QED BY <1>1, <2>1, <2>2 DEF SlotTypes
<1>7. ASSUME NEW q \in SlotPlanners PROVE RoomFor(q)'
  <2>1. CASE ~Planning(q)'
        BY <2>1 DEF RoomFor, Planning
  <2>2. CASE Planning(q)'
    <3>1. q # p /\ Planning(q)
          BY <1>4, <1>5, <2>2 DEF Planning
    <3>2. \A t \in SeenBy(q)' : t \in SeenBy(q) /\ slots'[t] = slots[t]
          BY <1>1, <1>2, <1>5, <3>1 DEF SeenBy
    <3>3. RoomFor(q)
          BY DEF TimetableInv, RoomInv
    <3>4. QED BY <1>5, <3>1, <3>2, <3>3 DEF RoomFor
  <2>3. QED BY <2>1, <2>2
<1>8. ClashesAreUnseen'
  <2>1. SUFFICES ASSUME NEW t \in PlannedSlots', NEW u \in PlannedSlots', t # u,
                        {t, u} \notin pairs,
                        \/ slots'[t].class = slots'[u].class
                        \/ slots'[t].teacher = slots'[u].teacher /\ slots'[t].teacher # NoTeacher
                 PROVE  ~Overlap(slots'[t].window, slots'[u].window)
        BY DEF ClashesAreUnseen, Overlap
  <2>2. CASE t # s /\ u # s
    <3>1. /\ t \in PlannedSlots /\ u \in PlannedSlots /\ {t, u} \notin unseen
          /\ slots'[t] = slots[t] /\ slots'[u] = slots[u]
          BY <1>1, <1>2, <2>1, <2>2
    <3>2. QED BY <2>1, <3>1 DEF TimetableInv, ClashesAreUnseen
  <2>3. CASE t = s
    <3>1. u # s /\ u \in PlannedSlots /\ slots'[u] = slots[u] /\ slots'[t] = written
          BY <1>1, <1>2, <2>1, <2>3
    <3>2. {s, u} \notin pairs
          BY <2>1, <2>3
    <3>3. QED BY <2>1, <3>1, <3>2, OverlapBothWays
  <2>4. CASE u = s
    <3>1. t # s /\ t \in PlannedSlots /\ slots'[t] = slots[t] /\ slots'[u] = written
          BY <1>1, <1>2, <2>1, <2>4
    <3>2. {s, t} \notin pairs
      <4>1. {t, u} = {s, t}
            BY <2>4
      <4>2. QED BY <2>1, <4>1
    <3>3. QED BY <2>1, <3>1, <3>2
  <2>5. QED BY <2>2, <2>3, <2>4
<1>9. QED BY <1>6, <1>7, <1>8 DEF TimetableInv, RoomInv

LEMMA PlanAndLook ==
    ASSUME TimetableInv, NEW p \in SlotPlanners,
           \/ \E class \in SlotClasses, window \in Windows,
                 teacher \in SlotTeachers \cup {NoTeacher} : PlanSlot(p, class, teacher, window)
           \/ \E s \in SlotPlanners, window \in Windows : MoveSlot(p, s, window)
           \/ LookForClass(p) \/ LookForTeacher(p)
    PROVE  TimetableInv'
<1>1. ASSUME NEW new \in PlannerRows, planner' = [planner EXCEPT ![p] = new],
             new.pc \in {"class", "done"}, UNCHANGED <<slots, unseen>>,
             new.pc = "class" => new.slot \in SlotPlanners /\ new.row \in SlotRows
      PROVE  TimetableInv'
  <2>1. planner'[p] = new
        BY <1>1 DEF TimetableInv, SlotTypes
  <2>2. RoomFor(p)'
        BY <1>1, <2>1 DEF RoomFor
  <2>3. QED BY <1>1, <2>2, PlannerMoves
<1>2. CASE \E class \in SlotClasses, window \in Windows,
              teacher \in SlotTeachers \cup {NoTeacher} : PlanSlot(p, class, teacher, window)
  <2>1. PICK class \in SlotClasses, window \in Windows, teacher \in SlotTeachers \cup {NoTeacher} :
               PlanSlot(p, class, teacher, window)
        BY <1>2
  <2> DEFINE written == [class |-> class, teacher |-> teacher, window |-> window]
             new == [pc |-> "class", slot |-> p, missed |-> {}, row |-> written]
  <2>2. written \in SlotRows /\ new \in PlannerRows /\ new.pc = "class" /\ new.slot = p /\ new.row = written
        BY DEF SlotRows, PlannerRows, PlannerPcs
  <2>3. planner' = [planner EXCEPT ![p] = new] /\ UNCHANGED <<slots, unseen>>
        BY <2>1 DEF PlanSlot
  <2> HIDE DEF new, written
  <2>4. QED BY <1>1, <2>2, <2>3
<1>3. CASE \E s \in SlotPlanners, window \in Windows : MoveSlot(p, s, window)
  <2>1. PICK s \in SlotPlanners, window \in Windows : MoveSlot(p, s, window)
        BY <1>3
  <2> DEFINE written == [slots[s] EXCEPT !.window = window]
             new == [pc |-> "class", slot |-> s, missed |-> {}, row |-> written]
  <2>2. slots[s] \in SlotRows
        BY <2>1 DEF MoveSlot, PlannedSlots, TimetableInv, SlotTypes
  <2>3. written \in SlotRows
        BY <2>2 DEF SlotRows
  <2>4. new \in PlannerRows /\ new.pc = "class" /\ new.slot = s /\ new.row = written
        BY <2>3 DEF PlannerRows, PlannerPcs
  <2>5. planner' = [planner EXCEPT ![p] = new] /\ UNCHANGED <<slots, unseen>>
        BY <2>1 DEF MoveSlot
  <2> HIDE DEF new, written
  <2>6. QED BY <1>1, <2>3, <2>4, <2>5
<1>4. CASE LookForClass(p) \/ LookForTeacher(p)
  <2> DEFINE pd == IF planner[p].pc = "class"
                     THEN IF Taken(p, "class") THEN "done" ELSE "teacher"
                   ELSE IF planner[p].row.teacher # NoTeacher /\ Taken(p, "teacher")
                     THEN "done" ELSE "write"
             new == [planner[p] EXCEPT !.pc = pd]
  <2>1. /\ planner[p].pc \in {"class", "teacher"} /\ planner' = [planner EXCEPT ![p].pc = pd]
        /\ UNCHANGED <<slots, unseen>>
        BY <1>4 DEF LookForClass, LookForTeacher
  <2>2. planner[p] \in PlannerRows /\ planner[p].slot \in SlotPlanners /\ planner[p].row \in SlotRows
        BY <2>1 DEF TimetableInv, SlotTypes, Planning
  <2>3. /\ pd \in {"done", "teacher", "write"}
        /\ pd = "teacher" => planner[p].pc = "class" /\ ~Taken(p, "class")
        /\ pd = "write" => /\ planner[p].pc = "teacher"
                           /\ planner[p].row.teacher # NoTeacher => ~Taken(p, "teacher")
        BY <2>1
  <2> HIDE DEF pd
  <2>4. /\ new \in PlannerRows /\ new.pc = pd /\ new.slot = planner[p].slot
        /\ new.row = planner[p].row /\ new.missed = planner[p].missed
        BY <2>2, <2>3 DEF PlannerRows, PlannerPcs
  <2>5. planner' = [planner EXCEPT ![p] = new]
        BY <2>1
  <2> HIDE DEF new
  <2>6. planner'[p] = new
        BY <2>5 DEF TimetableInv, SlotTypes
  <2>7. RoomFor(p)'
    <3>1. SeenBy(p)' = SeenBy(p) /\ SeenBy(p) \subseteq PlannedSlots \ {planner[p].slot}
          BY <2>1, <2>4, <2>6 DEF SeenBy, PlannedSlots
    <3>2. slots' = slots
          BY <2>1
    <3>3. pd = "teacher" => \A s \in SeenBy(p) : slots[s].class = planner[p].row.class
                               => ~Overlap(slots[s].window, planner[p].row.window)
          BY <2>3, <3>1 DEF Taken
    <3>4. pd = "write" => \A s \in SeenBy(p) :
                slots[s].teacher = planner[p].row.teacher /\ planner[p].row.teacher # NoTeacher
                => ~Overlap(slots[s].window, planner[p].row.window)
          BY <2>3, <3>1 DEF Taken
    <3>5. pd = "write" => \A s \in SeenBy(p) : slots[s].class = planner[p].row.class
                               => ~Overlap(slots[s].window, planner[p].row.window)
          BY <2>3 DEF TimetableInv, RoomInv, RoomFor
    <3>6. QED BY <2>4, <2>6, <3>1, <3>2, <3>3, <3>4, <3>5 DEF RoomFor
  <2>8. QED BY <2>1, <2>2, <2>4, <2>5, <2>7, PlannerMoves
<1>5. QED BY <1>2, <1>3, <1>4

LEMMA WriteKeeps ==
    ASSUME TimetableInv, NEW p \in SlotPlanners, WriteSlot(p)
    PROVE  TimetableInv'
<1> DEFINE s == planner[p].slot
           written == planner[p].row
<1>1. planner[p].pc = "write" /\ s \in SlotPlanners /\ written \in SlotRows
      BY DEF WriteSlot, TimetableInv, SlotTypes, Planning
<1>2. CASE s # p /\ slots[s] = NoSlot
  <2> DEFINE new == [planner[p] EXCEPT !.pc = "done"]
  <2>1. planner' = [planner EXCEPT ![p] = new] /\ UNCHANGED <<slots, unseen>>
        BY <1>2 DEF WriteSlot
  <2>2. planner[p] \in PlannerRows
        BY DEF TimetableInv, SlotTypes
  <2>3. new \in PlannerRows /\ new.pc = "done"
        BY <2>2 DEF PlannerRows, PlannerPcs
  <2> HIDE DEF new
  <2>4. planner'[p] = new
        BY <2>1 DEF TimetableInv, SlotTypes
  <2>5. RoomFor(p)'
        BY <2>3, <2>4 DEF RoomFor
  <2>6. QED BY <2>1, <2>3, <2>5, PlannerMoves
<1>3. CASE ~(s # p /\ slots[s] = NoSlot)
  <2> DEFINE pairs == {pair \in unseen : s \notin pair} \cup {{s, t} : t \in planner[p].missed \ {s}}
  <2>1. /\ slots' = [slots EXCEPT ![s] = written] /\ unseen' = pairs /\ OthersMiss(p, s)
        BY <1>3 DEF WriteSlot
  <2>2. \A t, u \in SlotPlanners : t # s /\ u # s /\ {t, u} \in unseen => {t, u} \in pairs
        OBVIOUS
  <2>3. ASSUME NEW t \in PlannedSlots, t # s, {s, t} \notin pairs,
               \/ slots[t].class = written.class
               \/ slots[t].teacher = written.teacher /\ written.teacher # NoTeacher
        PROVE  ~Overlap(slots[t].window, written.window)
    <3>1. t \notin planner[p].missed
          BY <2>3
    <3>2. t \in SeenBy(p)
          BY <2>3, <3>1 DEF SeenBy
    <3>3. RoomFor(p)
          BY DEF TimetableInv, RoomInv
    <3>4. QED BY <1>1, <2>3, <3>2, <3>3 DEF RoomFor
  <2> HIDE DEF pairs, s, written
  <2>4. QED BY <1>1, <2>1, <2>2, <2>3, SlotWritten
<1>4. QED BY <1>2, <1>3

LEMMA SyncKeeps ==
    ASSUME TimetableInv, NEW p \in SlotPlanners, NEW class \in SlotClasses,
           NEW window \in Windows, NEW teacher \in SlotTeachers,
           SyncSlot(p, class, teacher, window)
    PROVE  TimetableInv'
<1> DEFINE written == [class |-> class, teacher |-> teacher, window |-> window]
           pairs == unseen \cup {{p, t} : t \in PlannedSlots \ {p}}
<1>1. written \in SlotRows
      BY DEF SlotRows
<1>2. slots' = [slots EXCEPT ![p] = written] /\ unseen' = pairs /\ OthersMiss(p, p)
      BY DEF SyncSlot
<1>3. \A t \in PlannedSlots : t # p => {p, t} \in pairs
      OBVIOUS
<1>4. \A t, u \in SlotPlanners : {t, u} \in unseen => {t, u} \in pairs
      OBVIOUS
<1> HIDE DEF written, pairs
<1>5. QED BY <1>1, <1>2, <1>3, <1>4, SlotWritten

LEMMA RemoveKeeps ==
    ASSUME TimetableInv, NEW p \in SlotPlanners, NEW s \in SlotPlanners, RemoveSlot(p, s)
    PROVE  TimetableInv'
<1>1. /\ slots' \in [SlotPlanners -> SlotRows \cup {NoSlot}] /\ slots'[s] = NoSlot
      /\ \A t \in SlotPlanners : t # s => slots'[t] = slots[t]
      /\ unseen' = unseen
      BY DEF RemoveSlot, TimetableInv, SlotTypes
<1>2. \A t \in PlannedSlots' : t \in PlannedSlots /\ slots'[t] = slots[t]
      BY <1>1 DEF PlannedSlots
<1>3. /\ planner' \in [SlotPlanners -> PlannerRows] /\ planner'[p].pc = "done"
      /\ \A q \in SlotPlanners : q # p => planner'[q] = planner[q]
  <2>1. planner[p] \in PlannerRows
        BY DEF TimetableInv, SlotTypes
  <2>2. [planner[p] EXCEPT !.pc = "done"] \in PlannerRows
        BY <2>1 DEF PlannerRows, PlannerPcs
  <2>3. planner' = [planner EXCEPT ![p] = [planner[p] EXCEPT !.pc = "done"]]
        BY DEF RemoveSlot
  <2>4. [planner[p] EXCEPT !.pc = "done"].pc = "done"
        BY <2>1 DEF PlannerRows
  <2>5. QED BY <2>2, <2>3, <2>4 DEF TimetableInv, SlotTypes
<1>4. SlotTypes'
      BY <1>1, <1>3 DEF TimetableInv, SlotTypes, Planning
<1>5. ASSUME NEW q \in SlotPlanners PROVE RoomFor(q)'
  <2>1. CASE q = p
        BY <1>3, <2>1 DEF RoomFor
  <2>2. CASE q # p
    <3>1. \A t \in SeenBy(q)' : t \in SeenBy(q) /\ slots'[t] = slots[t]
          BY <1>2, <1>3, <2>2 DEF SeenBy
    <3>2. QED BY <1>3, <2>2, <3>1 DEF TimetableInv, RoomInv, RoomFor
  <2>3. QED BY <2>1, <2>2
<1>6. ClashesAreUnseen'
      BY <1>1, <1>2 DEF TimetableInv, ClashesAreUnseen
<1>7. QED BY <1>4, <1>5, <1>6 DEF TimetableInv, RoomInv

\* What is proved of every state of the timetable.
LEMMA TimetableAlways == TimetableSpec => []TimetableInv
<1>1. TimetableInit => TimetableInv
  <2>1. SUFFICES ASSUME TimetableInit PROVE TimetableInv
        OBVIOUS
  <2>2. PlannedSlots = {} /\ \A p \in SlotPlanners : planner[p] = IdlePlanner
        BY <2>1 DEF TimetableInit, PlannedSlots
  <2>3. IdlePlanner \in PlannerRows /\ IdlePlanner.pc = "new"
        BY DEF IdlePlanner, PlannerRows, PlannerPcs
  <2>4. SlotTypes
        BY <2>1, <2>2, <2>3 DEF TimetableInit, SlotTypes, Planning
  <2>5. RoomInv
        BY <2>2, <2>3 DEF RoomInv, RoomFor
  <2>6. QED BY <2>2, <2>4, <2>5 DEF TimetableInv, ClashesAreUnseen
<1>2. TimetableInv /\ [TimetableNext]_timetableVars => TimetableInv'
  <2>1. SUFFICES ASSUME TimetableInv, [TimetableNext]_timetableVars PROVE TimetableInv'
        OBVIOUS
  <2>2. CASE UNCHANGED timetableVars
        BY <2>1, <2>2 DEF timetableVars, TimetableInv, SlotTypes, RoomInv, RoomFor, SeenBy,
           Planning, PlannedSlots, ClashesAreUnseen
  <2>3. CASE TimetableNext
    <3>1. PICK p \in SlotPlanners :
            \/ \E class \in SlotClasses, window \in Windows,
                  teacher \in SlotTeachers \cup {NoTeacher} : PlanSlot(p, class, teacher, window)
            \/ \E class \in SlotClasses, window \in Windows, teacher \in SlotTeachers :
                  SyncSlot(p, class, teacher, window)
            \/ \E s \in SlotPlanners : RemoveSlot(p, s)
            \/ \E s \in SlotPlanners, window \in Windows : MoveSlot(p, s, window)
            \/ LookForClass(p) \/ LookForTeacher(p) \/ WriteSlot(p)
          BY <2>3 DEF TimetableNext
    <3>2. QED BY <2>1, <3>1, PlanAndLook, SyncKeeps, RemoveKeeps, WriteKeeps
  <2>4. QED BY <2>1, <2>2, <2>3
<1>3. QED BY <1>1, <1>2, PTL DEF TimetableSpec

\* However requests that plan, move and remove slots overlap, and whatever
\* devices add: the clash checks of timetable.service.ts miss only slots that
\* were written while they looked, or that sync.service.ts added unchecked.
THEOREM ClashesGoUnseen == TimetableSpec => []ClashesAreUnseen
<1>1. TimetableInv => ClashesAreUnseen
      BY DEF TimetableInv
<1>2. QED BY <1>1, TimetableAlways, PTL

\* Pairs of slots that could not see each other are pairs.
LEMMA TimetableTypesHold == TimetableSpec => []TimetableTypeOK
<1> DEFINE Pairs == \A pair \in unseen : pair \subseteq SlotPlanners /\ Cardinality(pair) = 2
<1>1. TimetableInit => Pairs
      BY DEF TimetableInit
<1>2. ASSUME NEW s \in SlotPlanners, NEW t \in SlotPlanners, s # t
      PROVE  {s, t} \subseteq SlotPlanners /\ Cardinality({s, t}) = 2
  <2>1. Cardinality({s}) = 1 /\ IsFiniteSet({s}) /\ {s} \cup {t} = {s, t}
        BY FS_Singleton
  <2>2. Cardinality({s} \cup {t}) = Cardinality({s}) + 1
        BY <1>2, <2>1, FS_AddElement
  <2>3. QED BY <2>1, <2>2
<1>3. TimetableInv /\ Pairs /\ [TimetableNext]_timetableVars => Pairs'
  <2>1. SUFFICES ASSUME TimetableInv, Pairs, [TimetableNext]_timetableVars,
                        NEW pair \in unseen', pair \notin unseen
                 PROVE  \E s, t \in SlotPlanners : s # t /\ pair = {s, t}
        BY <1>2
  <2>2. SlotTypes
        BY <2>1 DEF TimetableInv
  <2>3. ASSUME NEW p \in SlotPlanners, NEW class \in SlotClasses, NEW window \in Windows,
               NEW teacher \in SlotTeachers, SyncSlot(p, class, teacher, window)
        PROVE  \E s, t \in SlotPlanners : s # t /\ pair = {s, t}
        BY <2>1, <2>3 DEF SyncSlot, PlannedSlots
  <2>4. ASSUME NEW p \in SlotPlanners, WriteSlot(p)
        PROVE  \E s, t \in SlotPlanners : s # t /\ pair = {s, t}
    <3>1. planner[p].slot \in SlotPlanners /\ planner[p].missed \subseteq SlotPlanners
          BY <2>2, <2>4 DEF WriteSlot, SlotTypes, PlannerRows, Planning
    <3>2. QED BY <2>1, <2>4, <3>1 DEF WriteSlot
  <2>5. QED BY <2>1, <2>3, <2>4 DEF TimetableNext, PlanSlot, MoveSlot, LookForClass, LookForTeacher,
           RemoveSlot, timetableVars
<1>4. TimetableInv /\ Pairs => TimetableTypeOK
      BY DEF TimetableInv, SlotTypes, PlannerRows, PlannerPcs, Planning, TimetableTypeOK
<1>5. QED BY <1>1, <1>3, <1>4, TimetableAlways, PTL DEF TimetableSpec

-----------------------------------------------------------------------------
(* Operations of offline devices: OfflineSync.                             *)

DeliveryPcs == {"new", "apply", "record", "applied", "already_applied", "failed", "torn"}
DeliveryRows == [pc : DeliveryPcs, op : DeviceOps \cup {Unsent}]

SyncTypes ==
    /\ recorded \subseteq DeviceOps /\ present \subseteq NamedCreates
    /\ applications \in [DeviceOps -> Nat] /\ removals \in [NamedCreates -> Nat]
    /\ delivery \in [Deliveries -> DeliveryRows]
    /\ \A d \in Deliveries : delivery[d].pc # "new" => delivery[d].op \in DeviceOps

\* What is recorded, or about to be, has taken effect; one answer records it.
EffectsInv ==
    /\ \A o \in recorded : applications[o] > 0
    /\ \A d \in Deliveries :
          delivery[d].pc \in {"record", "applied", "already_applied"} =>
             applications[delivery[d].op] > 0
    /\ \A d \in Deliveries :
          delivery[d].pc \in {"applied", "already_applied"} => delivery[d].op \in recorded
    /\ \A d, e \in Deliveries :
          delivery[d].pc = "applied" /\ delivery[e].pc = "applied"
             /\ delivery[d].op = delivery[e].op => d = e

\* The row of a named create is there after as many inserts as removals and one.
PresenceInv ==
    \A o \in NamedCreates :
        /\ o \in present => applications[o] = removals[o] + 1
        /\ o \notin present => applications[o] = removals[o]

Twins(d, e, o) == /\ delivery[d].op = o /\ delivery[e].op = o
                  /\ Unfinished(d) /\ Unfinished(e)
IsRecording(d, o) == delivery[d].op = o /\ delivery[d].pc = "record"

\* An operation that is not sent again too early has one unfinished request,
\* which finds it unrecorded, and took effect in torn requests and in the one
\* that records it.
SoleRequest(o) ==
    /\ \A d, e \in Deliveries : Twins(d, e, o) => d = e
    /\ \A d \in Deliveries : delivery[d].op = o /\ Unfinished(d) => o \notin recorded
EffectsCounted(o) ==
    /\ applications[o] <= 1 + Cardinality(Torn(o))
    /\ \/ applications[o] <= Cardinality(Torn(o))
       \/ o \in recorded
       \/ \E d \in Deliveries : IsRecording(d, o)
OnceInv == \A o \in DeviceOps \ again : SoleRequest(o) /\ EffectsCounted(o)

SyncInv == SyncTypes /\ EffectsInv /\ PresenceInv /\ OnceInv

LEMMA TornCount ==
    \A o : Torn(o) \in SUBSET Deliveries /\ IsFiniteSet(Torn(o)) /\ Cardinality(Torn(o)) \in Nat
<1>1. \A o : Torn(o) \in SUBSET Deliveries
      BY DEF Torn, Sends
<1>2. QED BY <1>1, OfflineSyncAssumption, FS_Subset, FS_CardinalityType

LEMMA SyncInvInit == SyncInit => SyncInv
<1> SUFFICES ASSUME SyncInit PROVE SyncInv
    OBVIOUS
<1>1. SyncTypes
      BY DEF SyncInit, SyncTypes, DeliveryRows, DeliveryPcs
<1>2. EffectsInv /\ PresenceInv
      BY DEF SyncInit, EffectsInv, PresenceInv, DeviceOps
<1>3. \A o \in DeviceOps : applications[o] = 0
      BY DEF SyncInit
<1>4. \A d \in Deliveries : ~Unfinished(d)
      BY DEF SyncInit, Unfinished
<1>5. OnceInv
      BY <1>3, <1>4, TornCount DEF Twins, OnceInv, SoleRequest, EffectsCounted
<1>6. QED BY <1>1, <1>2, <1>5 DEF SyncInv

\* One request moves, and keeps its operation once it has one.
LEMMA DeliveryMoves ==
    ASSUME SyncTypes, NEW d \in Deliveries, NEW pc \in DeliveryPcs, Answers(d, pc)
    PROVE  /\ delivery' \in [Deliveries -> DeliveryRows]
           /\ delivery'[d].pc = pc /\ delivery'[d].op = delivery[d].op
           /\ \A e \in Deliveries : e # d => delivery'[e] = delivery[e]
BY DEF SyncTypes, Answers, DeliveryRows

\* A step that ends no request torn leaves the torn ones as they are.
LEMMA TornStays ==
    ASSUME SyncTypes, NEW d \in Deliveries, NEW o,
           \A e \in Deliveries : e # d => delivery'[e] = delivery[e],
           delivery[d].pc # "torn", delivery'[d].pc # "torn"
    PROVE  Torn(o)' = Torn(o)
BY DEF Torn, Sends

LEMMA LookUpSyncs ==
    ASSUME SyncInv, NEW d \in Deliveries, NEW o \in DeviceOps, LookUpOperation(d, o)
    PROVE  SyncInv'
<1>1. /\ delivery[d].pc = "new"
      /\ delivery' = [delivery EXCEPT ![d] =
            [pc |-> IF o \in recorded THEN "already_applied" ELSE "apply", op |-> o]]
      /\ again' = again \cup {x \in {o} : \E e \in Sends(o) : Unfinished(e)}
      /\ UNCHANGED <<recorded, present, applications, removals>>
      BY DEF LookUpOperation, Known
<1> DEFINE new == [pc |-> IF o \in recorded THEN "already_applied" ELSE "apply", op |-> o]
<1>2. new \in DeliveryRows /\ new.op = o /\ new.pc \in {"already_applied", "apply"}
      /\ (new.pc = "already_applied" <=> o \in recorded)
      BY DEF DeliveryRows, DeliveryPcs
<1>3. delivery'[d] = new /\ \A e \in Deliveries : e # d => delivery'[e] = delivery[e]
      BY <1>1 DEF SyncInv, SyncTypes
<1> HIDE DEF new
<1>4. SyncTypes'
  <2>1. delivery' \in [Deliveries -> DeliveryRows]
        BY <1>1, <1>2 DEF SyncInv, SyncTypes, new
  <2>2. \A e \in Deliveries : delivery'[e].pc # "new" => delivery'[e].op \in DeviceOps
        BY <1>2, <1>3 DEF SyncInv, SyncTypes
  <2>3. QED BY <1>1, <2>1, <2>2 DEF SyncInv, SyncTypes
<1>5. EffectsInv' /\ PresenceInv'
      BY <1>1, <1>2, <1>3 DEF SyncInv, EffectsInv, PresenceInv
<1>6. ASSUME NEW q \in DeviceOps \ again' PROVE SoleRequest(q)' /\ EffectsCounted(q)'
  <2>1. q \in DeviceOps \ again /\ SoleRequest(q) /\ EffectsCounted(q)
        BY <1>1, <1>6 DEF SyncInv, OnceInv
  <2>2. q = o => \A e \in Deliveries : delivery[e].op = o => ~Unfinished(e)
        BY <1>1, <1>6 DEF Sends
  <2>3. \A e \in Deliveries : e # d => (Unfinished(e)' <=> Unfinished(e))
        BY <1>3 DEF Unfinished
  <2>4. Unfinished(d)' => o \notin recorded
        BY <1>2, <1>3 DEF Unfinished
  <2>5. SoleRequest(q)'
        BY <1>1, <1>2, <1>3, <2>1, <2>2, <2>3, <2>4 DEF SoleRequest, Twins
  <2>6. \A e \in Deliveries : IsRecording(e, q) => IsRecording(e, q)'
        BY <1>1, <1>3 DEF IsRecording
  <2>7. Torn(q)' = Torn(q)
        BY <1>1, <1>2, <1>3, TornStays DEF SyncInv
  <2>8. EffectsCounted(q)'
        BY <1>1, <2>1, <2>6, <2>7 DEF EffectsCounted
  <2>9. QED BY <2>5, <2>8
<1>7. QED BY <1>4, <1>5, <1>6 DEF SyncInv, OnceInv

\* A request that is answered leaves what was known of the others.
LEMMA AnswerSyncs ==
    ASSUME SyncInv, NEW d \in Deliveries, NEW pc \in {"applied", "failed", "torn"},
           Unfinished(d), Answers(d, pc), UNCHANGED <<applications, present, removals, again>>,
           recorded' \in {recorded, recorded \cup {delivery[d].op}},
           recorded' # recorded => delivery[d].pc = "record",
           pc = "applied" => delivery[d].op \notin recorded /\ delivery[d].op \in recorded',
           delivery[d].pc = "record" => pc = "torn" \/ delivery[d].op \in recorded',
           pc = "torn" => delivery[d].pc = "record"
    PROVE  SyncInv'
<1> DEFINE o == delivery[d].op
<1>1. o \in DeviceOps /\ delivery[d].pc \in {"apply", "record"}
      BY DEF Unfinished, SyncInv, SyncTypes
<1>2. /\ delivery' \in [Deliveries -> DeliveryRows]
      /\ delivery'[d].pc = pc /\ delivery'[d].op = o
      /\ \A e \in Deliveries : e # d => delivery'[e] = delivery[e]
      BY DeliveryMoves DEF SyncInv, DeliveryPcs
<1>3. \A e \in Deliveries : (Unfinished(e)' => Unfinished(e) /\ e # d)
                            /\ delivery'[e].op = delivery[e].op
      BY <1>2 DEF Unfinished, o
<1>4. recorded \subseteq recorded' /\ recorded' \subseteq recorded \cup {o}
      OBVIOUS
<1>5. o \in recorded' \ recorded => applications[o] > 0
      BY DEF SyncInv, EffectsInv
<1>6. pc = "applied" => applications[o] > 0
      BY <1>4, <1>5 DEF SyncInv, EffectsInv
<1>7. SyncTypes'
      BY <1>1, <1>2, <1>4 DEF SyncInv, SyncTypes
<1>8. EffectsInv'
  <2>1. \A q \in recorded' : applications[q] > 0
        BY <1>4, <1>5 DEF SyncInv, EffectsInv
  <2>2. \A e \in Deliveries : delivery'[e].pc \in {"record", "applied", "already_applied"}
           => applications[delivery'[e].op] > 0
        BY <1>2, <1>6 DEF SyncInv, EffectsInv
  <2>3. \A e \in Deliveries : delivery'[e].pc \in {"applied", "already_applied"}
           => delivery'[e].op \in recorded'
        BY <1>2, <1>4 DEF SyncInv, EffectsInv
  <2>4. \A e, f \in Deliveries : delivery'[e].pc = "applied" /\ delivery'[f].pc = "applied"
           /\ delivery'[e].op = delivery'[f].op => e = f
        BY <1>2 DEF SyncInv, EffectsInv
  <2>5. QED BY <2>1, <2>2, <2>3, <2>4 DEF EffectsInv
<1>9. PresenceInv'
      BY DEF SyncInv, PresenceInv
<1>10. ASSUME NEW q \in DeviceOps \ again PROVE SoleRequest(q)' /\ EffectsCounted(q)'
  <2>1. SoleRequest(q) /\ EffectsCounted(q)
        BY <1>10 DEF SyncInv, OnceInv
  <2>2. SoleRequest(q)'
    <3>1. \A e \in Deliveries : delivery'[e].op = q /\ Unfinished(e)' => q \notin recorded'
      <4>1. CASE q = o
            BY <1>3, <2>1, <4>1 DEF SoleRequest, Twins
      <4>2. CASE q # o
            BY <1>3, <1>4, <2>1, <4>2 DEF SoleRequest
      <4>3. QED BY <4>1, <4>2
    <3>2. QED BY <1>3, <2>1, <3>1 DEF SoleRequest, Twins
  <2>3. CASE q # o
    <3>1. \A e \in Deliveries : IsRecording(e, q) => IsRecording(e, q)'
          BY <1>2, <2>3 DEF IsRecording
    <3>2. Torn(q)' = Torn(q)
          BY <1>2, <2>3 DEF Torn, Sends
    <3>3. QED BY <1>4, <2>1, <2>2, <3>1, <3>2 DEF EffectsCounted
  <2>4. CASE q = o /\ pc # "torn"
    <3>1. Torn(q)' = Torn(q)
          BY <1>1, <1>2, <2>4, TornStays DEF SyncInv
    <3>2. \A e \in Deliveries : IsRecording(e, q) => e = d
          BY <1>1, <2>1, <2>4 DEF SoleRequest, Twins, IsRecording, Unfinished
    <3>3. QED BY <1>4, <2>1, <2>2, <2>4, <3>1, <3>2 DEF EffectsCounted, IsRecording
  <2>5. CASE q = o /\ pc = "torn"
    <3>1. Torn(q)' = Torn(q) \cup {d} /\ d \notin Torn(q)
          BY <1>1, <1>2, <2>5 DEF Torn, Sends
    <3>2. Cardinality(Torn(q) \cup {d}) = Cardinality(Torn(q)) + 1
          BY <3>1, TornCount, FS_AddElement
    <3>3. applications[q] \in Nat /\ Cardinality(Torn(q)) \in Nat
          BY TornCount DEF SyncInv, SyncTypes
    <3>4. Cardinality(Torn(q)') = Cardinality(Torn(q)) + 1
          BY <3>1, <3>2
    <3>5. applications[q] <= Cardinality(Torn(q)')
          BY <2>1, <3>3, <3>4 DEF EffectsCounted
    <3>6. EffectsCounted(q)'
          BY <3>3, <3>4, <3>5 DEF EffectsCounted
    <3>7. QED BY <2>2, <3>6
  <2>6. QED BY <2>3, <2>4, <2>5
<1>11. OnceInv'
       BY <1>10 DEF OnceInv
<1>12. QED BY <1>7, <1>8, <1>9, <1>11 DEF SyncInv

LEMMA ApplySyncs ==
    ASSUME SyncInv, NEW d \in Deliveries, ApplyOperation(d)
    PROVE  SyncInv'
<1> DEFINE o == delivery[d].op
<1>1. /\ delivery[d].pc = "apply" /\ o \in DeviceOps /\ Unfinished(d)
      /\ UNCHANGED <<recorded, removals, again>>
      BY DEF ApplyOperation, SyncInv, SyncTypes, Unfinished
<1>2. \A q \in DeviceOps : applications[q] \in Nat
      BY DEF SyncInv, SyncTypes
<1>3. CASE Applies(o)
  <2>1. /\ applications' = [applications EXCEPT ![o] = @ + 1] /\ Answers(d, "record")
        /\ present' = present \cup ({o} \cap NamedCreates)
        BY <1>3 DEF ApplyOperation
  <2>2. /\ applications' \in [DeviceOps -> Nat] /\ applications'[o] = applications[o] + 1
        /\ \A q \in DeviceOps : q # o => applications'[q] = applications[q]
        BY <1>1, <2>1 DEF SyncInv, SyncTypes
  <2>3. /\ delivery' \in [Deliveries -> DeliveryRows]
        /\ delivery'[d].pc = "record" /\ delivery'[d].op = o
        /\ \A e \in Deliveries : e # d => delivery'[e] = delivery[e]
        BY <2>1, DeliveryMoves DEF SyncInv, DeliveryPcs
  <2> HIDE DEF o
  <2>4. SyncTypes'
        BY <1>1, <2>1, <2>2, <2>3 DEF SyncInv, SyncTypes
  <2>5. \A q \in DeviceOps : applications'[q] >= applications[q]
        BY <1>2, <2>2
  <2>6. EffectsInv'
    <3>1. \A q \in recorded : applications'[q] > 0
          BY <1>2, <2>2, <2>5 DEF SyncInv, EffectsInv, SyncTypes
    <3>2. \A e \in Deliveries : delivery'[e].pc \in {"record", "applied", "already_applied"}
             => applications'[delivery'[e].op] > 0
      <4>1. applications'[o] > 0
            BY <1>1, <1>2, <2>2
      <4>2. ASSUME NEW e \in Deliveries, e # d,
                   delivery[e].pc \in {"record", "applied", "already_applied"}
            PROVE  applications'[delivery[e].op] > 0
        <5>1. delivery[e].op \in DeviceOps /\ applications[delivery[e].op] > 0
              BY <4>2 DEF SyncInv, SyncTypes, EffectsInv
        <5>2. QED BY <1>2, <2>2, <2>5, <5>1
      <4>3. QED BY <2>3, <4>1, <4>2
    <3>3. QED BY <1>1, <2>3, <3>1, <3>2 DEF SyncInv, EffectsInv
  <2>7. ASSUME NEW q \in NamedCreates
        PROVE  /\ q \in present' => applications'[q] = removals[q] + 1
               /\ q \notin present' => applications'[q] = removals[q]
    <3>1. /\ q \in present => applications[q] = removals[q] + 1
          /\ q \notin present => applications[q] = removals[q]
          /\ q \in DeviceOps
          BY DEF SyncInv, PresenceInv, DeviceOps
    <3>2. o \notin present
          BY <1>3 DEF Applies, o
    <3>3. QED BY <2>1, <2>2, <3>1, <3>2
  <2>8. PresenceInv'
        BY <1>1, <2>7 DEF PresenceInv
  <2>9. ASSUME NEW q \in DeviceOps \ again PROVE SoleRequest(q)' /\ EffectsCounted(q)'
    <3>1. SoleRequest(q) /\ EffectsCounted(q)
          BY <2>9 DEF SyncInv, OnceInv
    <3>2. \A e \in Deliveries : (Unfinished(e)' => Unfinished(e))
                                /\ delivery'[e].op = delivery[e].op
          BY <1>1, <2>3 DEF Unfinished, o
    <3>3. SoleRequest(q)'
          BY <1>1, <3>1, <3>2 DEF SoleRequest, Twins
    <3>4. Torn(q)' = Torn(q)
          BY <1>1, <2>3, TornStays DEF SyncInv
    <3>5. CASE q = o
      <4>1. q \notin recorded /\ \A e \in Deliveries : ~IsRecording(e, q)
            BY <1>1, <3>1, <3>5 DEF SoleRequest, Twins, Unfinished, IsRecording, o
      <4>2. applications[q] <= Cardinality(Torn(q)) /\ Cardinality(Torn(q)) \in Nat
            BY <3>1, <4>1, TornCount DEF EffectsCounted
      <4>3. applications'[q] <= 1 + Cardinality(Torn(q))
            BY <1>2, <2>2, <3>5, <4>2
      <4>4. IsRecording(d, q)'
            BY <2>3, <3>5 DEF IsRecording
      <4>5. QED BY <3>3, <3>4, <4>3, <4>4 DEF EffectsCounted
    <3>6. CASE q # o
      <4>1. \A e \in Deliveries : IsRecording(e, q) => IsRecording(e, q)'
            BY <1>1, <2>3 DEF IsRecording
      <4>2. QED BY <1>1, <2>2, <3>1, <3>3, <3>4, <3>6, <4>1 DEF EffectsCounted
    <3>7. QED BY <3>5, <3>6
  <2>10. OnceInv'
         BY <1>1, <2>9 DEF OnceInv
  <2>11. QED BY <2>4, <2>6, <2>8, <2>10 DEF SyncInv
<1>4. CASE ~Applies(o)
  <2>1. Answers(d, "failed") /\ UNCHANGED <<applications, present>>
        BY <1>4 DEF ApplyOperation
  <2>2. QED BY <1>1, <2>1, AnswerSyncs
<1>5. QED BY <1>3, <1>4

LEMMA RecordSyncs ==
    ASSUME SyncInv, NEW d \in Deliveries, RecordOperation(d) \/ CutShort(d)
    PROVE  SyncInv'
<1>1. CASE RecordOperation(d)
  <2>1. /\ Unfinished(d) /\ delivery[d].pc = "record"
        /\ UNCHANGED <<applications, present, removals, again>>
        BY <1>1 DEF RecordOperation, Unfinished
  <2>2. CASE delivery[d].op \in recorded
    <3>1. Answers(d, "failed") /\ recorded' = recorded
          BY <1>1, <2>2 DEF RecordOperation
    <3>2. QED BY <2>1, <2>2, <3>1, AnswerSyncs
  <2>3. CASE delivery[d].op \notin recorded
    <3>1. Answers(d, "applied") /\ recorded' = recorded \cup {delivery[d].op}
          BY <1>1, <2>3 DEF RecordOperation
    <3>2. QED BY <2>1, <2>3, <3>1, AnswerSyncs
  <2>4. QED BY <2>2, <2>3
<1>2. CASE CutShort(d)
  <2>1. Unfinished(d) /\ UNCHANGED <<recorded, applications, present, removals, again>>
        BY <1>2 DEF CutShort
  <2>2. CASE delivery[d].pc = "record"
    <3>1. Answers(d, "torn")
          BY <1>2, <2>2 DEF CutShort
    <3>2. QED BY <2>1, <2>2, <3>1, AnswerSyncs
  <2>3. CASE delivery[d].pc # "record"
    <3>1. Answers(d, "failed")
          BY <1>2, <2>3 DEF CutShort
    <3>2. QED BY <2>1, <2>3, <3>1, AnswerSyncs
  <2>4. QED BY <2>2, <2>3
<1>3. QED BY <1>1, <1>2

LEMMA RemoveSyncs ==
    ASSUME SyncInv, NEW o \in NamedCreates, RemoveRow(o)
    PROVE  SyncInv'
<1>1. /\ o \in present /\ present' = present \ {o} /\ removals' = [removals EXCEPT ![o] = @ + 1]
      /\ UNCHANGED <<recorded, delivery, applications, again>>
      BY DEF RemoveRow
<1>2. /\ removals' \in [NamedCreates -> Nat] /\ removals'[o] = removals[o] + 1
      /\ \A q \in NamedCreates : q # o => removals'[q] = removals[q]
      BY <1>1 DEF SyncInv, SyncTypes
<1>3. SyncTypes' /\ EffectsInv'
      BY <1>1, <1>2 DEF SyncInv, SyncTypes, EffectsInv
<1>4. PresenceInv'
      BY <1>1, <1>2 DEF SyncInv, PresenceInv
<1>5. OnceInv'
      BY <1>1 DEF SyncInv, OnceInv, SoleRequest, EffectsCounted, Twins, Unfinished, IsRecording,
                  Torn, Sends
<1>6. QED BY <1>3, <1>4, <1>5 DEF SyncInv

\* What is proved of every state of a device's operations.
LEMMA SyncAlways == SyncSpec => []SyncInv
<1>1. SyncInv /\ [SyncNext]_syncVars => SyncInv'
  <2>1. SUFFICES ASSUME SyncInv, [SyncNext]_syncVars PROVE SyncInv'
        OBVIOUS
  <2>2. CASE UNCHANGED syncVars
    <3>1. UNCHANGED <<recorded, present, delivery, applications, removals, again>>
          BY <2>2 DEF syncVars
    <3>2. SyncTypes' /\ EffectsInv'
          BY <2>1, <3>1 DEF SyncInv, SyncTypes, EffectsInv
    <3>3. PresenceInv'
          BY <2>1, <3>1 DEF SyncInv, PresenceInv
    <3>4. OnceInv'
          BY <2>1, <3>1 DEF SyncInv, OnceInv, SoleRequest, EffectsCounted, Twins, Unfinished,
             IsRecording, Torn, Sends
    <3>5. QED BY <3>2, <3>3, <3>4 DEF SyncInv
  <2>3. CASE SyncNext
        BY <2>1, <2>3, LookUpSyncs, ApplySyncs, RecordSyncs, RemoveSyncs DEF SyncNext
  <2>4. QED BY <2>1, <2>2, <2>3
<1>2. QED BY SyncInvInit, <1>1, PTL DEF SyncSpec

\* However often a device sends an operation, however its requests overlap and
\* wherever they are cut short: sync.service.ts lets an operation that is not
\* sent again before its last request had ended take effect in one request and in
\* those that ended between the effect and its record, inserts the row of a
\* create once more only when it was deleted, answers "applied" to one request at
\* most, and success only for what has taken effect and is recorded.
THEOREM DevicesSyncOnce == SyncSpec => []SyncedOnce
<1>1. SyncInv => SyncedOnce
  <2>1. SUFFICES ASSUME SyncInv PROVE SyncedOnce
        OBVIOUS
  <2>2. ASSUME NEW o \in DeviceOps \ again PROVE applications[o] <= 1 + Cardinality(Torn(o))
        BY <2>1 DEF SyncInv, OnceInv, EffectsCounted
  <2>3. ASSUME NEW o \in NamedCreates PROVE applications[o] <= 1 + removals[o]
    <3>1. removals[o] \in Nat
          BY <2>1 DEF SyncInv, SyncTypes
    <3>2. QED BY <2>1, <3>1 DEF SyncInv, PresenceInv
  <2>4. ASSUME NEW o \in DeviceOps
        PROVE  Cardinality({d \in Sends(o) : delivery[d].pc = "applied"}) <= 1
    <3> DEFINE S == {d \in Sends(o) : delivery[d].pc = "applied"}
    <3>1. \A d, e \in S : d = e
          BY <2>1 DEF SyncInv, EffectsInv, Sends
    <3>2. S = {} \/ \E x : S = {x}
          BY <3>1
    <3> SUFFICES Cardinality(S) <= 1
        OBVIOUS
    <3> HIDE DEF S
    <3>3. CASE S = {}
      <4>1. Cardinality(S) = 0
            BY <3>3, FS_EmptySet
      <4>2. QED BY <4>1
    <3>4. CASE \E x : S = {x}
          BY <3>4, FS_Singleton
    <3>5. QED BY <3>2, <3>3, <3>4
  <2>5. QED BY <2>1, <2>2, <2>3, <2>4 DEF SyncedOnce, SyncInv, EffectsInv
<1>2. QED BY <1>1, SyncAlways, PTL

\* A request applies an operation once.
Applied == {d \in Deliveries : delivery[d].pc \notin {"new", "apply"}}
AppliedInv == \A o \in DeviceOps : applications[o] <= Cardinality(Applied)

LEMMA AppliedStep ==
    ASSUME SyncInv, SyncInv', AppliedInv, [SyncNext]_syncVars
    PROVE  AppliedInv'
<1>1. SyncTypes /\ SyncTypes' /\ Applied \in SUBSET Deliveries /\ Applied' \in SUBSET Deliveries
      BY DEF SyncInv, Applied
<1>2. CASE UNCHANGED <<delivery, applications>>
      BY <1>2 DEF AppliedInv, Applied
<1>3. ASSUME Applied \subseteq Applied',
             \A o \in DeviceOps : \/ applications'[o] <= applications[o]
                                  \/ applications'[o] = applications[o] + 1 /\ Applied # Applied'
      PROVE  AppliedInv'
  <2>1. SUFFICES ASSUME NEW o \in DeviceOps PROVE applications'[o] <= Cardinality(Applied')
        BY DEF AppliedInv
  <2>2. applications[o] \in Nat /\ applications'[o] \in Nat /\ applications[o] <= Cardinality(Applied)
        BY <1>1 DEF SyncTypes, AppliedInv
  <2>3. QED BY <1>1, <1>3, <2>2, CountsWhoIsThrough, OfflineSyncAssumption
<1>4. ASSUME NEW d \in Deliveries, NEW pc \in {"applied", "failed", "torn"}, Answers(d, pc)
      PROVE  Applied \subseteq Applied'
      BY <1>1, <1>4 DEF SyncTypes, Answers, Applied
<1>5. ASSUME NEW d \in Deliveries, NEW o \in DeviceOps, LookUpOperation(d, o)
      PROVE  Applied \subseteq Applied' /\ UNCHANGED applications
      BY <1>1, <1>5 DEF SyncTypes, LookUpOperation, Applied
<1>6. ASSUME NEW d \in Deliveries, ApplyOperation(d)
      PROVE  /\ Applied \subseteq Applied' /\ Applied # Applied'
             /\ \A o \in DeviceOps : applications'[o] \in {applications[o], applications[o] + 1}
  <2>1. PICK pc \in {"record", "failed"} : Answers(d, pc)
        BY <1>6 DEF ApplyOperation
  <2>2. Applied' = Applied \cup {d} /\ d \notin Applied
        BY <1>1, <1>6, <2>1 DEF SyncTypes, Answers, Applied, ApplyOperation
  <2>3. QED BY <1>1, <1>6, <2>2 DEF SyncTypes, ApplyOperation
<1>7. ASSUME NEW d \in Deliveries, RecordOperation(d) \/ CutShort(d)
      PROVE  Applied \subseteq Applied' /\ UNCHANGED applications
  <2>1. PICK pc \in {"applied", "failed", "torn"} : Answers(d, pc)
        BY <1>7 DEF RecordOperation, CutShort
  <2>2. QED BY <1>4, <1>7, <2>1 DEF RecordOperation, CutShort
<1>8. \A o \in DeviceOps : applications[o] \in Nat
      BY <1>1 DEF SyncTypes
<1>9. QED BY <1>2, <1>3, <1>5, <1>6, <1>7, <1>8 DEF SyncNext, RemoveRow, syncVars

\* No operation takes effect more often than requests were sent, and no row goes
\* more often than it came.
LEMMA SyncTypesHold == SyncSpec => []SyncTypeOK
<1> DEFINE Again == again \subseteq DeviceOps
<1>1. SyncInit => AppliedInv /\ Again
  <2>1. SUFFICES ASSUME SyncInit PROVE AppliedInv /\ Again
        OBVIOUS
  <2>2. Cardinality(Applied) \in Nat
        BY NoMoreThanAll, OfflineSyncAssumption DEF Applied
  <2>3. QED BY <2>1, <2>2 DEF SyncInit, AppliedInv
<1>2. Again /\ [SyncNext]_syncVars => Again'
      BY DEF SyncNext, LookUpOperation, ApplyOperation, RecordOperation, CutShort, RemoveRow,
             syncVars
<1>3. SyncInv /\ AppliedInv /\ Again => SyncTypeOK
  <2>1. SUFFICES ASSUME SyncInv, AppliedInv, Again PROVE SyncTypeOK
        OBVIOUS
  <2>2. /\ Cardinality(Applied) \in Nat /\ Cardinality(Deliveries) \in Nat
        /\ Cardinality(Applied) <= Cardinality(Deliveries)
        BY NoMoreThanAll, OfflineSyncAssumption DEF Applied
  <2>3. \A o \in DeviceOps : applications[o] \in 0..Cardinality(Deliveries)
        BY <2>1, <2>2 DEF SyncInv, SyncTypes, AppliedInv
  <2>4. applications \in [DeviceOps -> 0..Cardinality(Deliveries)]
        BY <2>1, <2>3 DEF SyncInv, SyncTypes
  <2>5. \A o \in NamedCreates : removals[o] \in 0..Cardinality(Deliveries)
    <3>1. TAKE o \in NamedCreates
    <3>2. o \in DeviceOps /\ removals[o] \in Nat /\ removals[o] <= applications[o]
          BY <2>1 DEF SyncInv, SyncTypes, PresenceInv, DeviceOps
    <3>3. QED BY <2>2, <2>3, <3>2
  <2>6. removals \in [NamedCreates -> 0..Cardinality(Deliveries)]
        BY <2>1, <2>5 DEF SyncInv, SyncTypes
  <2>7. QED BY <2>1, <2>4, <2>6 DEF SyncInv, SyncTypes, DeliveryRows, DeliveryPcs, SyncTypeOK
<1>4. SyncInv /\ SyncInv' /\ AppliedInv /\ [SyncNext]_syncVars => AppliedInv'
      BY AppliedStep
<1>5. QED BY <1>1, <1>2, <1>3, <1>4, SyncAlways, PTL DEF SyncSpec

\* Together: what requests and devices write of the timetable is sound.
THEOREM SlotsAreSound == TimetableSpec /\ SyncSpec => []SlotsSound
<1>1. ClashesAreUnseen /\ SyncedOnce => SlotsSound
      BY DEF SlotsSound
<1>2. QED BY <1>1, ClashesGoUnseen, DevicesSyncOnce, PTL

-----------------------------------------------------------------------------
(* The copies of a title: Library.                                         *)

OutLoans == {l \in Loans : row[l] = "out"}
TakingLoans == {l \in Loans : borrowing[l] = "take"}
ShelvingReturns == {u \in Returns : returning[u].pc = "shelve"}

ReturnRows == [pc : {"new", "mark", "shelve", "done"}, of : Loans \cup {NoLoanRow}]

ShelfTypes ==
    /\ available \in Int
    /\ row \in [Loans -> {"none", "out", "returned"}]
    /\ borrowing \in [Loans -> {"new", "insert", "take", "done"}]
    /\ returning \in [Returns -> ReturnRows]
    /\ \A u \in Returns : Returning(u) => returning[u].of \in Loans /\ row[returning[u].of] # "none"
    /\ \A l \in Loans : borrowing[l] \in {"new", "insert"} => row[l] = "none"

\* Unless requests are cut short or returns of one loan overlap, a loan is out
\* until its one return marks it, and copies and loans add up.
CountInv ==
    ~miscounted =>
       /\ \A u \in Returns : returning[u].pc = "mark" => row[returning[u].of] = "out"
       /\ \A u, v \in Returns :
             Returning(u) /\ Returning(v) /\ returning[u].of = returning[v].of => u = v
       /\ available + Cardinality(OutLoans)
            = Copies + Cardinality(TakingLoans) - Cardinality(ShelvingReturns)

\* A loan that is let in alone has its copy on the shelf until it takes it.
AloneInv ==
    ~crowded =>
       /\ available >= 0
       /\ \A k, l \in Loans : Borrowing(k) /\ Borrowing(l) => k = l
       /\ \A l \in Loans : Borrowing(l) => available >= 1

ShelfInv == ShelfTypes /\ CountInv /\ AloneInv

LEMMA ShelfSetsAreFinite ==
    ASSUME ShelfTypes
    PROVE  /\ IsFiniteSet(OutLoans) /\ Cardinality(OutLoans) \in Nat
           /\ IsFiniteSet(TakingLoans) /\ Cardinality(TakingLoans) \in Nat
           /\ IsFiniteSet(ShelvingReturns) /\ Cardinality(ShelvingReturns) \in Nat
<1>1. OutLoans \subseteq Loans /\ TakingLoans \subseteq Loans /\ ShelvingReturns \subseteq Returns
      BY DEF OutLoans, TakingLoans, ShelvingReturns
<1>2. IsFiniteSet(OutLoans) /\ IsFiniteSet(TakingLoans) /\ IsFiniteSet(ShelvingReturns)
      BY <1>1, LibraryAssumption, FS_Subset
<1>3. QED BY <1>2, FS_CardinalityType

\* One more, or one less.
LEMMA OneMore ==
    ASSUME NEW S, IsFiniteSet(S), NEW x, x \notin S, NEW T, T = S \cup {x}
    PROVE  Cardinality(T) = Cardinality(S) + 1
BY FS_AddElement

LEMMA OneLess ==
    ASSUME NEW S, IsFiniteSet(S), NEW x, x \in S, NEW T, T = S \ {x}
    PROVE  Cardinality(T) = Cardinality(S) - 1
BY FS_RemoveElement

LEMMA LoanInv ==
    ASSUME ShelfInv, NEW l \in Loans,
           BeginLoan(l) \/ InsertLoan(l) \/ TakeCopy(l) \/ CutLoan(l)
    PROVE  ShelfInv'
<1>1. /\ borrowing' \in [Loans -> {"new", "insert", "take", "done"}]
      /\ \A k \in Loans : k # l => borrowing'[k] = borrowing[k]
      /\ returning' = returning
      BY DEF ShelfInv, ShelfTypes, BeginLoan, InsertLoan, TakeCopy, CutLoan
<1>2. ShelvingReturns' = ShelvingReturns
      BY <1>1 DEF ShelvingReturns
<1>3. /\ IsFiniteSet(OutLoans) /\ Cardinality(OutLoans) \in Nat
      /\ IsFiniteSet(TakingLoans) /\ Cardinality(TakingLoans) \in Nat
      /\ Cardinality(ShelvingReturns) \in Nat
      BY ShelfSetsAreFinite DEF ShelfInv
<1>4. CASE BeginLoan(l)
  <2>1. /\ borrowing[l] = "new" /\ available >= 1 /\ borrowing'[l] = "insert"
        /\ UNCHANGED <<available, row, returning, miscounted>>
        /\ crowded' = (crowded \/ \E k \in Loans : Borrowing(k))
        BY <1>4 DEF BeginLoan, ShelfInv, ShelfTypes
  <2>2. ShelfTypes'
        BY <1>1, <2>1 DEF ShelfInv, ShelfTypes, Returning
  <2>3. OutLoans' = OutLoans /\ TakingLoans' = TakingLoans
        BY <1>1, <2>1 DEF OutLoans, TakingLoans
  <2>4. CountInv'
        BY <1>2, <2>1, <2>3 DEF ShelfInv, CountInv, Returning
  <2>5. \A k \in Loans : k # l => Borrowing(k)' = Borrowing(k)
        BY <1>1 DEF Borrowing
  <2>6. AloneInv'
    <3>1. SUFFICES ASSUME ~crowded' PROVE AloneInv'
          BY DEF AloneInv
    <3>2. \A k \in Loans : ~Borrowing(k)
          BY <2>1, <3>1
    <3>3. \A k \in Loans : Borrowing(k)' => k = l
          BY <2>5, <3>2
    <3>4. available' >= 1
          BY <2>1
    <3>5. QED BY <3>3, <3>4, <2>2 DEF AloneInv, ShelfTypes
  <2>7. QED BY <2>2, <2>4, <2>6 DEF ShelfInv
<1>5. CASE InsertLoan(l)
  <2>1. /\ borrowing[l] = "insert" /\ borrowing'[l] = "take"
        /\ row[l] = "none" /\ row'[l] = "out" /\ row' \in [Loans -> {"none", "out", "returned"}]
        /\ \A k \in Loans : k # l => row'[k] = row[k]
        /\ UNCHANGED <<available, returning, miscounted, crowded>>
        BY <1>5 DEF InsertLoan, ShelfInv, ShelfTypes
  <2>2. ShelfTypes'
        BY <1>1, <2>1 DEF ShelfInv, ShelfTypes, Returning
  <2>3. OutLoans' = OutLoans \cup {l} /\ l \notin OutLoans
        BY <2>1 DEF OutLoans
  <2>4. TakingLoans' = TakingLoans \cup {l} /\ l \notin TakingLoans
        BY <1>1, <2>1 DEF TakingLoans
  <2>5. Cardinality(OutLoans') = Cardinality(OutLoans) + 1
        BY <1>3, <2>3, OneMore
  <2>6. Cardinality(TakingLoans') = Cardinality(TakingLoans) + 1
        BY <1>3, <2>4, OneMore
  <2>7. CountInv'
    <3>1. SUFFICES ASSUME ~miscounted PROVE CountInv'
          BY <2>1 DEF CountInv
    <3>2. \A u \in Returns : returning'[u].pc = "mark" => row'[returning'[u].of] = "out"
      <4>1. SUFFICES ASSUME NEW u \in Returns, returning[u].pc = "mark"
                     PROVE  row'[returning[u].of] = "out"
            BY <2>1
      <4>2. row[returning[u].of] = "out" /\ returning[u].of \in Loans
            BY <3>1, <4>1 DEF ShelfInv, ShelfTypes, CountInv, Returning
      <4>3. QED BY <2>1, <4>2
    <3>3. available' + Cardinality(OutLoans')
            = Copies + Cardinality(TakingLoans') - Cardinality(ShelvingReturns')
          BY <1>2, <1>3, <2>1, <2>5, <2>6, <3>1, LibraryAssumption DEF ShelfInv, CountInv, ShelfTypes
    <3>4. QED BY <2>1, <3>1, <3>2, <3>3 DEF ShelfInv, CountInv, Returning
  <2>8. AloneInv'
    <3>1. \A k \in Loans : Borrowing(k)' = Borrowing(k)
          BY <1>1, <2>1 DEF Borrowing
    <3>2. QED BY <2>1, <3>1 DEF ShelfInv, AloneInv
  <2>9. QED BY <2>2, <2>7, <2>8 DEF ShelfInv
<1>6. CASE TakeCopy(l)
  <2>1. /\ borrowing[l] = "take" /\ borrowing'[l] = "done" /\ available' = available - 1
        /\ UNCHANGED <<row, returning, miscounted, crowded>>
        BY <1>6 DEF TakeCopy, ShelfInv, ShelfTypes
  <2>2. ShelfTypes'
        BY <1>1, <2>1 DEF ShelfInv, ShelfTypes, Returning
  <2>3. OutLoans' = OutLoans
        BY <2>1 DEF OutLoans
  <2>4. TakingLoans' = TakingLoans \ {l} /\ l \in TakingLoans
        BY <1>1, <2>1 DEF TakingLoans
  <2>5. Cardinality(TakingLoans') = Cardinality(TakingLoans) - 1
        BY <1>3, <2>4, OneLess
  <2>6. CountInv'
    <3>1. SUFFICES ASSUME ~miscounted PROVE CountInv'
          BY <2>1 DEF CountInv
    <3>2. available' + Cardinality(OutLoans')
            = Copies + Cardinality(TakingLoans') - Cardinality(ShelvingReturns')
      <4>1. /\ available \in Int /\ Copies \in Int
            /\ available + Cardinality(OutLoans)
                 = Copies + Cardinality(TakingLoans) - Cardinality(ShelvingReturns)
            BY <3>1, LibraryAssumption DEF ShelfInv, CountInv, ShelfTypes
      <4>2. /\ Cardinality(OutLoans') = Cardinality(OutLoans)
            /\ Cardinality(ShelvingReturns') = Cardinality(ShelvingReturns)
            BY <1>2, <2>3
      <4>3. QED BY <1>2, <1>3, <2>1, <2>5, <4>1, <4>2
    <3>3. QED BY <2>1, <3>1, <3>2 DEF ShelfInv, CountInv, Returning
  <2>7. AloneInv'
    <3>1. SUFFICES ASSUME ~crowded PROVE AloneInv'
          BY <2>1 DEF AloneInv
    <3>2. Borrowing(l) /\ ~Borrowing(l)'
          BY <2>1 DEF Borrowing
    <3>3. \A k \in Loans : ~Borrowing(k)'
          BY <1>1, <3>1, <3>2 DEF ShelfInv, AloneInv, Borrowing
    <3>4. available' >= 0
          BY <2>1, <3>1, <3>2 DEF ShelfInv, AloneInv, ShelfTypes
    <3>5. QED BY <3>3, <3>4 DEF AloneInv
  <2>8. QED BY <2>2, <2>6, <2>7 DEF ShelfInv
<1>7. CASE CutLoan(l)
  <2>1. /\ Borrowing(l) /\ borrowing'[l] = "done"
        /\ miscounted' = (miscounted \/ borrowing[l] = "take")
        /\ UNCHANGED <<available, row, returning, crowded>>
        BY <1>7 DEF CutLoan, ShelfInv, ShelfTypes
  <2>2. ShelfTypes'
        BY <1>1, <2>1 DEF ShelfInv, ShelfTypes, Returning
  <2>3. OutLoans' = OutLoans
        BY <2>1 DEF OutLoans
  <2>4. CountInv'
    <3>1. SUFFICES ASSUME ~miscounted' PROVE CountInv'
          BY DEF CountInv
    <3>2. ~miscounted /\ borrowing[l] # "take"
          BY <2>1, <3>1
    <3>3. TakingLoans' = TakingLoans
          BY <1>1, <2>1, <3>2 DEF TakingLoans
    <3>4. QED BY <1>2, <2>1, <2>3, <3>2, <3>3 DEF ShelfInv, CountInv, Returning
  <2>5. AloneInv'
    <3>1. \A k \in Loans : Borrowing(k)' => Borrowing(k)
          BY <1>1, <2>1 DEF Borrowing
    <3>2. QED BY <2>1, <3>1 DEF ShelfInv, AloneInv
  <2>6. QED BY <2>2, <2>4, <2>5 DEF ShelfInv
<1>8. QED BY <1>4, <1>5, <1>6, <1>7

LEMMA ReturnInv ==
    ASSUME ShelfInv, NEW u \in Returns,
           \/ \E l \in Loans : BeginReturn(u, l)
           \/ MarkReturned(u) \/ ShelveCopy(u) \/ CutReturn(u)
    PROVE  ShelfInv'
<1>1. /\ returning' \in [Returns -> ReturnRows]
      /\ \A v \in Returns : v # u => returning'[v] = returning[v]
      /\ returning[u] \in ReturnRows
      BY DEF ShelfInv, ShelfTypes, ReturnRows, BeginReturn, MarkReturned, ShelveCopy, CutReturn
<1>2. /\ borrowing' = borrowing /\ crowded' = crowded /\ TakingLoans' = TakingLoans
      /\ \A l \in Loans : Borrowing(l)' = Borrowing(l)
      BY DEF BeginReturn, MarkReturned, ShelveCopy, CutReturn, TakingLoans, Borrowing
<1>3. /\ IsFiniteSet(OutLoans) /\ Cardinality(OutLoans) \in Nat
      /\ Cardinality(TakingLoans) \in Nat
      /\ IsFiniteSet(ShelvingReturns) /\ Cardinality(ShelvingReturns) \in Nat
      BY ShelfSetsAreFinite DEF ShelfInv
<1>4. /\ available \in Int /\ Copies \in Int
      /\ ~miscounted => available + Cardinality(OutLoans)
            = Copies + Cardinality(TakingLoans) - Cardinality(ShelvingReturns)
      BY LibraryAssumption DEF ShelfInv, CountInv, ShelfTypes
<1>5. \A v \in Returns : v # u => Returning(v)' = Returning(v)
      BY <1>1 DEF Returning
<1>6. CASE \E l \in Loans : BeginReturn(u, l)
  <2>1. PICK l \in Loans : BeginReturn(u, l)
        BY <1>6
  <2>2. /\ returning[u].pc = "new" /\ row[l] = "out"
        /\ returning'[u].pc = "mark" /\ returning'[u].of = l
        /\ miscounted' = (miscounted \/ \E v \in Returns : Returning(v) /\ returning[v].of = l)
        /\ UNCHANGED <<available, row>>
        BY <2>1 DEF BeginReturn, Returnable, ShelfInv, ShelfTypes
  <2>3. ShelfTypes'
        BY <1>1, <1>2, <1>5, <2>2 DEF ShelfInv, ShelfTypes
  <2>4. OutLoans' = OutLoans /\ ShelvingReturns' = ShelvingReturns
        BY <1>1, <2>2 DEF OutLoans, ShelvingReturns
  <2>5. CountInv'
    <3>1. SUFFICES ASSUME ~miscounted' PROVE CountInv'
          BY DEF CountInv
    <3>2. ~miscounted /\ \A v \in Returns : Returning(v) => returning[v].of # l
          BY <2>2, <3>1
    <3>3. \A v, w \in Returns :
             Returning(v)' /\ Returning(w)' /\ returning'[v].of = returning'[w].of => v = w
      <4>1. SUFFICES ASSUME NEW v \in Returns, NEW w \in Returns, Returning(v)', Returning(w)',
                            returning'[v].of = returning'[w].of
                     PROVE  v = w
            OBVIOUS
      <4>2. CASE v # u /\ w # u
            BY <1>1, <1>5, <3>2, <4>1, <4>2 DEF ShelfInv, CountInv
      <4>3. QED BY <1>1, <1>5, <2>2, <3>2, <4>1, <4>2
    <3>4. \A v \in Returns : returning'[v].pc = "mark" => row[returning'[v].of] = "out"
          BY <1>1, <2>2, <3>2 DEF ShelfInv, CountInv
    <3>5. available' + Cardinality(OutLoans')
            = Copies + Cardinality(TakingLoans') - Cardinality(ShelvingReturns')
          BY <1>2, <1>4, <2>2, <2>4, <3>2
    <3>6. QED BY <2>2, <3>3, <3>4, <3>5 DEF CountInv
  <2>6. AloneInv'
        BY <1>2, <2>2 DEF ShelfInv, AloneInv
  <2>7. QED BY <2>3, <2>5, <2>6 DEF ShelfInv
<1>7. CASE MarkReturned(u)
  <2> DEFINE l == returning[u].of
  <2>1. /\ returning[u].pc = "mark" /\ returning'[u].pc = "shelve" /\ returning'[u].of = l
        /\ row' = [row EXCEPT ![l] = "returned"]
        /\ UNCHANGED <<available, miscounted>>
        BY <1>7, <1>1 DEF MarkReturned, ShelfInv, ShelfTypes, ReturnRows
  <2>2. Returning(u) /\ Returning(u)' /\ l \in Loans
        BY <2>1 DEF Returning, ShelfInv, ShelfTypes
  <2>3. /\ row' \in [Loans -> {"none", "out", "returned"}] /\ row'[l] = "returned"
        /\ \A k \in Loans : k # l => row'[k] = row[k]
        BY <2>1, <2>2 DEF ShelfInv, ShelfTypes
  <2>4. ShelfTypes'
    <3>1. ASSUME NEW k \in Loans, borrowing'[k] \in {"new", "insert"} PROVE row'[k] = "none"
      <4>1. row[k] = "none"
            BY <1>2, <3>1 DEF ShelfInv, ShelfTypes
      <4>2. k # l
            BY <2>2, <4>1 DEF ShelfInv, ShelfTypes
      <4>3. QED BY <2>3, <4>1, <4>2
    <3>2. ASSUME NEW v \in Returns, Returning(v)'
          PROVE  returning'[v].of \in Loans /\ row'[returning'[v].of] # "none"
      <4>1. CASE v = u
            BY <2>1, <2>2, <2>3, <4>1
      <4>2. CASE v # u
            BY <1>1, <1>5, <2>3, <3>2, <4>2 DEF ShelfInv, ShelfTypes
      <4>3. QED BY <4>1, <4>2
    <3>3. QED BY <1>1, <1>2, <2>1, <2>3, <3>1, <3>2 DEF ShelfInv, ShelfTypes
  <2>5. CountInv'
    <3>1. SUFFICES ASSUME ~miscounted PROVE CountInv'
          BY <2>1 DEF CountInv
    <3>2. row[l] = "out"
          BY <2>1, <3>1 DEF ShelfInv, CountInv
    <3>3. OutLoans' = OutLoans \ {l} /\ l \in OutLoans
          BY <2>2, <2>3, <3>2 DEF OutLoans
    <3>4. ShelvingReturns' = ShelvingReturns \cup {u} /\ u \notin ShelvingReturns
          BY <1>1, <2>1 DEF ShelvingReturns
    <3>5. Cardinality(OutLoans') = Cardinality(OutLoans) - 1
          BY <1>3, <3>3, OneLess
    <3>6. Cardinality(ShelvingReturns') = Cardinality(ShelvingReturns) + 1
          BY <1>3, <3>4, OneMore
    <3>7. available' + Cardinality(OutLoans')
            = Copies + Cardinality(TakingLoans') - Cardinality(ShelvingReturns')
          BY <1>2, <1>3, <1>4, <2>1, <3>1, <3>5, <3>6
    <3>8. \A v \in Returns : v # u /\ Returning(v) => returning[v].of # l
          BY <2>2, <3>1 DEF ShelfInv, CountInv
    <3>9. \A v \in Returns : returning'[v].pc = "mark" => row'[returning'[v].of] = "out"
      <4>1. SUFFICES ASSUME NEW v \in Returns, returning'[v].pc = "mark"
                     PROVE  row'[returning'[v].of] = "out"
            OBVIOUS
      <4>2. v # u /\ returning'[v] = returning[v] /\ Returning(v)
            BY <1>1, <2>1, <4>1 DEF Returning
      <4>3. row[returning[v].of] = "out" /\ returning[v].of # l /\ returning[v].of \in Loans
            BY <3>1, <3>8, <4>1, <4>2 DEF ShelfInv, CountInv, ShelfTypes
      <4>4. QED BY <2>3, <4>2, <4>3
    <3>10. \A v, w \in Returns :
             Returning(v)' /\ Returning(w)' /\ returning'[v].of = returning'[w].of => v = w
      <4>1. \A v \in Returns : Returning(v)' => Returning(v)
            BY <1>5, <2>2
      <4>2. \A v \in Returns : returning'[v].of = returning[v].of
            BY <1>1, <2>1
      <4>3. QED BY <3>1, <4>1, <4>2 DEF ShelfInv, CountInv
    <3>11. QED BY <3>7, <3>9, <3>10 DEF CountInv
  <2>6. AloneInv'
        BY <1>2, <2>1 DEF ShelfInv, AloneInv
  <2>7. QED BY <2>4, <2>5, <2>6 DEF ShelfInv
<1>8. CASE ShelveCopy(u) \/ CutReturn(u)
  <2>1. returning'[u].pc = "done" /\ row' = row /\ ~Returning(u)'
    <3>1. returning' = [returning EXCEPT ![u].pc = "done"] /\ row' = row
          BY <1>8 DEF ShelveCopy, CutReturn
    <3>2. returning'[u].pc = "done"
          BY <1>1, <3>1 DEF ReturnRows, ShelfInv, ShelfTypes
    <3>3. QED BY <3>1, <3>2 DEF Returning
  <2>2. /\ available' \in Int
        /\ available' = available \/ available' = available + 1
        BY <1>4, <1>8 DEF ShelveCopy, CutReturn
  <2>3. ShelfTypes'
        BY <1>1, <1>2, <1>5, <2>1, <2>2 DEF ShelfInv, ShelfTypes
  <2>4. CountInv'
    <3>1. SUFFICES ASSUME ~miscounted' PROVE CountInv'
          BY DEF CountInv
    <3>2. ~miscounted /\ (CutReturn(u) => returning[u].pc # "shelve")
      <4>1. CASE ShelveCopy(u)
        <5>1. ~miscounted /\ returning[u].pc = "shelve" /\ returning'[u].pc = "done" /\ available' # available
              BY <1>4, <2>1, <3>1, <4>1 DEF ShelveCopy
        <5>2. QED BY <5>1 DEF CutReturn
      <4>2. CASE CutReturn(u)
            BY <3>1, <4>2 DEF CutReturn
      <4>3. QED BY <1>8, <4>1, <4>2
    <3>3. OutLoans' = OutLoans
          BY <2>1 DEF OutLoans
    <3>4. available' + Cardinality(OutLoans')
            = Copies + Cardinality(TakingLoans') - Cardinality(ShelvingReturns')
      <4>1. CASE ShelveCopy(u)
        <5>1. returning[u].pc = "shelve" /\ available' = available + 1
              BY <4>1 DEF ShelveCopy
        <5>2. ShelvingReturns' = ShelvingReturns \ {u} /\ u \in ShelvingReturns
              BY <1>1, <2>1, <5>1 DEF ShelvingReturns
        <5>3. Cardinality(ShelvingReturns') = Cardinality(ShelvingReturns) - 1
              BY <1>3, <5>2, OneLess
        <5>4. Cardinality(OutLoans') = Cardinality(OutLoans)
              BY <3>3
        <5>5. QED BY <1>2, <1>3, <1>4, <3>2, <5>1, <5>3, <5>4
      <4>2. CASE CutReturn(u)
        <5>1. ShelvingReturns' = ShelvingReturns /\ available' = available
              BY <1>1, <2>1, <3>2, <4>2 DEF ShelvingReturns, CutReturn
        <5>2. QED BY <1>2, <1>4, <3>2, <3>3, <5>1
      <4>3. QED BY <1>8, <4>1, <4>2
    <3>5. \A v \in Returns : Returning(v)' => v # u /\ Returning(v) /\ returning'[v] = returning[v]
          BY <1>1, <1>5, <2>1
    <3>6. \A v \in Returns : returning'[v].pc = "mark" => row'[returning'[v].of] = "out"
      <4>1. \A v \in Returns : returning'[v].pc = "mark" => v # u
            BY <2>1
      <4>2. QED BY <1>1, <2>1, <3>2, <4>1 DEF ShelfInv, CountInv
    <3>7. \A v, w \in Returns :
             Returning(v)' /\ Returning(w)' /\ returning'[v].of = returning'[w].of => v = w
          BY <3>2, <3>5 DEF ShelfInv, CountInv
    <3>8. QED BY <3>4, <3>6, <3>7 DEF CountInv
  <2>5. AloneInv'
    <3>1. SUFFICES ASSUME ~crowded PROVE AloneInv'
          BY <1>2 DEF AloneInv
    <3>2. QED BY <1>2, <1>4, <2>2, <3>1 DEF ShelfInv, AloneInv
  <2>6. QED BY <2>3, <2>4, <2>5 DEF ShelfInv
<1>9. QED BY <1>6, <1>7, <1>8

\* What is proved of every state of the library.
LEMMA ShelfAlways == LibrarySpec => []ShelfInv
<1>1. LibraryInit => ShelfInv
  <2>1. SUFFICES ASSUME LibraryInit PROVE ShelfInv
        OBVIOUS
  <2>2. /\ \A l \in Loans : row[l] = "none" /\ borrowing[l] = "new" /\ ~Borrowing(l)
        /\ \A u \in Returns : returning[u] = NewReturn /\ ~Returning(u)
        /\ NewReturn \in ReturnRows /\ NewReturn.pc = "new"
        BY <2>1 DEF LibraryInit, Borrowing, Returning, NewReturn, ReturnRows
  <2>3. OutLoans = {} /\ TakingLoans = {} /\ ShelvingReturns = {}
        BY <2>2 DEF OutLoans, TakingLoans, ShelvingReturns
  <2>4. Cardinality({}) = 0
        BY FS_EmptySet
  <2>5. ShelfTypes
        BY <2>1, <2>2, LibraryAssumption DEF LibraryInit, ShelfTypes
  <2>6. CountInv
        BY <2>1, <2>2, <2>3, <2>4, LibraryAssumption DEF LibraryInit, CountInv
  <2>7. AloneInv
        BY <2>1, <2>2, LibraryAssumption DEF LibraryInit, AloneInv
  <2>8. QED BY <2>5, <2>6, <2>7 DEF ShelfInv
<1>2. ShelfInv /\ [LibraryNext]_libraryVars => ShelfInv'
  <2>1. SUFFICES ASSUME ShelfInv, [LibraryNext]_libraryVars PROVE ShelfInv'
        OBVIOUS
  <2>2. CASE UNCHANGED libraryVars
        BY <2>1, <2>2 DEF libraryVars, ShelfInv, ShelfTypes, CountInv, AloneInv, Borrowing,
           Returning, OutLoans, TakingLoans, ShelvingReturns
  <2>3. CASE LibraryNext
        BY <2>1, <2>3, LoanInv, ReturnInv DEF LibraryNext
  <2>4. QED BY <2>1, <2>2, <2>3
<1>3. QED BY <1>1, <1>2, PTL DEF LibrarySpec

\* As long as no request is cut short between the statements of
\* library.service.ts and no loan is returned twice at once, the copies on the
\* shelf and the loans that are out add up, however many requests overlap.
THEOREM ShelvesAddUp == LibrarySpec => []ShelfCount
<1>1. ShelfInv => ShelfCount
      BY DEF ShelfInv, CountInv, AloneInv, ShelfCount, OutLoans, TakingLoans, ShelvingReturns
<1>2. QED BY <1>1, ShelfAlways, PTL

\* Every step of a request leaves the library's types as they are.
LEMMA ShelfTypesHold == LibrarySpec => []LibraryTypeOK
<1> DEFINE Ghosts == miscounted \in BOOLEAN /\ crowded \in BOOLEAN
<1>1. LibraryInit => Ghosts
      BY DEF LibraryInit
<1>2. Ghosts /\ [LibraryNext]_libraryVars => Ghosts'
      BY DEF LibraryNext, libraryVars, BeginLoan, InsertLoan, TakeCopy, CutLoan, MarkReturned,
         ShelveCopy, CutReturn, BeginReturn
<1>3. ShelfInv /\ Ghosts => LibraryTypeOK
      BY DEF ShelfInv, ShelfTypes, ReturnRows, LibraryTypeOK
<1>4. QED BY <1>1, <1>2, <1>3, ShelfAlways, PTL DEF LibrarySpec

-----------------------------------------------------------------------------
(* A day's sign-in of staff: StaffAttendance.                              *)

SignerRows == [pc : SignerPcs, staff : Staff \cup {Nobody}, code : Codes, config : Configs]
SaverRows == [pc : {"new", "write", "done"}, code : Codes]

AttendanceTypes ==
    /\ config \in Configs /\ codes \in Codes
    /\ signer \in [Signers -> SignerRows]
    /\ saver \in [Savers -> SaverRows]
    /\ signedIn \in [Staff -> Nat]
    /\ admitted \in [Codes -> Nat]
    /\ \A r \in Signers :
          /\ signer[r].pc \in {"code", "delete", "insert"} => signer[r].staff \in Staff
          /\ signer[r].pc = "new" => signer[r].staff = Nobody

Renewing(r) == signer[r].pc \in {"renew", "replace"}
Saving(v) == saver[v].pc = "write"
Attends(r, m) == signer[r].staff = m /\ signer[r].pc \notin {"new", "done"}

\* The one writer of the config has read what is there, and a sign-in the code
\* that it will replace; a code that has let one in is not there any more.
ConfigInv ==
    /\ \A r, q \in Signers : Renewing(r) /\ Renewing(q) => r = q
    /\ \A v, w \in Savers : Saving(v) /\ Saving(w) => v = w
    /\ \A r \in Signers, v \in Savers : ~(Renewing(r) /\ Saving(v))
    /\ \A r \in Signers : signer[r].pc = "replace" => signer[r].config = config
    /\ \A v \in Savers : Saving(v) => saver[v].code = config.code
    /\ \A r \in Signers : Renewing(r) /\ signer[r].staff # Nobody => signer[r].code = config.code
    /\ \A c \in Codes : admitted[c] <= 1 /\ (admitted[c] > 0 => c # config.code /\ c <= codes)
    /\ config.settings = lastSaved /\ config.code <= codes

CodesInv == ~entangled => ConfigInv

\* One sign-in of a person deletes before it inserts.
RowOf(m) ==
    /\ m \notin doubled =>
          /\ signedIn[m] <= 1
          /\ \A r, q \in Signers : Attends(r, m) /\ Attends(q, m) => r = q
          /\ \A r \in Signers : Attends(r, m) /\ signer[r].pc = "insert" => signedIn[m] = 0
    /\ m \in through \ cutShort =>
          signedIn[m] >= 1 \/ \E r \in Signers : Attends(r, m) /\ signer[r].pc = "insert"

RowsInv == \A m \in Staff : RowOf(m)

AttendanceInv == AttendanceTypes /\ CodesInv /\ RowsInv

-----------------------------------------------------------------------------
\* What a step of one request does to the requests.
SignerStep(r, new) ==
    /\ signer' = [signer EXCEPT ![r] = new]
    /\ new \in SignerRows
    /\ new.pc \in {"code", "delete", "insert"} => new.staff \in Staff
    /\ new.pc # "new"

LEMMA SignerStepTypes ==
    ASSUME AttendanceTypes, NEW r \in Signers, NEW new, SignerStep(r, new)
    PROVE  /\ signer' \in [Signers -> SignerRows]
           /\ signer'[r] = new
           /\ \A q \in Signers : q # r => signer'[q] = signer[q]
           /\ \A q \in Signers :
                 /\ signer'[q].pc \in {"code", "delete", "insert"} => signer'[q].staff \in Staff
                 /\ signer'[q].pc = "new" => signer'[q].staff = Nobody
BY DEF AttendanceTypes, SignerStep

\* A step that is neither of a writer of the config nor makes one.
LEMMA NoWriter ==
    ASSUME AttendanceInv, NEW r \in Signers, NEW new, SignerStep(r, new),
           new.pc \notin {"renew", "replace"},
           UNCHANGED <<config, codes, saver, admitted, lastSaved, entangled>>
    PROVE  CodesInv'
<1>1. \A q \in Signers : signer'[q].pc \in {"renew", "replace"} => signer'[q] = signer[q]
      BY SignerStepTypes DEF AttendanceInv
<1>2. \A q \in Signers : Renewing(q)' => Renewing(q) /\ signer'[q] = signer[q]
      BY <1>1 DEF Renewing
<1>3. \A v \in Savers : Saving(v)' => Saving(v)
      BY DEF Saving
<1>4. SUFFICES ASSUME ~entangled PROVE ConfigInv'
      BY DEF CodesInv
<1>5. ConfigInv
      BY <1>4 DEF AttendanceInv, CodesInv
<1>6. /\ \A q, p \in Signers : Renewing(q)' /\ Renewing(p)' => q = p
      /\ \A q \in Signers, v \in Savers : ~(Renewing(q)' /\ Saving(v)')
      /\ \A v, w \in Savers : Saving(v)' /\ Saving(w)' => v = w
      BY <1>2, <1>3, <1>5 DEF ConfigInv
<1>7. /\ \A q \in Signers : signer'[q].pc = "replace" => signer'[q].config = config
      /\ \A q \in Signers : Renewing(q)' /\ signer'[q].staff # Nobody => signer'[q].code = config.code
      BY <1>1, <1>2, <1>5 DEF ConfigInv
<1>8. \A v \in Savers : Saving(v)' => saver'[v].code = config.code
      BY <1>3, <1>5 DEF ConfigInv
<1>9. QED BY <1>5, <1>6, <1>7, <1>8 DEF ConfigInv

\* A step that is before the DELETE or has no row to write.
LEMMA NoRowWritten ==
    ASSUME AttendanceInv, NEW r \in Signers, NEW new, SignerStep(r, new),
           new.staff = signer[r].staff, signer[r].pc # "insert", new.pc # "insert",
           signer[r].pc \in {"new", "done"} /\ new.pc # "done" => new.staff = Nobody,
           UNCHANGED <<signedIn, doubled, through, cutShort>>
    PROVE  RowsInv'
<1>1. SUFFICES ASSUME NEW m \in Staff PROVE RowOf(m)'
      BY DEF RowsInv
<1>2. RowOf(m) /\ m # Nobody
      BY AttendanceAssumption DEF AttendanceInv, RowsInv
<1>3. /\ signer'[r] = new
      /\ \A q \in Signers : q # r => signer'[q] = signer[q]
      BY SignerStepTypes DEF AttendanceInv
<1>4. \A q \in Signers : Attends(q, m)' => Attends(q, m)
      BY <1>2, <1>3 DEF Attends
<1>5. \A q \in Signers : Attends(q, m)' /\ signer'[q].pc = "insert" =>
                            Attends(q, m) /\ signer[q].pc = "insert"
      BY <1>3, <1>4
<1>6. \A q \in Signers : Attends(q, m) /\ signer[q].pc = "insert" =>
                            Attends(q, m)' /\ signer'[q].pc = "insert"
      BY <1>3 DEF Attends
<1>7. m \notin doubled => \A p, q \in Signers : Attends(p, m)' /\ Attends(q, m)' => p = q
      BY <1>2, <1>4 DEF RowOf
<1>8. QED BY <1>2, <1>5, <1>6, <1>7 DEF RowOf

-----------------------------------------------------------------------------
LEMMA AdmitInv ==
    ASSUME AttendanceInv, NEW r \in Signers, NEW m \in Staff, NEW code \in Codes,
           NEW at \in {"code", "delete"}, Admit(r, m, at, code)
    PROVE  AttendanceInv'
<1> DEFINE new == [pc |-> at, staff |-> m, code |-> code, config |-> NoConfig]
<1>1. /\ new \in SignerRows /\ new.pc = at /\ new.staff = m
      BY AttendanceAssumption DEF SignerRows, SignerPcs, NoConfig, Configs, Codes, Settings
<1>2. /\ signer' = [signer EXCEPT ![r] = new] /\ signer[r].pc = "new" /\ signedIn[m] = 0
      /\ doubled' = IF SigningIn(m) = {} THEN doubled ELSE doubled \cup {m}
      /\ UNCHANGED <<config, codes, saver, signedIn, admitted, lastSaved, entangled, through, cutShort>>
      BY DEF Admit
<1> HIDE DEF new
<1>3. SignerStep(r, new)
      BY <1>1, <1>2 DEF SignerStep
<1>4. CodesInv'
      BY <1>1, <1>2, <1>3, NoWriter
<1>5. AttendanceTypes'
      BY <1>2, <1>3, SignerStepTypes DEF AttendanceInv, AttendanceTypes
<1>6. /\ signer'[r] = new
      /\ \A q \in Signers : q # r => signer'[q] = signer[q]
      BY <1>3, SignerStepTypes DEF AttendanceInv
<1>7. ASSUME NEW n \in Staff PROVE RowOf(n)'
  <2>1. RowOf(n)
        BY DEF AttendanceInv, RowsInv
  <2>2. \A q \in Signers : Attends(q, n)' /\ signer'[q].pc = "insert" <=> Attends(q, n) /\ signer[q].pc = "insert"
        BY <1>1, <1>2, <1>6 DEF Attends
  <2>3. CASE n # m
    <3>1. \A q \in Signers : Attends(q, n)' => Attends(q, n)
          BY <1>1, <1>6, <2>3 DEF Attends
    <3>2. n \in doubled <=> n \in doubled'
          BY <1>2, <2>3
    <3>3. n \notin doubled => \A p, q \in Signers : Attends(p, n)' /\ Attends(q, n)' => p = q
          BY <2>1, <3>1 DEF RowOf
    <3>4. QED BY <1>2, <2>1, <2>2, <3>2, <3>3 DEF RowOf
  <2>4. CASE n = m
    <3>1. ASSUME n \notin doubled'
          PROVE  n \notin doubled /\ \A p, q \in Signers : Attends(p, n)' /\ Attends(q, n)' => p = q
      <4>1. SigningIn(m) = {} /\ n \notin doubled
            BY <1>2, <2>4, <3>1
      <4>2. \A q \in Signers : q # r => ~Attends(q, n)'
            BY <1>6, <2>4, <4>1 DEF Attends, SigningIn
      <4>3. QED BY <4>1, <4>2
    <3>2. QED BY <1>2, <2>1, <2>2, <3>1 DEF RowOf
  <2>5. QED BY <2>3, <2>4
<1>8. QED BY <1>4, <1>5, <1>7 DEF AttendanceInv, RowsInv

\* A request that sets out to replace the code.
LEMMA RenewInv ==
    ASSUME AttendanceInv, NEW r \in Signers, CompareCode(r) \/ AskCode(r)
    PROVE  AttendanceInv'
<1> DEFINE at == IF signer[r].pc = "new" \/ config.code = signer[r].code THEN "renew" ELSE "done"
           new == [signer[r] EXCEPT !.pc = at]
<1>1. /\ signer[r].pc \in {"new", "code"} /\ signer' = [signer EXCEPT ![r].pc = at]
      /\ entangled' = (entangled \/ Writers # {})
      /\ UNCHANGED <<config, codes, saver, signedIn, admitted, lastSaved, doubled, through, cutShort>>
      BY DEF CompareCode, AskCode
<1>2. at \in {"renew", "done"} /\ signer[r] \in SignerRows
      BY DEF AttendanceInv, AttendanceTypes
<1>3. /\ at = "renew" => signer[r].pc = "new" \/ config.code = signer[r].code
      /\ signer[r].pc = "new" => signer[r].staff = Nobody
      BY DEF AttendanceInv, AttendanceTypes
<1>4. signer' = [signer EXCEPT ![r] = new]
      BY <1>1
<1> HIDE DEF at
<1>5. /\ new \in SignerRows /\ new.pc = at /\ new.staff = signer[r].staff
      /\ new.code = signer[r].code
      BY <1>2 DEF SignerRows, SignerPcs
<1> HIDE DEF new
<1>6. SignerStep(r, new)
      BY <1>2, <1>4, <1>5 DEF SignerStep
<1>7. AttendanceTypes'
      BY <1>1, <1>6, SignerStepTypes DEF AttendanceInv, AttendanceTypes
<1>8. RowsInv'
      BY <1>1, <1>2, <1>3, <1>5, <1>6, NoRowWritten
<1>9. /\ signer'[r] = new
      /\ \A q \in Signers : q # r => signer'[q] = signer[q]
      BY <1>6, SignerStepTypes DEF AttendanceInv
<1>10. CodesInv'
  <2>1. SUFFICES ASSUME ~entangled' PROVE ConfigInv'
        BY DEF CodesInv
  <2>2. ConfigInv /\ Writers = {}
        BY <1>1, <2>1 DEF AttendanceInv, CodesInv
  <2>3. /\ \A q \in Signers : ~Renewing(q)
        /\ \A v \in Savers : ~Saving(v)
        BY <2>2 DEF Writers, Renewing, Saving
  <2>4. /\ \A q \in Signers : Renewing(q)' => q = r
        /\ \A v \in Savers : ~Saving(v)'
        BY <1>1, <1>9, <2>3 DEF Renewing, Saving
  <2>5. /\ \A q \in Signers : signer'[q].pc # "replace"
        /\ \A q \in Signers : Renewing(q)' /\ signer'[q].staff # Nobody => signer'[q].code = config'.code
    <3>1. signer'[r].pc # "replace"
          BY <1>2, <1>5, <1>9
    <3>2. \A q \in Signers : signer'[q].pc # "replace"
          BY <1>9, <2>3, <3>1 DEF Renewing
    <3>3. Renewing(r)' /\ signer'[r].staff # Nobody => signer'[r].code = config.code
          BY <1>2, <1>3, <1>5, <1>9 DEF Renewing
    <3>4. QED BY <1>1, <2>4, <3>2, <3>3
  <2>6. QED BY <1>1, <2>2, <2>4, <2>5 DEF ConfigInv
<1>11. QED BY <1>7, <1>8, <1>10 DEF AttendanceInv

LEMMA ReadConfigInv ==
    ASSUME AttendanceInv, NEW r \in Signers, ReadConfig(r)
    PROVE  AttendanceInv'
<1> DEFINE new == [signer[r] EXCEPT !.pc = "replace", !.config = config]
<1>1. /\ signer[r].pc = "renew" /\ signer' = [signer EXCEPT ![r] = new]
      /\ UNCHANGED <<config, codes, saver, signedIn, admitted, lastSaved, entangled,
                     doubled, through, cutShort>>
      BY DEF ReadConfig
<1>2. signer[r] \in SignerRows /\ config \in Configs
      BY DEF AttendanceInv, AttendanceTypes
<1>3. /\ new \in SignerRows /\ new.pc = "replace" /\ new.staff = signer[r].staff
      /\ new.code = signer[r].code /\ new.config = config
      BY <1>2 DEF SignerRows, SignerPcs
<1> HIDE DEF new
<1>4. SignerStep(r, new)
      BY <1>1, <1>3 DEF SignerStep
<1>5. AttendanceTypes'
      BY <1>1, <1>4, SignerStepTypes DEF AttendanceInv, AttendanceTypes
<1>6. RowsInv'
      BY <1>1, <1>3, <1>4, NoRowWritten
<1>7. /\ signer'[r] = new
      /\ \A q \in Signers : q # r => signer'[q] = signer[q]
      BY <1>4, SignerStepTypes DEF AttendanceInv
<1>8. CodesInv'
  <2>1. SUFFICES ASSUME ~entangled PROVE ConfigInv'
        BY <1>1 DEF CodesInv
  <2>2. ConfigInv
        BY <2>1 DEF AttendanceInv, CodesInv
  <2>3. /\ \A q \in Signers : Renewing(q)' => Renewing(q)
        /\ \A v \in Savers : Saving(v)' => Saving(v)
        BY <1>1, <1>7 DEF Renewing, Saving
  <2>4. /\ \A q \in Signers : signer'[q].pc = "replace" => signer'[q].config = config
        /\ \A q \in Signers : Renewing(q)' /\ signer'[q].staff # Nobody => signer'[q].code = config.code
        BY <1>1, <1>3, <1>7, <2>2 DEF Renewing, ConfigInv
  <2>5. /\ \A q, p \in Signers : Renewing(q)' /\ Renewing(p)' => q = p
        /\ \A q \in Signers, v \in Savers : ~(Renewing(q)' /\ Saving(v)')
        /\ \A v, w \in Savers : Saving(v)' /\ Saving(w)' => v = w
        /\ \A v \in Savers : Saving(v)' => saver'[v].code = config.code
        BY <1>1, <2>2, <2>3 DEF ConfigInv
  <2>6. QED BY <1>1, <2>2, <2>4, <2>5 DEF ConfigInv
<1>9. QED BY <1>5, <1>6, <1>8 DEF AttendanceInv

LEMMA WriteCodeInv ==
    ASSUME AttendanceInv, NEW r \in Signers, WriteCode(r)
    PROVE  AttendanceInv'
<1> DEFINE m == signer[r].staff
           at == IF m = Nobody THEN "done" ELSE "delete"
           new == [signer[r] EXCEPT !.pc = at]
           spent == signer[r].code
<1>1. /\ signer[r].pc = "replace" /\ codes < MaxCodes /\ codes' = codes + 1
      /\ config' = [signer[r].config EXCEPT !.code = codes + 1]
      /\ signer' = [signer EXCEPT ![r] = new]
      /\ admitted' = IF m = Nobody THEN admitted ELSE [admitted EXCEPT ![spent] = admitted[spent] + 1]
      /\ UNCHANGED <<saver, signedIn, lastSaved, entangled, doubled, through, cutShort>>
      BY DEF WriteCode, NewCode
<1>2. /\ signer[r] \in SignerRows /\ codes \in Nat /\ spent \in Codes /\ m \in Staff \cup {Nobody}
      /\ signer[r].config \in Configs
      BY DEF AttendanceInv, AttendanceTypes, Codes, SignerRows
<1>3. /\ codes' \in Codes /\ codes' > codes
      /\ config' \in Configs /\ config'.code = codes' /\ config'.settings = signer[r].config.settings
      BY <1>1, <1>2, AttendanceAssumption DEF Configs, Codes
<1>4. /\ new \in SignerRows /\ new.pc = at /\ new.staff = m
      BY <1>2 DEF SignerRows, SignerPcs
<1> HIDE DEF new
<1>5. SignerStep(r, new)
      BY <1>1, <1>2, <1>4 DEF SignerStep
<1>6. /\ admitted' \in [Codes -> Nat]
      /\ \A c \in Codes : c # spent => admitted'[c] = admitted[c]
      /\ m = Nobody => admitted'[spent] = admitted[spent]
      /\ m # Nobody => admitted'[spent] = admitted[spent] + 1
      BY <1>1, <1>2 DEF AttendanceInv, AttendanceTypes
<1>7. AttendanceTypes'
      BY <1>1, <1>3, <1>5, <1>6, SignerStepTypes DEF AttendanceInv, AttendanceTypes
<1>8. RowsInv'
      BY <1>1, <1>4, <1>5, NoRowWritten
<1>9. /\ signer'[r] = new
      /\ \A q \in Signers : q # r => signer'[q] = signer[q]
      BY <1>5, SignerStepTypes DEF AttendanceInv
<1>10. CodesInv'
  <2>1. SUFFICES ASSUME ~entangled PROVE ConfigInv'
        BY <1>1 DEF CodesInv
  <2>2. ConfigInv /\ Renewing(r)
        BY <1>1, <2>1 DEF AttendanceInv, CodesInv, Renewing
  <2>3. signer[r].config = config
        BY <1>1, <2>2 DEF ConfigInv
  <2>4. /\ \A q \in Signers : ~Renewing(q)'
        /\ \A q \in Signers : signer'[q].pc # "replace"
        /\ \A v \in Savers : ~Saving(v)'
    <3>1. \A q \in Signers : q # r => ~Renewing(q)
          BY <2>2 DEF ConfigInv
    <3>2. new.pc \notin {"renew", "replace"}
          BY <1>4
    <3>3. \A v \in Savers : ~Saving(v)
          BY <2>2 DEF ConfigInv
    <3>4. QED BY <1>1, <1>9, <3>1, <3>2, <3>3 DEF Renewing, Saving
  <2>5. ASSUME NEW c \in Codes
        PROVE  admitted'[c] <= 1 /\ (admitted'[c] > 0 => c # config'.code /\ c <= codes')
    <3>1. /\ admitted[c] \in Nat /\ admitted[c] <= 1 /\ c \in Nat
          /\ admitted[c] > 0 => c # config.code /\ c <= codes
          BY <2>2 DEF ConfigInv, AttendanceInv, AttendanceTypes, Codes
    <3>2. CASE c = spent /\ m # Nobody
      <4>1. c = config.code /\ config.code <= codes
            BY <2>2, <3>2 DEF ConfigInv
      <4>2. admitted[c] = 0
            BY <3>1, <4>1
      <4>3. admitted'[c] = 1
            BY <1>6, <3>2, <4>2
      <4>4. c # config'.code /\ c <= codes'
        <5>1. c \in Nat /\ codes \in Nat /\ codes' \in Nat /\ codes' > codes /\ c <= codes
              BY <1>2, <1>3, <3>1, <4>1 DEF Codes
        <5>2. config'.code = codes'
              BY <1>3
        <5>3. QED BY <5>1, <5>2
      <4>5. QED BY <4>3, <4>4
    <3>3. CASE ~(c = spent /\ m # Nobody)
      <4>1. admitted'[c] = admitted[c]
            BY <1>6, <3>3
      <4>2. QED BY <1>2, <1>3, <3>1, <4>1, <1>1
    <3>4. QED BY <3>2, <3>3
  <2>6. config'.settings = lastSaved' /\ config'.code <= codes'
        BY <1>1, <1>2, <1>3, <2>2, <2>3 DEF ConfigInv
  <2>7. QED BY <2>4, <2>5, <2>6 DEF ConfigInv
<1>11. QED BY <1>7, <1>8, <1>10 DEF AttendanceInv

\* persistStaffAttendance, and whatever ends a request.
LEMMA PersistInv ==
    ASSUME AttendanceInv, NEW r \in Signers, DeleteRow(r) \/ InsertRow(r) \/ FailSignIn(r)
    PROVE  AttendanceInv'
<1> DEFINE m == signer[r].staff
           at == IF signer[r].pc = "delete" /\ signer'[r].pc = "insert" THEN "insert" ELSE "done"
           new == [signer[r] EXCEPT !.pc = at]
<1>1. signer[r] \in SignerRows /\ signer[r].pc \notin {"new", "done"}
      BY DEF AttendanceInv, AttendanceTypes, DeleteRow, InsertRow, FailSignIn
<1>2. /\ signer' = [signer EXCEPT ![r].pc = at]
      /\ at = "insert" => DeleteRow(r)
      /\ UNCHANGED <<config, codes, saver, admitted, lastSaved, entangled, doubled>>
  <2>1. CASE DeleteRow(r)
        BY <2>1 DEF DeleteRow, AttendanceInv, AttendanceTypes, SignerRows
  <2>2. CASE InsertRow(r)
        BY <2>2 DEF InsertRow
  <2>3. CASE FailSignIn(r)
    <3>1. signer'[r].pc = "done"
          BY <2>3 DEF FailSignIn, AttendanceInv, AttendanceTypes, SignerRows
    <3>2. QED BY <2>3, <3>1 DEF FailSignIn
  <2>4. QED BY <2>1, <2>2, <2>3
<1>3. signer' = [signer EXCEPT ![r] = new] /\ at \in {"insert", "done"}
      BY <1>2
<1> HIDE DEF at
<1>4. /\ new \in SignerRows /\ new.pc = at /\ new.staff = m
      BY <1>1, <1>3 DEF SignerRows, SignerPcs
<1>5. at = "insert" => m \in Staff
      BY <1>2 DEF DeleteRow, AttendanceInv, AttendanceTypes
<1> HIDE DEF new
<1>6. SignerStep(r, new)
      BY <1>3, <1>4, <1>5 DEF SignerStep
<1>7. CodesInv'
      BY <1>2, <1>3, <1>4, <1>6, NoWriter
<1>8. /\ signer'[r] = new
      /\ \A q \in Signers : q # r => signer'[q] = signer[q]
      BY <1>6, SignerStepTypes DEF AttendanceInv
<1>9. /\ DeleteRow(r) \/ InsertRow(r) => m \in Staff
      /\ signedIn' \in [Staff -> Nat]
      /\ \A n \in Staff : n # m => signedIn'[n] = signedIn[n]
  <2>1. CASE DeleteRow(r)
        BY <2>1 DEF DeleteRow, AttendanceInv, AttendanceTypes
  <2>2. CASE InsertRow(r)
        BY <2>2 DEF InsertRow, AttendanceInv, AttendanceTypes
  <2>3. CASE FailSignIn(r)
    <3>1. signedIn' = signedIn /\ (DeleteRow(r) \/ InsertRow(r) => signer[r].pc \in {"delete", "insert"})
          BY <2>3 DEF FailSignIn, DeleteRow, InsertRow
    <3>2. QED BY <3>1 DEF AttendanceInv, AttendanceTypes
  <2>4. QED BY <2>1, <2>2, <2>3
<1>10. AttendanceTypes'
      BY <1>2, <1>6, <1>9, SignerStepTypes DEF AttendanceInv, AttendanceTypes
<1>11. \A n \in Staff, q \in Signers : Attends(q, n)' => Attends(q, n)
      BY <1>1, <1>3, <1>4, <1>8 DEF Attends
<1>12. ASSUME NEW n \in Staff PROVE RowOf(n)'
  <2>1. RowOf(n)
        BY DEF AttendanceInv, RowsInv
  <2>2. n \notin doubled => \A p, q \in Signers : Attends(p, n)' /\ Attends(q, n)' => p = q
        BY <1>11, <2>1 DEF RowOf
  <2>3. CASE n # m
    <3>1. \A q \in Signers : Attends(q, n)' /\ signer'[q].pc = "insert" <=> Attends(q, n) /\ signer[q].pc = "insert"
          BY <1>4, <1>8, <2>3 DEF Attends
    <3>2. n \in through' \ cutShort' => n \in through \ cutShort
          BY <2>3 DEF DeleteRow, InsertRow, FailSignIn
    <3>3. QED BY <1>2, <1>9, <2>1, <2>2, <2>3, <3>1, <3>2 DEF RowOf
  <2>4. CASE n = m /\ DeleteRow(r)
    <3>1. signedIn'[n] = 0
          BY <2>4 DEF DeleteRow, AttendanceInv, AttendanceTypes
    <3>2. Attends(r, n)' /\ signer'[r].pc = "insert"
          BY <1>1, <2>4 DEF DeleteRow, Attends, AttendanceInv, AttendanceTypes, SignerRows
    <3>3. QED BY <1>2, <2>2, <3>1, <3>2 DEF RowOf
  <2>5. CASE n = m /\ InsertRow(r)
    <3>1. /\ Attends(r, n) /\ signer[r].pc = "insert" /\ ~Attends(r, n)'
          /\ signedIn'[n] = signedIn[n] + 1 /\ signedIn[n] \in Nat
          BY <1>1, <2>5 DEF InsertRow, Attends, AttendanceInv, AttendanceTypes, SignerRows
    <3>2. n \notin doubled => signedIn'[n] = 1
          BY <2>1, <3>1 DEF RowOf
    <3>3. n \notin doubled => \A q \in Signers : ~Attends(q, n)'
          BY <1>11, <2>1, <3>1 DEF RowOf
    <3>4. signedIn'[n] >= 1
          BY <3>1
    <3>5. QED BY <1>2, <2>2, <3>2, <3>3, <3>4 DEF RowOf
  <2>6. CASE n = m /\ FailSignIn(r)
    <3>1. /\ signedIn' = signedIn /\ through' = through /\ signer'[r].pc = "done"
          /\ cutShort' = IF signer[r].pc = "insert" THEN cutShort \cup {m} ELSE cutShort
          BY <1>1, <2>6 DEF FailSignIn, AttendanceInv, AttendanceTypes, SignerRows
    <3>2. \A q \in Signers : Attends(q, n)' /\ signer'[q].pc = "insert" => Attends(q, n) /\ signer[q].pc = "insert"
          BY <1>8, <1>11, <3>1
    <3>3. CASE signer[r].pc = "insert"
      <4>1. n \in cutShort'
            BY <2>6, <3>1, <3>3
      <4>2. QED BY <1>2, <2>1, <2>2, <3>1, <3>2, <4>1 DEF RowOf
    <3>4. CASE signer[r].pc # "insert"
      <4>1. \A q \in Signers : Attends(q, n) /\ signer[q].pc = "insert" => Attends(q, n)' /\ signer'[q].pc = "insert"
            BY <1>8, <3>4 DEF Attends
      <4>2. QED BY <1>2, <2>1, <2>2, <3>1, <3>2, <3>4, <4>1 DEF RowOf
    <3>5. QED BY <3>3, <3>4
  <2>7. QED BY <2>3, <2>4, <2>5, <2>6
<1>13. QED BY <1>7, <1>10, <1>12 DEF AttendanceInv, RowsInv

LEMMA SettingsInv ==
    ASSUME AttendanceInv, NEW v \in Savers, ReadSettings(v) \/ SaveSettings(v)
    PROVE  AttendanceInv'
<1>1. /\ UNCHANGED <<codes, signer, signedIn, admitted, doubled, through, cutShort>>
      /\ \A q \in Signers : (Renewing(q)' <=> Renewing(q))
      BY DEF ReadSettings, SaveSettings, Renewing
<1>2. RowsInv'
      BY <1>1 DEF AttendanceInv, RowsInv, RowOf, Attends
<1>3. CASE ReadSettings(v)
  <2> DEFINE new == [pc |-> "write", code |-> config.code]
  <2>1. /\ saver' = [saver EXCEPT ![v] = new] /\ entangled' = (entangled \/ Writers # {})
        /\ UNCHANGED <<config, lastSaved>>
        BY <1>3 DEF ReadSettings
  <2>2. new \in SaverRows
        BY DEF AttendanceInv, AttendanceTypes, SaverRows, Configs
  <2>3. AttendanceTypes'
        BY <1>1, <2>1, <2>2 DEF AttendanceInv, AttendanceTypes
  <2>4. /\ saver'[v] = new
        /\ \A w \in Savers : w # v => saver'[w] = saver[w]
        BY <2>1 DEF AttendanceInv, AttendanceTypes
  <2>5. CodesInv'
    <3>1. SUFFICES ASSUME ~entangled' PROVE ConfigInv'
          BY DEF CodesInv
    <3>2. ConfigInv /\ Writers = {}
          BY <2>1, <3>1 DEF AttendanceInv, CodesInv
    <3>3. /\ \A q \in Signers : ~Renewing(q)
          /\ \A w \in Savers : ~Saving(w)
          BY <3>2 DEF Writers, Renewing, Saving
    <3>4. \A w \in Savers : Saving(w)' => w = v
          BY <2>4, <3>3 DEF Saving
    <3>5. QED BY <1>1, <2>1, <2>4, <3>2, <3>3, <3>4 DEF ConfigInv, Renewing
  <2>6. QED BY <1>2, <2>3, <2>5 DEF AttendanceInv
<1>4. CASE SaveSettings(v)
  <2>1. /\ saver[v].pc = "write" /\ config' = [code |-> saver[v].code, settings |-> v]
        /\ saver' = [saver EXCEPT ![v].pc = "done"] /\ lastSaved' = v
        /\ entangled' = entangled
        BY <1>4 DEF SaveSettings
  <2>2. saver[v] \in SaverRows /\ saver[v].code \in Codes
        BY DEF AttendanceInv, AttendanceTypes, SaverRows
  <2>3. /\ saver' \in [Savers -> SaverRows] /\ saver'[v].pc = "done"
        /\ \A w \in Savers : w # v => saver'[w] = saver[w]
        BY <2>1, <2>2 DEF AttendanceInv, AttendanceTypes, SaverRows
  <2>4. config' \in Configs
        BY <2>1, <2>2 DEF Configs, Settings
  <2>5. AttendanceTypes'
        BY <1>1, <2>3, <2>4 DEF AttendanceInv, AttendanceTypes
  <2>6. CodesInv'
    <3>1. SUFFICES ASSUME ~entangled PROVE ConfigInv'
          BY <2>1 DEF CodesInv
    <3>2. ConfigInv /\ Saving(v)
          BY <2>1, <3>1 DEF AttendanceInv, CodesInv, Saving
    <3>3. config'.code = config.code /\ config'.settings = lastSaved'
          BY <2>1, <3>2 DEF ConfigInv
    <3>4. /\ \A q \in Signers : ~Renewing(q)' /\ signer'[q].pc # "replace"
          /\ \A w \in Savers : ~Saving(w)'
      <4>1. \A q \in Signers : ~Renewing(q)
            BY <3>2 DEF ConfigInv
      <4>2. \A w \in Savers : w # v => ~Saving(w)
            BY <3>2 DEF ConfigInv
      <4>3. QED BY <1>1, <2>3, <4>1, <4>2 DEF Renewing, Saving
    <3>5. QED BY <1>1, <3>2, <3>3, <3>4 DEF ConfigInv
  <2>7. QED BY <1>2, <2>5, <2>6 DEF AttendanceInv
<1>5. QED BY <1>3, <1>4

\* What is proved of every state of the sign-ins.
LEMMA AttendanceAlways == AttendanceSpec => []AttendanceInv
<1>1. AttendanceInit => AttendanceInv
  <2>1. SUFFICES ASSUME AttendanceInit PROVE AttendanceInv
        OBVIOUS
  <2>2. 0 \in Codes /\ NoConfig \in Configs /\ NoConfig.code = 0 /\ NoConfig.settings = Nobody
        BY AttendanceAssumption DEF NoConfig, Configs, Codes, Settings
  <2>3. /\ \A r \in Signers : signer[r].pc = "new" /\ signer[r].staff = Nobody
        /\ \A v \in Savers : saver[v].pc = "new"
        /\ \A c \in Codes : admitted[c] = 0
        BY <2>1 DEF AttendanceInit
  <2>4. AttendanceTypes
    <3>1. signer \in [Signers -> SignerRows] /\ saver \in [Savers -> SaverRows]
          BY <2>1, <2>2 DEF AttendanceInit, SignerRows, SaverRows, SignerPcs
    <3>2. QED BY <2>1, <2>2, <2>3, <3>1 DEF AttendanceInit, AttendanceTypes
  <2>5. ConfigInv
    <3>1. config = NoConfig /\ codes = 0 /\ lastSaved = Nobody
          BY <2>1 DEF AttendanceInit
    <3>2. \A r \in Signers : ~Renewing(r) /\ signer[r].pc # "replace"
          BY <2>3 DEF Renewing
    <3>3. \A v \in Savers : ~Saving(v)
          BY <2>3 DEF Saving
    <3>4. QED BY <2>2, <2>3, <3>1, <3>2, <3>3 DEF ConfigInv
  <2>6. RowsInv
        BY <2>1, <2>3 DEF AttendanceInit, RowsInv, RowOf, Attends
  <2>7. QED BY <2>4, <2>5, <2>6 DEF AttendanceInv, CodesInv
<1>2. AttendanceInv /\ [AttendanceNext]_attendanceVars => AttendanceInv'
  <2>1. SUFFICES ASSUME AttendanceInv, [AttendanceNext]_attendanceVars PROVE AttendanceInv'
        OBVIOUS
  <2>2. CASE UNCHANGED attendanceVars
        BY <2>1, <2>2 DEF attendanceVars, AttendanceInv, AttendanceTypes, CodesInv, ConfigInv,
           RowsInv, RowOf, Renewing, Saving, Attends
  <2>3. CASE \E r \in Signers, m \in Staff : BeginFingerprint(r, m)
    <3>1. 0 \in Codes
          BY AttendanceAssumption DEF Codes
    <3>2. QED BY <2>1, <2>3, <3>1, AdmitInv DEF BeginFingerprint
  <2>4. CASE \E r \in Signers, m \in Staff : \E code \in 1 .. codes : BeginManual(r, m, code)
    <3>1. PICK r \in Signers, m \in Staff : \E code \in 1 .. codes : BeginManual(r, m, code)
          BY <2>4
    <3>2. PICK code \in 1 .. codes : BeginManual(r, m, code)
          BY <3>1
    <3>3. code \in Codes
          BY <2>1, AttendanceAssumption DEF Codes, AttendanceInv, AttendanceTypes
    <3>4. QED BY <2>1, <3>2, <3>3, AdmitInv DEF BeginManual
  <2>5. CASE \E v \in Savers : ReadSettings(v) \/ SaveSettings(v)
        BY <2>1, <2>5, SettingsInv
  <2>6. CASE \E r \in Signers :
                \/ CompareCode(r) \/ AskCode(r) \/ ReadConfig(r) \/ WriteCode(r)
                \/ DeleteRow(r) \/ InsertRow(r) \/ FailSignIn(r)
        BY <2>1, <2>6, RenewInv, ReadConfigInv, WriteCodeInv, PersistInv
  <2>7. QED BY <2>1, <2>2, <2>3, <2>4, <2>5, <2>6 DEF AttendanceNext
<1>3. QED BY <1>1, <1>2, PTL DEF AttendanceSpec

\* Until two writers of attendance_config overlap, a code of attendance.service.ts
\* lets in one sign-in and no saved settings are lost; and a person whose sign-ins
\* neither overlap nor are cut short has one row, for any number of requests.
THEOREM SignInsAreCounted == AttendanceSpec => []SignInsCounted
<1>1. AttendanceInv => SignInsCounted
  <2>1. SUFFICES ASSUME AttendanceInv PROVE SignInsCounted
        OBVIOUS
  <2>2. ~entangled => config.settings = lastSaved /\ \A c \in Codes : admitted[c] <= 1
        BY <2>1 DEF AttendanceInv, CodesInv, ConfigInv
  <2>3. \A m \in Staff, r \in Signers : Attends(r, m) <=> r \in SigningIn(m)
        BY DEF Attends, SigningIn
  <2>4. QED BY <2>1, <2>2, <2>3 DEF AttendanceInv, RowsInv, RowOf, SignInsCounted
<1>2. QED BY <1>1, AttendanceAlways, PTL

\* A request inserts one row, and is let in with a code once.
SignedOff == {r \in Signers : signer[r].pc = "done"}
LetIn == {r \in Signers : signer[r].pc \in {"delete", "insert", "done"}}
AttendanceCounts ==
    /\ \A m \in Staff : signedIn[m] <= Cardinality(SignedOff)
    /\ \A c \in Codes : admitted[c] <= Cardinality(LetIn)

LEMMA AttendanceCountsStep ==
    ASSUME AttendanceInv, AttendanceInv', AttendanceCounts, [AttendanceNext]_attendanceVars
    PROVE  AttendanceCounts'
<1> DEFINE Grows(A, B, n, k) == A \subseteq B /\ (k <= n \/ (k = n + 1 /\ A # B))
<1>1. /\ AttendanceTypes /\ AttendanceTypes'
      /\ SignedOff \in SUBSET Signers /\ SignedOff' \in SUBSET Signers
      /\ LetIn \in SUBSET Signers /\ LetIn' \in SUBSET Signers
      BY DEF AttendanceInv, SignedOff, LetIn
<1>2. CASE UNCHANGED attendanceVars
      BY <1>2 DEF attendanceVars, AttendanceCounts, SignedOff, LetIn
<1>3. ASSUME /\ \A m \in Staff : Grows(SignedOff, SignedOff', signedIn[m], signedIn'[m])
             /\ \A c \in Codes : Grows(LetIn, LetIn', admitted[c], admitted'[c])
      PROVE  AttendanceCounts'
  <2>1. ASSUME NEW m \in Staff PROVE signedIn'[m] <= Cardinality(SignedOff')
    <3>1. signedIn[m] \in Nat /\ signedIn'[m] \in Nat /\ signedIn[m] <= Cardinality(SignedOff)
          BY <1>1 DEF AttendanceTypes, AttendanceCounts
    <3>2. QED BY <1>1, <1>3, <3>1, CountsWhoIsThrough, AttendanceAssumption
  <2>2. ASSUME NEW c \in Codes PROVE admitted'[c] <= Cardinality(LetIn')
    <3>1. admitted[c] \in Nat /\ admitted'[c] \in Nat /\ admitted[c] <= Cardinality(LetIn)
          BY <1>1 DEF AttendanceTypes, AttendanceCounts
    <3>2. QED BY <1>1, <1>3, <3>1, CountsWhoIsThrough, AttendanceAssumption
  <2>3. QED BY <2>1, <2>2 DEF AttendanceCounts
<1>4. ASSUME SignedOff \subseteq SignedOff', LetIn \subseteq LetIn', UNCHANGED <<signedIn, admitted>>
      PROVE  AttendanceCounts'
      BY <1>1, <1>3, <1>4 DEF AttendanceTypes
<1>5. ASSUME NEW r \in Signers,
             CompareCode(r) \/ AskCode(r) \/ ReadConfig(r) \/ FailSignIn(r)
             \/ \E m \in Staff : BeginFingerprint(r, m) \/ \E code \in 1..codes : BeginManual(r, m, code)
      PROVE  AttendanceCounts'
  <2>1. signer[r].pc \in {"new", "code", "renew"} \/ signer'[r].pc = "done"
        BY <1>1, <1>5 DEF AttendanceTypes, SignerRows, CompareCode, AskCode, ReadConfig, FailSignIn,
           BeginFingerprint, BeginManual, Admit
  <2>2. \A q \in Signers : q # r => signer'[q] = signer[q]
        BY <1>1, <1>5 DEF AttendanceTypes, CompareCode, AskCode, ReadConfig, FailSignIn,
           BeginFingerprint, BeginManual, Admit
  <2>3. SignedOff \subseteq SignedOff' /\ LetIn \subseteq LetIn'
        BY <2>1, <2>2 DEF SignedOff, LetIn
  <2>4. QED BY <1>4, <1>5, <2>3 DEF CompareCode, AskCode, ReadConfig, FailSignIn, BeginFingerprint,
           BeginManual, Admit
<1>6. ASSUME NEW r \in Signers, WriteCode(r) PROVE AttendanceCounts'
  <2>1. SignedOff \subseteq SignedOff' /\ LetIn' = LetIn \cup {r} /\ r \notin LetIn
        BY <1>1, <1>6 DEF AttendanceTypes, SignerRows, WriteCode, SignedOff, LetIn
  <2>2. \A c \in Codes : admitted'[c] = admitted[c] \/ admitted'[c] = admitted[c] + 1
        BY <1>1, <1>6 DEF AttendanceTypes, WriteCode
  <2>3. UNCHANGED signedIn
        BY <1>6 DEF WriteCode
  <2>4. QED BY <1>1, <1>3, <2>1, <2>2, <2>3 DEF AttendanceTypes
<1>7. ASSUME NEW r \in Signers, DeleteRow(r) PROVE AttendanceCounts'
  <2>1. SignedOff \subseteq SignedOff' /\ LetIn \subseteq LetIn'
        BY <1>1, <1>7 DEF AttendanceTypes, DeleteRow, SignedOff, LetIn
  <2>2. \A m \in Staff : signedIn'[m] <= signedIn[m]
        BY <1>1, <1>7 DEF AttendanceTypes, DeleteRow
  <2>3. UNCHANGED admitted
        BY <1>7 DEF DeleteRow
  <2>4. QED BY <1>1, <1>3, <2>1, <2>2, <2>3 DEF AttendanceTypes
<1>8. ASSUME NEW r \in Signers, InsertRow(r) PROVE AttendanceCounts'
  <2>1. SignedOff' = SignedOff \cup {r} /\ r \notin SignedOff /\ LetIn \subseteq LetIn'
        BY <1>1, <1>8 DEF AttendanceTypes, SignerRows, InsertRow, SignedOff, LetIn
  <2>2. \A m \in Staff : signedIn'[m] = signedIn[m] \/ signedIn'[m] = signedIn[m] + 1
        BY <1>1, <1>8 DEF AttendanceTypes, InsertRow
  <2>3. UNCHANGED admitted
        BY <1>8 DEF InsertRow
  <2>4. QED BY <1>1, <1>3, <2>1, <2>2, <2>3 DEF AttendanceTypes
<1>9. ASSUME NEW v \in Savers, ReadSettings(v) \/ SaveSettings(v) PROVE AttendanceCounts'
      BY <1>4, <1>9 DEF ReadSettings, SaveSettings, SignedOff, LetIn
<1>10. QED BY <1>2, <1>5, <1>6, <1>7, <1>8, <1>9 DEF AttendanceNext

\* Nobody has more rows, and no code let in more, than there were requests.
LEMMA AttendanceTypesHold == AttendanceSpec => []AttendanceTypeOK
<1> DEFINE Ghosts == /\ lastSaved \in Settings /\ entangled \in BOOLEAN
                     /\ doubled \cup through \cup cutShort \subseteq Staff
<1>1. AttendanceInit => AttendanceCounts /\ Ghosts
  <2>1. SUFFICES ASSUME AttendanceInit PROVE AttendanceCounts /\ Ghosts
        OBVIOUS
  <2>2. Cardinality(SignedOff) \in Nat /\ Cardinality(LetIn) \in Nat
        BY NoMoreThanAll, AttendanceAssumption DEF SignedOff, LetIn
  <2>3. AttendanceCounts
        BY <2>1, <2>2 DEF AttendanceInit, AttendanceCounts
  <2>4. QED BY <2>1, <2>3 DEF AttendanceInit, Settings
<1>2. AttendanceInv /\ Ghosts /\ [AttendanceNext]_attendanceVars => Ghosts'
  <2>1. SUFFICES ASSUME AttendanceTypes, Ghosts, [AttendanceNext]_attendanceVars PROVE Ghosts'
        BY DEF AttendanceInv
  <2>2. CASE UNCHANGED attendanceVars
        BY <2>1, <2>2 DEF attendanceVars
  <2>3. ASSUME NEW r \in Signers, CompareCode(r) \/ AskCode(r) \/ ReadConfig(r) \/ WriteCode(r)
                                  \/ DeleteRow(r) \/ InsertRow(r) \/ FailSignIn(r)
        PROVE  Ghosts'
    <3>1. CASE CompareCode(r) \/ AskCode(r)
          BY <2>1, <3>1 DEF CompareCode, AskCode
    <3>2. CASE ReadConfig(r) \/ WriteCode(r) \/ DeleteRow(r)
          BY <2>1, <3>2 DEF ReadConfig, WriteCode, DeleteRow
    <3>3. CASE InsertRow(r) \/ FailSignIn(r)
      <4>1. signer[r].pc = "insert" => signer[r].staff \in Staff
            BY <2>1 DEF AttendanceTypes
      <4>2. QED BY <2>1, <3>3, <4>1 DEF InsertRow, FailSignIn
    <3>4. QED BY <2>3, <3>1, <3>2, <3>3
  <2>4. ASSUME NEW r \in Signers, NEW m \in Staff,
               BeginFingerprint(r, m) \/ \E code \in 1..codes : BeginManual(r, m, code)
        PROVE  Ghosts'
        BY <2>1, <2>4 DEF BeginFingerprint, BeginManual, Admit
  <2>5. ASSUME NEW v \in Savers, ReadSettings(v) \/ SaveSettings(v) PROVE Ghosts'
        BY <2>1, <2>5 DEF ReadSettings, SaveSettings, Settings
  <2>6. QED BY <2>1, <2>2, <2>3, <2>4, <2>5 DEF AttendanceNext
<1>3. AttendanceInv /\ AttendanceCounts /\ Ghosts => AttendanceTypeOK
  <2>1. SUFFICES ASSUME AttendanceTypes, AttendanceCounts, Ghosts PROVE AttendanceTypeOK
        BY DEF AttendanceInv
  <2>2. /\ Cardinality(SignedOff) \in Nat /\ Cardinality(LetIn) \in Nat
        /\ Cardinality(Signers) \in Nat
        /\ Cardinality(SignedOff) <= Cardinality(Signers) /\ Cardinality(LetIn) <= Cardinality(Signers)
        BY NoMoreThanAll, AttendanceAssumption DEF SignedOff, LetIn
  <2>3. \A m \in Staff : signedIn[m] \in 0..Cardinality(Signers)
        BY <2>1, <2>2 DEF AttendanceTypes, AttendanceCounts
  <2>4. \A c \in Codes : admitted[c] \in 0..Cardinality(Signers)
        BY <2>1, <2>2 DEF AttendanceTypes, AttendanceCounts
  <2>5. /\ signedIn \in [Staff -> 0..Cardinality(Signers)]
        /\ admitted \in [Codes -> 0..Cardinality(Signers)]
        BY <2>1, <2>3, <2>4 DEF AttendanceTypes
  <2>6. QED BY <2>1, <2>5 DEF AttendanceTypes, SignerRows, SaverRows, AttendanceTypeOK
<1>4. AttendanceInv /\ AttendanceInv' /\ AttendanceCounts /\ [AttendanceNext]_attendanceVars
         => AttendanceCounts'
      BY AttendanceCountsStep
<1>5. QED BY <1>1, <1>2, <1>3, <1>4, AttendanceAlways, PTL DEF AttendanceSpec

-----------------------------------------------------------------------------
(* The accounts of a family: FamilyAccounts.                               *)

ArchiverPcs == {"new", "children", "parent", "parentLogin", "own", "done"}

AccountTypes ==
    /\ active \in [People -> BOOLEAN] /\ login \in [People -> BOOLEAN]
    /\ archiver \in [Archivers -> [pc : ArchiverPcs, who : People]]
    /\ \A c \in Archivers : archiver[c].pc = "new" => archiver[c].who # Guardian

\* What an archive that is under way is going to close.
WillClose(c, p) ==
    \/ archiver[c].who = p /\ archiver[c].pc \in {"children", "parent", "parentLogin", "own"}
    \/ p = Guardian /\ archiver[c].pc = "parentLogin"

ActiveKids == {k \in Kids : active[k]}
NoneArchivesGuardian == \A c \in Archivers : archiver[c].who # Guardian

AccountInv ==
    /\ AccountTypes
    /\ \A p \in People : login[p] /\ ~active[p] => \E c \in Archivers : WillClose(c, p)
    /\ ActiveKids = {} /\ revived = {} /\ active[Guardian] =>
          \E c \in Archivers : archiver[c].pc \in {"children", "parent"}
    /\ \A c \in Archivers : archiver[c].pc = "parent" => ActiveKids \subseteq revived
    /\ NoneArchivesGuardian /\ ~active[Guardian] => ActiveKids \subseteq revived

ClerkPcs == {"new", "insert", "password", "use", "done"}
CodeTypes ==
    /\ activations \in [Issuers -> SUBSET {"issued", "recovered", "used"}]
    /\ DOMAIN clerk = Clerks
    /\ \A c \in Clerks : clerk[c] = [pc |-> clerk[c].pc, code |-> clerk[c].code]
    /\ \A c \in Issuers : clerk[c].pc \in {"new", "insert", "done"}
    /\ \A a \in Activators : clerk[a].pc \in {"new", "password", "use", "done"}
    /\ \A a \in Activators : clerk[a].pc \in {"password", "use"} =>
          clerk[a].code \in Issuers /\ activations[clerk[a].code] # {}
    /\ \A i \in Issuers : clerk[i].pc \in {"new", "insert"} => activations[i] = {}
    /\ \A i \in Issuers : passwords[i] > 0 => activations[i] # {}
    /\ passwords \in [Issuers -> Nat]

\* A code that no requests fight over has one request at work with it, it is
\* open until that request is through, and its password is set once.
Uses(a, i) == clerk[a].code = i /\ clerk[a].pc \in {"password", "use"}
CodeOf(i) ==
    /\ \A a, b \in Activators : Uses(a, i) /\ Uses(b, i) => a = b
    /\ \A a \in Activators : Uses(a, i) => OpenCode(i)
    /\ passwords[i] <= 1
    /\ passwords[i] > 0 /\ OpenCode(i) => \E a \in Activators : Uses(a, i) /\ clerk[a].pc = "use"
    /\ ~ {"recovered", "used"} \subseteq activations[i]

\* One of them is open, and none while one is about to be inserted.
OpenInv ==
    /\ \A i, j \in Issuers \ tangled : OpenCode(i) /\ OpenCode(j) => i = j
    /\ \A i, j \in Issuers \ tangled : clerk[i].pc = "insert" => ~OpenCode(j)
    /\ \A i, j \in Issuers \ tangled : clerk[i].pc = "insert" /\ clerk[j].pc = "insert" => i = j

CodeInv == CodeTypes /\ OpenInv /\ \A i \in Issuers \ tangled : CodeOf(i)

FamilyInv == AccountInv /\ CodeInv

-----------------------------------------------------------------------------
LEMMA GuardianIsNoKid == Guardian \notin Kids /\ Guardian \in People /\ Kids \subseteq People
BY FamilyAssumption DEF People

\* What one statement of an archive does to the archives.
LEMMA ArchiverStep ==
    ASSUME AccountTypes, NEW c \in Archivers, NEW new \in [pc : ArchiverPcs, who : People],
           archiver' = [archiver EXCEPT ![c] = new], new.pc # "new"
    PROVE  /\ archiver' \in [Archivers -> [pc : ArchiverPcs, who : People]]
           /\ archiver'[c] = new
           /\ \A d \in Archivers : d # c => archiver'[d] = archiver[d]
           /\ \A d \in Archivers : archiver'[d].pc = "new" => archiver'[d].who # Guardian
BY DEF AccountTypes

LEMMA ArchiveUserInv ==
    ASSUME AccountInv, NEW c \in Archivers, NEW p \in People, ArchiveUser(c, p)
    PROVE  AccountInv'
<1> DEFINE at == IF p \in Kids THEN "children" ELSE "own"
           new == [pc |-> at, who |-> p]
<1>1. /\ archiver[c].pc = "new" /\ archiver' = [archiver EXCEPT ![c] = new]
      /\ active' = [active EXCEPT ![p] = FALSE] /\ login' = login /\ revived' = revived
      BY DEF ArchiveUser, AtArchive
<1>2. /\ new \in [pc : ArchiverPcs, who : People] /\ new.pc = at /\ new.who = p
      /\ at \in {"children", "own"} /\ (p \in Kids => at = "children")
      BY DEF ArchiverPcs
<1> HIDE DEF at, new
<1>3. /\ archiver' \in [Archivers -> [pc : ArchiverPcs, who : People]]
      /\ archiver'[c] = new
      /\ \A d \in Archivers : d # c => archiver'[d] = archiver[d]
      /\ \A d \in Archivers : archiver'[d].pc = "new" => archiver'[d].who # Guardian
      BY <1>1, <1>2, ArchiverStep DEF AccountInv
<1>4. /\ active' \in [People -> BOOLEAN] /\ ~active'[p]
      /\ \A q \in People : q # p => active'[q] = active[q]
      BY <1>1 DEF AccountInv, AccountTypes
<1>5. AccountTypes'
      BY <1>1, <1>3, <1>4 DEF AccountInv, AccountTypes
<1>6. ActiveKids' \subseteq ActiveKids
      BY <1>4, GuardianIsNoKid DEF ActiveKids
<1>7. ASSUME NEW q \in People, login'[q], ~active'[q]
      PROVE  \E d \in Archivers : WillClose(d, q)'
  <2>1. CASE q = p
        BY <1>2, <1>3, <2>1 DEF WillClose
  <2>2. CASE q # p
    <3>1. PICK d \in Archivers : WillClose(d, q)
          BY <1>1, <1>4, <1>7, <2>2 DEF AccountInv
    <3>2. d # c
          BY <1>1, <3>1 DEF WillClose
    <3>3. QED BY <1>3, <3>1, <3>2 DEF WillClose
  <2>3. QED BY <2>1, <2>2
<1>8. ASSUME ActiveKids' = {}, revived = {}, active'[Guardian]
      PROVE  \E d \in Archivers : archiver'[d].pc \in {"children", "parent"}
  <2>1. CASE p \in Kids
        BY <1>2, <1>3, <2>1
  <2>2. CASE p \notin Kids
    <3>1. p = Guardian
          BY <2>2 DEF People
    <3>2. QED BY <1>4, <1>8, <3>1
  <2>3. QED BY <2>1, <2>2
<1>9. ASSUME NEW d \in Archivers, archiver'[d].pc = "parent" PROVE ActiveKids' \subseteq revived
  <2>1. archiver[d].pc = "parent"
        BY <1>2, <1>3, <1>9
  <2>2. QED BY <1>6, <2>1 DEF AccountInv
<1>10. ASSUME NoneArchivesGuardian', ~active'[Guardian] PROVE ActiveKids' \subseteq revived
  <2>1. p # Guardian
        BY <1>2, <1>3, <1>10 DEF NoneArchivesGuardian
  <2>2. NoneArchivesGuardian
        BY <1>1, <1>3, <1>10 DEF NoneArchivesGuardian, AccountInv, AccountTypes
  <2>3. ~active[Guardian]
        BY <1>4, <1>10, <2>1, GuardianIsNoKid
  <2>4. QED BY <1>6, <2>2, <2>3 DEF AccountInv
<1>11. QED BY <1>1, <1>5, <1>7, <1>8, <1>9, <1>10 DEF AccountInv

LEMMA LookForChildrenInv ==
    ASSUME AccountInv, NEW c \in Archivers, LookForChildren(c)
    PROVE  AccountInv'
<1> DEFINE at == IF HasChildren THEN "own" ELSE "parent"
           new == [archiver[c] EXCEPT !.pc = at]
<1>1. /\ archiver[c].pc = "children" /\ archiver' = [archiver EXCEPT ![c] = new]
      /\ UNCHANGED <<active, login, revived>>
      BY DEF LookForChildren, AtArchive, NextArchive
<1>2. archiver[c] \in [pc : ArchiverPcs, who : People]
      BY DEF AccountInv, AccountTypes
<1>3. /\ new \in [pc : ArchiverPcs, who : People] /\ new.pc = at /\ new.who = archiver[c].who
      /\ at \in {"own", "parent"} /\ (at = "parent" <=> ActiveKids = {})
      BY <1>2 DEF ArchiverPcs, HasChildren, ActiveKids
<1> HIDE DEF at, new
<1>4. /\ archiver' \in [Archivers -> [pc : ArchiverPcs, who : People]]
      /\ archiver'[c] = new
      /\ \A d \in Archivers : d # c => archiver'[d] = archiver[d]
      /\ \A d \in Archivers : archiver'[d].pc = "new" => archiver'[d].who # Guardian
      BY <1>1, <1>3, ArchiverStep DEF AccountInv
<1>5. AccountTypes' /\ ActiveKids' = ActiveKids
      BY <1>1, <1>4 DEF AccountInv, AccountTypes, ActiveKids
<1>6. \A q \in People, d \in Archivers : WillClose(d, q) => WillClose(d, q)'
      BY <1>1, <1>3, <1>4 DEF WillClose
<1>7. ActiveKids = {} => \E d \in Archivers : archiver'[d].pc \in {"children", "parent"}
      BY <1>3, <1>4
<1>8. \A d \in Archivers : archiver'[d].pc = "parent" => ActiveKids \subseteq revived
      BY <1>3, <1>4 DEF AccountInv
<1>9. NoneArchivesGuardian' => NoneArchivesGuardian
      BY <1>3, <1>4 DEF NoneArchivesGuardian
<1>10. QED BY <1>1, <1>5, <1>6, <1>7, <1>8, <1>9 DEF AccountInv

\* The parent's account, and the two ways in.
LEMMA CloseInv ==
    ASSUME AccountInv, NEW c \in Archivers,
           ArchiveParent(c) \/ CloseParentLogin(c) \/ CloseLogin(c)
    PROVE  AccountInv'
<1> DEFINE at == CASE archiver[c].pc = "parent" -> "parentLogin"
                   [] archiver[c].pc = "parentLogin" -> "own"
                   [] OTHER -> "done"
           new == [archiver[c] EXCEPT !.pc = at]
           shut == IF archiver[c].pc = "own" THEN archiver[c].who ELSE Guardian
<1>1. /\ archiver[c].pc \in {"parent", "parentLogin", "own"} /\ revived' = revived
      /\ archiver' = [archiver EXCEPT ![c] = new]
      /\ IF archiver[c].pc = "parent"
         THEN active' = [active EXCEPT ![Guardian] = FALSE] /\ login' = login
         ELSE active' = active /\ login' = [login EXCEPT ![shut] = FALSE]
      BY DEF ArchiveParent, CloseParentLogin, CloseLogin, AtArchive, NextArchive
<1>2. archiver[c] \in [pc : ArchiverPcs, who : People] /\ shut \in People
      BY GuardianIsNoKid DEF AccountInv, AccountTypes
<1>3. /\ new \in [pc : ArchiverPcs, who : People] /\ new.pc = at /\ new.who = archiver[c].who
      /\ at \in {"parentLogin", "own", "done"}
      /\ (archiver[c].pc = "parent" => at = "parentLogin")
      /\ (archiver[c].pc = "parentLogin" => at = "own" /\ shut = Guardian)
      /\ (archiver[c].pc = "own" => at = "done" /\ shut = archiver[c].who)
      BY <1>1, <1>2 DEF ArchiverPcs
<1> HIDE DEF at, new, shut
<1>4. /\ archiver' \in [Archivers -> [pc : ArchiverPcs, who : People]]
      /\ archiver'[c] = new
      /\ \A d \in Archivers : d # c => archiver'[d] = archiver[d]
      /\ \A d \in Archivers : archiver'[d].pc = "new" => archiver'[d].who # Guardian
      BY <1>1, <1>3, ArchiverStep DEF AccountInv
<1>5. /\ active' \in [People -> BOOLEAN] /\ login' \in [People -> BOOLEAN]
      /\ \A q \in People : q # Guardian => active'[q] = active[q]
      /\ active'[Guardian] => active[Guardian] /\ archiver[c].pc # "parent"
      /\ \A q \in People : login'[q] => login[q] /\ (archiver[c].pc # "parent" => q # shut)
      /\ archiver[c].pc # "parent" => active' = active
      BY <1>1, <1>2, GuardianIsNoKid DEF AccountInv, AccountTypes
<1>6. AccountTypes' /\ ActiveKids' = ActiveKids
      BY <1>4, <1>5, GuardianIsNoKid DEF AccountTypes, ActiveKids
<1>7. ASSUME NEW q \in People, login'[q], ~active'[q]
      PROVE  \E d \in Archivers : WillClose(d, q)'
  <2>1. CASE q = Guardian /\ archiver[c].pc = "parent"
        BY <1>3, <1>4, <2>1 DEF WillClose
  <2>2. CASE ~(q = Guardian /\ archiver[c].pc = "parent")
    <3>1. login[q] /\ ~active[q]
          BY <1>5, <1>7, <2>2
    <3>2. PICK d \in Archivers : WillClose(d, q)
          BY <3>1 DEF AccountInv
    <3>3. CASE d # c
          BY <1>4, <3>2, <3>3 DEF WillClose
    <3>4. CASE d = c
      <4>1. WillClose(c, q)'
            BY <1>1, <1>3, <1>4, <1>5, <1>7, <3>2, <3>4 DEF WillClose
      <4>2. QED BY <4>1
    <3>5. QED BY <3>3, <3>4
  <2>3. QED BY <2>1, <2>2
<1>8. ASSUME ActiveKids = {}, revived = {}, active'[Guardian]
      PROVE  \E d \in Archivers : archiver'[d].pc \in {"children", "parent"}
  <2>1. active[Guardian] /\ archiver[c].pc # "parent"
        BY <1>5, <1>8
  <2>2. PICK d \in Archivers : archiver[d].pc \in {"children", "parent"}
        BY <1>8, <2>1 DEF AccountInv
  <2>3. QED BY <1>1, <1>4, <2>1, <2>2
<1>9. \A d \in Archivers : archiver'[d].pc = "parent" => ActiveKids \subseteq revived
      BY <1>3, <1>4 DEF AccountInv
<1>10. NoneArchivesGuardian' /\ ~active'[Guardian] => ActiveKids \subseteq revived
  <2>1. NoneArchivesGuardian' => NoneArchivesGuardian
        BY <1>3, <1>4 DEF NoneArchivesGuardian
  <2>2. CASE archiver[c].pc = "parent"
        BY <2>2 DEF AccountInv
  <2>3. CASE archiver[c].pc # "parent"
        BY <1>5, <2>1, <2>3 DEF AccountInv
  <2>4. QED BY <2>2, <2>3
<1>11. QED BY <1>1, <1>6, <1>7, <1>8, <1>9, <1>10 DEF AccountInv

\* Somebody's account is made active again.
LEMMA RevivedInv ==
    ASSUME AccountInv, NEW p \in People, active' = [active EXCEPT ![p] = TRUE],
           revived' = revived \cup {p}, UNCHANGED <<login, archiver>>
    PROVE  AccountInv'
<1>1. /\ active' \in [People -> BOOLEAN] /\ active'[p]
      /\ \A q \in People : q # p => active'[q] = active[q]
      BY DEF AccountInv, AccountTypes
<1>2. AccountTypes'
      BY <1>1 DEF AccountInv, AccountTypes
<1>3. ActiveKids' \subseteq ActiveKids \cup {p}
      BY <1>1, GuardianIsNoKid DEF ActiveKids
<1>4. \A q \in People : login'[q] /\ ~active'[q] => \E c \in Archivers : WillClose(c, q)'
      BY <1>1 DEF AccountInv, WillClose
<1>5. revived' # {}
      OBVIOUS
<1>6. NoneArchivesGuardian' /\ ~active'[Guardian] => NoneArchivesGuardian /\ ~active[Guardian]
      BY <1>1, GuardianIsNoKid DEF NoneArchivesGuardian
<1>7. QED BY <1>2, <1>3, <1>4, <1>5, <1>6 DEF AccountInv

-----------------------------------------------------------------------------
\* What one statement of a clerk does to the clerks.
ClerkStep(c, pc, code) == clerk' = [clerk EXCEPT ![c] = [pc |-> pc, code |-> code]]

LEMMA ClerkStepFacts ==
    ASSUME CodeTypes, NEW c \in Clerks, NEW pc, NEW code, ClerkStep(c, pc, code)
    PROVE  /\ DOMAIN clerk' = Clerks
           /\ clerk'[c].pc = pc /\ clerk'[c].code = code
           /\ \A d \in Clerks : d # c => clerk'[d] = clerk[d]
           /\ \A d \in Clerks : clerk'[d] = [pc |-> clerk'[d].pc, code |-> clerk'[d].code]
<1>1. /\ DOMAIN clerk' = Clerks /\ clerk'[c] = [pc |-> pc, code |-> code]
      /\ \A d \in Clerks : d # c => clerk'[d] = clerk[d]
      BY DEF CodeTypes, ClerkStep
<1>2. QED BY <1>1 DEF CodeTypes

LEMMA ClerksDiffer == \A c \in Issuers, a \in Activators : c # a /\ c \in Clerks /\ a \in Clerks
BY FamilyAssumption DEF Clerks

LEMMA ClerkGoesOn ==
    ASSUME CodeTypes, NEW c \in Clerks, NEW pc, clerk' = [clerk EXCEPT ![c].pc = pc]
    PROVE  ClerkStep(c, pc, clerk[c].code)
<1>1. clerk[c] = [pc |-> clerk[c].pc, code |-> clerk[c].code]
      BY DEF CodeTypes
<1>2. [clerk[c] EXCEPT !.pc = pc] = [pc |-> pc, code |-> clerk[c].code]
      BY <1>1
<1>3. clerk' = [clerk EXCEPT ![c] = [clerk[c] EXCEPT !.pc = pc]]
      OBVIOUS
<1>4. QED BY <1>2, <1>3 DEF ClerkStep

LEMMA RecoverInv ==
    ASSUME CodeInv, NEW c \in Issuers, RecoverCodes(c)
    PROVE  CodeInv'
<1>1. /\ clerk[c].pc = "new" /\ passwords' = passwords
      /\ clerk' = [clerk EXCEPT ![c].pc = "insert"]
      /\ activations' = [i \in Issuers |-> Recovered(i)]
      /\ tangled' = tangled \cup {i \in Issuers : OpenCode(i) /\ With(i) # {}}
                      \cup UNION {{c, i} : i \in {j \in Issuers : clerk[j].pc = "insert"}}
      BY DEF RecoverCodes
<1>2. ClerkStep(c, "insert", clerk[c].code) /\ c \in Clerks
      BY <1>1, ClerkGoesOn DEF CodeInv, Clerks
<1>3. /\ DOMAIN clerk' = Clerks
      /\ clerk'[c].pc = "insert" /\ clerk'[c].code = clerk[c].code
      /\ \A d \in Clerks : d # c => clerk'[d] = clerk[d]
      /\ \A d \in Clerks : clerk'[d] = [pc |-> clerk'[d].pc, code |-> clerk'[d].code]
      BY <1>2, ClerkStepFacts DEF CodeInv
<1>4. /\ activations' \in [Issuers -> SUBSET {"issued", "recovered", "used"}]
      /\ \A i \in Issuers : /\ ~OpenCode(i)' /\ activations[i] \subseteq activations'[i]
                            /\ activations'[i] = activations[i] \/ OpenCode(i)
                            /\ OpenCode(i) => activations'[i] = {"issued", "recovered"}
  <2>1. ASSUME NEW i \in Issuers
        PROVE  /\ activations'[i] \in SUBSET {"issued", "recovered", "used"}
               /\ activations'[i] # {"issued"} /\ activations[i] \subseteq activations'[i]
               /\ activations'[i] = activations[i] \/ OpenCode(i)
               /\ OpenCode(i) => activations'[i] = {"issued", "recovered"}
    <3>1. activations'[i] = Recovered(i) /\ activations[i] \in SUBSET {"issued", "recovered", "used"}
          BY <1>1 DEF CodeInv, CodeTypes
    <3>2. CASE OpenCode(i)
      <4>1. activations'[i] = {"issued", "recovered"} /\ activations[i] = {"issued"}
            BY <3>1, <3>2 DEF Recovered, OpenCode
      <4>2. "recovered" # "issued"
            OBVIOUS
      <4>3. QED BY <3>2, <4>1, <4>2
    <3>3. CASE ~OpenCode(i)
          BY <3>1, <3>3 DEF Recovered, OpenCode
    <3>4. QED BY <3>2, <3>3
  <2>2. activations' \in [Issuers -> SUBSET {"issued", "recovered", "used"}]
        BY <1>1, <2>1
  <2>3. QED BY <2>1, <2>2 DEF OpenCode
<1>5. /\ \A i \in Issuers : clerk'[i].pc = "insert" => i = c \/ clerk[i].pc = "insert"
      /\ \A a \in Activators : clerk'[a] = clerk[a]
      BY <1>3, ClerksDiffer DEF Clerks
<1>6. CodeTypes'
  <2>0. \A i \in Issuers : activations[i] # {} => activations'[i] # {}
        BY <1>4
  <2>1. /\ \A i \in Issuers : clerk'[i].pc \in {"new", "insert", "done"}
        /\ \A a \in Activators : clerk'[a].pc \in {"new", "password", "use", "done"}
        /\ \A a \in Activators : clerk'[a].pc \in {"password", "use"} =>
              clerk'[a].code \in Issuers /\ activations'[clerk'[a].code] # {}
        /\ \A i \in Issuers : passwords'[i] > 0 => activations'[i] # {}
        BY <1>1, <1>3, <1>5, <2>0 DEF CodeInv, CodeTypes, Clerks
  <2>2. ASSUME NEW i \in Issuers, clerk'[i].pc \in {"new", "insert"} PROVE activations'[i] = {}
    <3>1. activations[i] = {}
          BY <1>1, <1>3, <2>2 DEF CodeInv, CodeTypes, Clerks
    <3>2. ~OpenCode(i)
          BY <3>1 DEF OpenCode
    <3>3. QED BY <1>4, <3>1, <3>2
  <2>3. QED BY <1>1, <1>3, <1>4, <2>1, <2>2 DEF CodeInv, CodeTypes
<1>7. OpenInv'
  <2>1. ASSUME NEW i \in Issuers \ tangled', NEW j \in Issuers \ tangled',
               clerk'[i].pc = "insert", clerk'[j].pc = "insert"
        PROVE  i = j
    <3>1. \A k \in Issuers : clerk[k].pc = "insert" => k \in tangled' /\ c \in tangled'
          BY <1>1
    <3>2. QED BY <1>5, <2>1, <3>1
  <2>2. QED BY <1>4, <2>1 DEF OpenInv
<1>8. ASSUME NEW i \in Issuers \ tangled' PROVE CodeOf(i)'
  <2>1. i \in Issuers \ tangled /\ ~(OpenCode(i) /\ With(i) # {}) /\ CodeOf(i)
        BY <1>1, <1>8 DEF CodeInv
  <2>2. \A a \in Activators : Uses(a, i)' => Uses(a, i)
        BY <1>5 DEF Uses
  <2>3. \A a \in Activators : ~Uses(a, i)
        BY <2>1 DEF CodeOf, Uses, With
  <2>4. ~ {"recovered", "used"} \subseteq activations'[i]
        BY <1>4, <2>1 DEF CodeOf
  <2>5. QED BY <1>1, <1>4, <2>1, <2>2, <2>3, <2>4 DEF CodeOf
<1>9. QED BY <1>6, <1>7, <1>8 DEF CodeInv

LEMMA InsertCodeInv ==
    ASSUME CodeInv, NEW c \in Issuers, InsertCode(c)
    PROVE  CodeInv'
<1>1. /\ clerk[c].pc = "insert" /\ passwords' = passwords /\ tangled' = tangled
      /\ clerk' = [clerk EXCEPT ![c].pc = "done"]
      /\ activations' = [activations EXCEPT ![c] = {"issued"}]
      BY DEF InsertCode
<1>2. ClerkStep(c, "done", clerk[c].code) /\ c \in Clerks
      BY <1>1, ClerkGoesOn DEF CodeInv, Clerks
<1>3. /\ DOMAIN clerk' = Clerks
      /\ clerk'[c].pc = "done" /\ clerk'[c].code = clerk[c].code
      /\ \A d \in Clerks : d # c => clerk'[d] = clerk[d]
      /\ \A d \in Clerks : clerk'[d] = [pc |-> clerk'[d].pc, code |-> clerk'[d].code]
      BY <1>2, ClerkStepFacts DEF CodeInv
<1>4. /\ activations' \in [Issuers -> SUBSET {"issued", "recovered", "used"}]
      /\ activations'[c] = {"issued"} /\ activations[c] = {}
      /\ \A i \in Issuers : i # c => activations'[i] = activations[i]
      BY <1>1 DEF CodeInv, CodeTypes
<1>5. /\ \A i \in Issuers : clerk'[i].pc \in {"new", "insert"} => i # c /\ clerk'[i] = clerk[i]
      /\ \A a \in Activators : clerk'[a] = clerk[a]
      /\ \A i \in Issuers : i # c => clerk'[i] = clerk[i]
      BY <1>3, ClerksDiffer DEF Clerks
<1>6. CodeTypes'
  <2>1. /\ \A i \in Issuers : clerk'[i].pc \in {"new", "insert", "done"}
        /\ \A a \in Activators : clerk'[a].pc \in {"new", "password", "use", "done"}
        /\ \A a \in Activators : clerk'[a].pc \in {"password", "use"} =>
              clerk'[a].code \in Issuers /\ activations'[clerk'[a].code] # {}
        /\ \A i \in Issuers : passwords'[i] > 0 => activations'[i] # {}
        BY <1>1, <1>3, <1>4, <1>5 DEF CodeInv, CodeTypes
  <2>2. \A i \in Issuers : clerk'[i].pc \in {"new", "insert"} => activations'[i] = {}
        BY <1>4, <1>5 DEF CodeInv, CodeTypes
  <2>3. QED BY <1>1, <1>3, <1>4, <2>1, <2>2 DEF CodeInv, CodeTypes
<1>7. OpenInv'
  <2>1. \A i \in Issuers : i # c => (OpenCode(i)' <=> OpenCode(i))
        BY <1>4 DEF OpenCode
  <2>2. ASSUME c \notin tangled
        PROVE  /\ \A j \in Issuers \ tangled : ~OpenCode(j)
               /\ \A j \in Issuers \ tangled : j # c => clerk[j].pc # "insert"
        BY <1>1, <2>2 DEF CodeInv, OpenInv
  <2>3. \A i, j \in Issuers \ tangled : OpenCode(i)' /\ OpenCode(j)' => i = j
        BY <2>1, <2>2 DEF CodeInv, OpenInv
  <2>4. \A i, j \in Issuers \ tangled : clerk'[i].pc = "insert" => ~OpenCode(j)'
        BY <1>5, <2>1, <2>2 DEF CodeInv, OpenInv
  <2>5. \A i, j \in Issuers \ tangled : clerk'[i].pc = "insert" /\ clerk'[j].pc = "insert" => i = j
        BY <1>5 DEF CodeInv, OpenInv
  <2>6. QED BY <1>1, <2>3, <2>4, <2>5 DEF OpenInv
<1>8. ASSUME NEW i \in Issuers \ tangled PROVE CodeOf(i)'
  <2>1. CodeOf(i)
        BY DEF CodeInv
  <2>2. \A a \in Activators : Uses(a, i)' <=> Uses(a, i)
        BY <1>5 DEF Uses
  <2>3. CASE i # c
    <3>1. OpenCode(i)' <=> OpenCode(i)
          BY <1>4, <2>3 DEF OpenCode
    <3>2. QED BY <1>1, <1>4, <1>5, <2>1, <2>2, <2>3, <3>1 DEF CodeOf
  <2>4. CASE i = c
    <3>1. ~OpenCode(c)
          BY <1>4 DEF OpenCode
    <3>2. \A a \in Activators : ~Uses(a, i)'
          BY <2>1, <2>2, <2>4, <3>1 DEF CodeOf
    <3>3. ~(passwords[i] > 0)
          BY <1>4, <2>4 DEF CodeInv, CodeTypes
    <3>4. ~ {"recovered", "used"} \subseteq activations'[i]
          BY <1>4, <2>4
    <3>5. QED BY <1>1, <2>1, <3>2, <3>3, <3>4 DEF CodeOf
  <2>5. QED BY <2>3, <2>4
<1>9. QED BY <1>1, <1>6, <1>7, <1>8 DEF CodeInv

\* A request finds an open code, and nothing is written.
LEMMA FindCodeInv ==
    ASSUME CodeInv, NEW a \in Activators, NEW i \in Issuers, FindCode(a, i)
    PROVE  CodeInv'
<1>1. /\ clerk[a].pc = "new" /\ OpenCode(i) /\ ClerkStep(a, "password", i)
      /\ tangled' = tangled \cup {j \in {i} : With(i) # {}}
      /\ UNCHANGED <<activations, passwords>>
      BY DEF FindCode, ClerkStep
<1>2. /\ DOMAIN clerk' = Clerks
      /\ clerk'[a].pc = "password" /\ clerk'[a].code = i
      /\ \A d \in Clerks : d # a => clerk'[d] = clerk[d]
      /\ \A d \in Clerks : clerk'[d] = [pc |-> clerk'[d].pc, code |-> clerk'[d].code]
      BY <1>1, ClerkStepFacts DEF CodeInv, Clerks
<1>3. /\ \A c \in Issuers : clerk'[c] = clerk[c]
      /\ \A b \in Activators : b # a => clerk'[b] = clerk[b]
      BY <1>2, ClerksDiffer DEF Clerks
<1>4. CodeTypes'
  <2>1. /\ \A c \in Issuers : clerk'[c].pc \in {"new", "insert", "done"}
        /\ \A c \in Issuers : clerk'[c].pc \in {"new", "insert"} => activations[c] = {}
        BY <1>3 DEF CodeInv, CodeTypes
  <2>2. activations[i] # {}
        BY <1>1 DEF OpenCode
  <2>3. /\ \A b \in Activators : clerk'[b].pc \in {"new", "password", "use", "done"}
        /\ \A b \in Activators : clerk'[b].pc \in {"password", "use"} =>
              clerk'[b].code \in Issuers /\ activations[clerk'[b].code] # {}
        BY <1>2, <1>3, <2>2 DEF CodeInv, CodeTypes
  <2>4. QED BY <1>1, <1>2, <2>1, <2>3 DEF CodeInv, CodeTypes
<1>5. OpenInv'
      BY <1>1, <1>3 DEF CodeInv, OpenInv, OpenCode
<1>6. ASSUME NEW j \in Issuers \ tangled' PROVE CodeOf(j)'
  <2>1. CodeOf(j) /\ (j = i => With(i) = {})
        BY <1>1, <1>6 DEF CodeInv
  <2>2. OpenCode(j)' <=> OpenCode(j)
        BY <1>1 DEF OpenCode
  <2>3. CASE j # i
    <3>1. \A b \in Activators : (Uses(b, j)' => Uses(b, j) /\ b # a) /\ (Uses(b, j) => Uses(b, j)' /\ b # a)
          BY <1>1, <1>2, <1>3, <2>3 DEF Uses
    <3>2. QED BY <1>1, <1>3, <2>1, <2>2, <3>1 DEF CodeOf
  <2>4. CASE j = i
    <3>1. \A b \in Activators : ~Uses(b, i)
          BY <2>1, <2>4 DEF With, Uses
    <3>2. \A b \in Activators : Uses(b, i)' => b = a
          BY <1>3, <3>1 DEF Uses
    <3>3. ~(passwords[i] > 0)
          BY <1>1, <2>1, <2>4, <3>1 DEF CodeOf
    <3>4. QED BY <1>1, <2>1, <2>2, <2>4, <3>2, <3>3 DEF CodeOf
  <2>5. QED BY <2>3, <2>4
<1>7. QED BY <1>4, <1>5, <1>6 DEF CodeInv

LEMMA SetPasswordInv ==
    ASSUME CodeInv, NEW a \in Activators, SetPassword(a)
    PROVE  CodeInv'
<1>0. PICK i \in Issuers : clerk[a].code = i /\ activations[i] # {}
      BY DEF SetPassword, CodeInv, CodeTypes
<1>1. /\ clerk[a].pc = "password" /\ UNCHANGED <<activations, tangled>>
      /\ passwords' = [passwords EXCEPT ![i] = passwords[i] + 1]
      /\ clerk' = [clerk EXCEPT ![a].pc = "use"]
      BY <1>0 DEF SetPassword
<1>2. i \in Issuers /\ activations[i] # {} /\ a \in Clerks
      BY <1>0 DEF Clerks
<1>3. ClerkStep(a, "use", i)
      BY <1>0, <1>1, <1>2, ClerkGoesOn DEF CodeInv
<1>4. /\ DOMAIN clerk' = Clerks
      /\ clerk'[a].pc = "use" /\ clerk'[a].code = i
      /\ \A d \in Clerks : d # a => clerk'[d] = clerk[d]
      /\ \A d \in Clerks : clerk'[d] = [pc |-> clerk'[d].pc, code |-> clerk'[d].code]
      BY <1>2, <1>3, ClerkStepFacts DEF CodeInv
<1>5. /\ passwords' \in [Issuers -> Nat] /\ passwords'[i] = passwords[i] + 1
      /\ \A j \in Issuers : j # i => passwords'[j] = passwords[j]
      BY <1>1, <1>2 DEF CodeInv, CodeTypes
<1>6. /\ \A c \in Issuers : clerk'[c] = clerk[c]
      /\ \A b \in Activators : b # a => clerk'[b] = clerk[b]
      BY <1>4, ClerksDiffer DEF Clerks
<1>7. CodeTypes'
  <2>1. /\ \A c \in Issuers : clerk'[c].pc \in {"new", "insert", "done"}
        /\ \A c \in Issuers : clerk'[c].pc \in {"new", "insert"} => activations[c] = {}
        BY <1>6 DEF CodeInv, CodeTypes
  <2>2. /\ \A b \in Activators : clerk'[b].pc \in {"new", "password", "use", "done"}
        /\ \A b \in Activators : clerk'[b].pc \in {"password", "use"} =>
              clerk'[b].code \in Issuers /\ activations[clerk'[b].code] # {}
        BY <1>2, <1>4, <1>6 DEF CodeInv, CodeTypes
  <2>3. \A j \in Issuers : passwords'[j] > 0 => activations[j] # {}
        BY <1>2, <1>5 DEF CodeInv, CodeTypes
  <2>4. QED BY <1>1, <1>4, <1>5, <2>1, <2>2, <2>3 DEF CodeInv, CodeTypes
<1>8. OpenInv'
      BY <1>1, <1>6 DEF CodeInv, OpenInv, OpenCode
<1>9. ASSUME NEW j \in Issuers \ tangled PROVE CodeOf(j)'
  <2>1. CodeOf(j)
        BY DEF CodeInv
  <2>2. OpenCode(j)' <=> OpenCode(j)
        BY <1>1 DEF OpenCode
  <2>3. Uses(a, i) /\ Uses(a, i)'
        BY <1>0, <1>1, <1>4 DEF Uses
  <2>4. \A b \in Activators : Uses(b, j)' <=> Uses(b, j)
        BY <1>4, <1>6, <2>3 DEF Uses
  <2>5. CASE j # i
    <3>1. \A b \in Activators : Uses(b, j)' => clerk'[b].pc = clerk[b].pc
          BY <1>4, <1>6, <2>5 DEF Uses
    <3>2. QED BY <1>1, <1>5, <2>1, <2>2, <2>4, <2>5, <3>1 DEF CodeOf
  <2>6. CASE j = i
    <3>1. \A b \in Activators : Uses(b, i) => b = a
          BY <2>1, <2>3, <2>6 DEF CodeOf
    <3>2. OpenCode(i)
          BY <2>1, <2>3, <2>6 DEF CodeOf
    <3>3. passwords[i] = 0
          BY <1>1, <1>2, <2>1, <2>6, <3>1, <3>2 DEF CodeOf, CodeInv, CodeTypes
    <3>4. passwords'[i] <= 1
          BY <1>5, <3>3
    <3>5. QED BY <1>1, <1>4, <2>1, <2>2, <2>3, <2>4, <2>6, <3>4 DEF CodeOf
  <2>7. QED BY <2>5, <2>6
<1>10. QED BY <1>1, <1>7, <1>8, <1>9 DEF CodeInv

LEMMA UseCodeInv ==
    ASSUME CodeInv, NEW a \in Activators, UseCode(a)
    PROVE  CodeInv'
<1>0. PICK i \in Issuers : clerk[a].code = i /\ activations[i] # {}
      BY DEF UseCode, CodeInv, CodeTypes
<1>1. /\ clerk[a].pc = "use" /\ UNCHANGED <<passwords, tangled>>
      /\ activations' = [activations EXCEPT ![i] = activations[i] \cup {"used"}]
      /\ clerk' = [clerk EXCEPT ![a].pc = "done"]
      BY <1>0 DEF UseCode
<1>2. i \in Issuers /\ activations[i] # {} /\ a \in Clerks
      BY <1>0 DEF Clerks
<1>3. ClerkStep(a, "done", i)
      BY <1>0, <1>1, <1>2, ClerkGoesOn DEF CodeInv
<1>4. /\ DOMAIN clerk' = Clerks
      /\ clerk'[a].pc = "done" /\ clerk'[a].code = i
      /\ \A d \in Clerks : d # a => clerk'[d] = clerk[d]
      /\ \A d \in Clerks : clerk'[d] = [pc |-> clerk'[d].pc, code |-> clerk'[d].code]
      BY <1>2, <1>3, ClerkStepFacts DEF CodeInv
<1>5. /\ activations' \in [Issuers -> SUBSET {"issued", "recovered", "used"}]
      /\ activations'[i] = activations[i] \cup {"used"}
      /\ \A j \in Issuers : j # i => activations'[j] = activations[j]
      BY <1>1, <1>2 DEF CodeInv, CodeTypes
<1>6. /\ \A c \in Issuers : clerk'[c] = clerk[c]
      /\ \A b \in Activators : b # a => clerk'[b] = clerk[b]
      BY <1>4, ClerksDiffer DEF Clerks
<1>7. \A j \in Issuers : activations[j] # {} => activations'[j] # {}
      BY <1>5
<1>8. clerk[i].pc \notin {"new", "insert"}
      BY <1>2 DEF CodeInv, CodeTypes
<1>9. CodeTypes'
  <2>1. /\ \A c \in Issuers : clerk'[c].pc \in {"new", "insert", "done"}
        /\ \A c \in Issuers : clerk'[c].pc \in {"new", "insert"} => activations'[c] = {}
        BY <1>5, <1>6, <1>8 DEF CodeInv, CodeTypes
  <2>2. /\ \A b \in Activators : clerk'[b].pc \in {"new", "password", "use", "done"}
        /\ \A b \in Activators : clerk'[b].pc \in {"password", "use"} =>
              clerk'[b].code \in Issuers /\ activations'[clerk'[b].code] # {}
        BY <1>4, <1>6, <1>7 DEF CodeInv, CodeTypes
  <2>3. QED BY <1>1, <1>4, <1>5, <1>7, <2>1, <2>2 DEF CodeInv, CodeTypes
<1>10. /\ ~OpenCode(i)'
       /\ \A j \in Issuers : j # i => (OpenCode(j)' <=> OpenCode(j))
  <2>1. "used" \in activations'[i] /\ "used" # "issued"
        BY <1>5
  <2>2. QED BY <1>5, <2>1 DEF OpenCode
<1>11. OpenInv'
      BY <1>1, <1>6, <1>10 DEF CodeInv, OpenInv
<1>12. ASSUME NEW j \in Issuers \ tangled PROVE CodeOf(j)'
  <2>1. CodeOf(j)
        BY DEF CodeInv
  <2>2. Uses(a, i)
        BY <1>0, <1>1 DEF Uses
  <2>3. CASE j # i
    <3>1. \A b \in Activators : (Uses(b, j)' <=> Uses(b, j)) /\ (Uses(b, j) => clerk'[b] = clerk[b])
          BY <1>4, <1>6, <2>2, <2>3 DEF Uses
    <3>2. QED BY <1>1, <1>5, <1>10, <2>1, <2>3, <3>1 DEF CodeOf
  <2>4. CASE j = i
    <3>1. activations[i] = {"issued"}
          BY <2>1, <2>2, <2>4 DEF CodeOf, OpenCode
    <3>2. ~ {"recovered", "used"} \subseteq activations'[i]
          BY <1>5, <3>1
    <3>3. \A b \in Activators : ~Uses(b, i)'
      <4>1. \A b \in Activators : Uses(b, i) => b = a
            BY <2>1, <2>2, <2>4 DEF CodeOf
      <4>2. QED BY <1>4, <1>6, <4>1 DEF Uses
    <3>4. QED BY <1>1, <1>10, <2>1, <2>4, <3>2, <3>3 DEF CodeOf
  <2>5. QED BY <2>3, <2>4
<1>13. QED BY <1>1, <1>9, <1>11, <1>12 DEF CodeInv

-----------------------------------------------------------------------------
LEMMA FamilyInitInv == FamilyInit => FamilyInv
<1> SUFFICES ASSUME FamilyInit PROVE FamilyInv
    OBVIOUS
<1>1. /\ \A p \in People : active[p] = TRUE /\ login[p] = TRUE
      /\ active \in [People -> BOOLEAN] /\ login \in [People -> BOOLEAN]
      /\ activations = [i \in Issuers |-> {}] /\ passwords = [i \in Issuers |-> 0]
      BY DEF FamilyInit
<1>2. PICK cast \in FamilyCasts :
         /\ archiver = [c \in Archivers |->
               [pc |-> IF c \in cast THEN "new" ELSE "done", who |-> CHOOSE k \in Kids : TRUE]]
         /\ clerk = [c \in Clerks |->
               [pc |-> IF c \in cast THEN "new" ELSE "done", code |-> CHOOSE i \in Issuers : TRUE]]
      BY DEF FamilyInit
<1> DEFINE kid == CHOOSE k \in Kids : TRUE
<1>3. kid \in Kids /\ kid \in People /\ kid # Guardian
      BY FamilyAssumption DEF People
<1>4. \A c \in Archivers : archiver[c].pc \in {"new", "done"} /\ archiver[c].who = kid
      BY <1>2
<1>5. archiver \in [Archivers -> [pc : ArchiverPcs, who : People]]
      BY <1>2, <1>3 DEF ArchiverPcs
<1> HIDE DEF kid
<1>6. AccountInv
  <2>1. ActiveKids # {}
        BY <1>1, <1>3 DEF ActiveKids
  <2>2. AccountTypes
        BY <1>1, <1>3, <1>4, <1>5 DEF AccountTypes
  <2>3. QED BY <1>1, <1>4, <2>1, <2>2, GuardianIsNoKid DEF AccountInv
<1>7. /\ \A c \in Clerks : clerk[c].pc \in {"new", "done"}
      /\ \A c \in Clerks : clerk[c] = [pc |-> clerk[c].pc, code |-> clerk[c].code]
      /\ DOMAIN clerk = Clerks
      BY <1>2
<1>8. \A i \in Issuers : activations[i] = {} /\ passwords[i] = 0 /\ ~OpenCode(i)
      BY <1>1 DEF OpenCode
<1>9. CodeTypes
      BY <1>1, <1>7, <1>8 DEF CodeTypes, Clerks
<1>10. \A i \in Issuers : CodeOf(i)
      BY <1>7, <1>8 DEF CodeOf, Uses, Clerks
<1>11. OpenInv
      BY <1>7, <1>8 DEF OpenInv, Clerks
<1>12. QED BY <1>6, <1>9, <1>10, <1>11 DEF FamilyInv, CodeInv

LEMMA FamilyStepInv == FamilyInv /\ [FamilyNext]_familyVars => FamilyInv'
<1> SUFFICES ASSUME FamilyInv, [FamilyNext]_familyVars PROVE FamilyInv'
    OBVIOUS
<1>1. ASSUME UNCHANGED accountVars PROVE AccountInv'
      BY <1>1 DEF accountVars, FamilyInv, AccountInv, AccountTypes, ActiveKids,
         NoneArchivesGuardian, WillClose
<1>2. ASSUME UNCHANGED codeVars PROVE CodeInv'
      BY <1>2 DEF codeVars, FamilyInv, CodeInv, CodeTypes, CodeOf, OpenInv, OpenCode, Uses
<1>3. CASE UNCHANGED familyVars
      BY <1>1, <1>2, <1>3 DEF familyVars, accountVars, codeVars, FamilyInv
<1>4. CASE \E c \in Archivers, p \in People : ArchiveUser(c, p)
      BY <1>2, <1>4, ArchiveUserInv DEF FamilyInv, ArchiveUser
<1>5. CASE \E c \in Archivers :
              LookForChildren(c) \/ ArchiveParent(c) \/ CloseParentLogin(c) \/ CloseLogin(c)
  <2>1. UNCHANGED codeVars
        BY <1>5 DEF LookForChildren, ArchiveParent, CloseParentLogin, CloseLogin
  <2>2. QED BY <1>2, <1>5, <2>1, LookForChildrenInv, CloseInv DEF FamilyInv
<1>6. CASE \E p \in People : Reactivate(p)
      BY <1>2, <1>6, RevivedInv DEF FamilyInv, Reactivate
<1>7. CASE \E c \in Issuers : RecoverCodes(c) \/ InsertCode(c)
      BY <1>1, <1>7, RecoverInv, InsertCodeInv DEF FamilyInv, RecoverCodes, InsertCode
<1>8. CASE \E a \in Activators : (\E i \in Issuers : FindCode(a, i)) \/ UseCode(a)
      BY <1>1, <1>8, FindCodeInv, UseCodeInv DEF FamilyInv, FindCode, UseCode
<1>9. CASE \E a \in Activators : SetPassword(a)
      BY <1>9, SetPasswordInv, RevivedInv, GuardianIsNoKid DEF FamilyInv, SetPassword
<1>10. QED BY <1>3, <1>4, <1>5, <1>6, <1>7, <1>8, <1>9 DEF FamilyNext

\* What is proved of every state of a family.
LEMMA FamilyAlways == FamilySpec => []FamilyInv
BY FamilyInitInv, FamilyStepInv, PTL DEF FamilySpec

\* However archives overlap in users.service.ts, and however often codes of
\* parent-activation.service.ts are issued and used, for any number of children:
\* parents follow their children, and a code that no requests fight over works once.
THEOREM FamiliesDoAgree == FamilySpec => []FamiliesAgree
<1>1. FamilyInv => FamiliesAgree
  <2>1. SUFFICES ASSUME FamilyInv PROVE FamiliesAgree
        OBVIOUS
  <2>2. \A c \in Archivers, p \in People :
           WillClose(c, p) => c \in Archiving /\ p \in {archiver[c].who, Guardian}
        BY DEF WillClose, Archiving
  <2>3. ASSUME \A k \in Kids : ~active[k], Archiving = {}, revived = {}, NEW p \in People
        PROVE  Closed(p)
    <3>1. ActiveKids = {}
          BY <2>3 DEF ActiveKids
    <3>2. ~active[Guardian]
          BY <2>1, <2>3, <3>1 DEF FamilyInv, AccountInv, Archiving
    <3>3. ~active[p]
          BY <2>3, <3>2 DEF People
    <3>4. ~login[p]
          BY <2>1, <2>2, <2>3, <3>3 DEF FamilyInv, AccountInv
    <3>5. QED BY <3>3, <3>4 DEF Closed
  <2>4. (\A c \in Archivers : archiver[c].who # Guardian) /\ ~active[Guardian]
           => {k \in Kids : active[k]} \subseteq revived
        BY <2>1 DEF FamilyInv, AccountInv, ActiveKids, NoneArchivesGuardian
  <2>5. \A p \in People : login[p] /\ ~active[p] =>
           \E c \in Archiving : p \in {archiver[c].who, Guardian}
        BY <2>1, <2>2 DEF FamilyInv, AccountInv
  <2>6. \A i \in Issuers \ tangled :
           /\ passwords[i] <= 1 /\ ~ {"recovered", "used"} \subseteq activations[i]
           /\ \A j \in Issuers \ tangled : OpenCode(i) /\ OpenCode(j) => i = j
        BY <2>1 DEF FamilyInv, CodeInv, CodeOf, OpenInv
  <2>7. QED BY <2>3, <2>4, <2>5, <2>6 DEF FamiliesAgree
<1>2. QED BY <1>1, FamilyAlways, PTL

\* An activation sets a password once.
ClerkRows == [pc : ClerkPcs, code : Issuers]
Activated == {a \in Activators : clerk[a].pc \in {"use", "done"}}
FamilyCounts ==
    /\ \A i \in Issuers : passwords[i] <= Cardinality(Activated)
    /\ clerk \in [Clerks -> ClerkRows]
    /\ revived \subseteq People /\ tangled \subseteq Issuers

LEMMA FamilyCountsStep ==
    ASSUME FamilyInv, FamilyInv', FamilyCounts, [FamilyNext]_familyVars
    PROVE  FamilyCounts'
<1>1. /\ CodeTypes /\ CodeTypes' /\ Activated \in SUBSET Activators /\ Activated' \in SUBSET Activators
      /\ Guardian \in People
      BY GuardianIsNoKid DEF FamilyInv, CodeInv, Activated
<1>2. /\ \A i \in Issuers : passwords[i] <= Cardinality(Activated)
      /\ clerk \in [Clerks -> ClerkRows]
      /\ revived \subseteq People /\ tangled \subseteq Issuers
      BY DEF FamilyCounts
<1>3. CASE UNCHANGED <<codeVars, revived>>
      BY <1>2, <1>3 DEF codeVars, FamilyCounts, Activated
<1>4. ASSUME Activated \subseteq Activated',
             \A i \in Issuers : \/ passwords'[i] <= passwords[i]
                                \/ passwords'[i] = passwords[i] + 1 /\ Activated # Activated',
             clerk' \in [Clerks -> ClerkRows],
             revived' \subseteq People, tangled' \subseteq Issuers
      PROVE  FamilyCounts'
  <2>1. ASSUME NEW i \in Issuers PROVE passwords'[i] <= Cardinality(Activated')
    <3>1. passwords[i] \in Nat /\ passwords'[i] \in Nat /\ passwords[i] <= Cardinality(Activated)
          BY <1>1, <1>2 DEF CodeTypes
    <3>2. QED BY <1>1, <1>4, <3>1, CountsWhoIsThrough, FamilyAssumption
  <2>2. QED BY <1>4, <2>1 DEF FamilyCounts
<1>5. \A i \in Issuers : passwords[i] \in Nat
      BY <1>1 DEF CodeTypes
<1>6. CASE \E c \in Archivers : \/ \E p \in People : ArchiveUser(c, p)
                                \/ LookForChildren(c) \/ ArchiveParent(c)
                                \/ CloseParentLogin(c) \/ CloseLogin(c)
      BY <1>3, <1>6 DEF ArchiveUser, LookForChildren, ArchiveParent, CloseParentLogin, CloseLogin
<1>7. ASSUME NEW p \in People, Reactivate(p) PROVE FamilyCounts'
  <2>1. UNCHANGED codeVars /\ revived' \subseteq People
        BY <1>2, <1>7 DEF Reactivate
  <2>2. QED BY <1>2, <2>1 DEF codeVars, FamilyCounts, Activated
<1>8. ASSUME NEW c \in Issuers, RecoverCodes(c) \/ InsertCode(c) PROVE FamilyCounts'
  <2>1. /\ Activated' = Activated /\ UNCHANGED <<passwords, revived>>
        /\ clerk' \in [Clerks -> ClerkRows]
    <3>1. PICK pc \in {"insert", "done"} : clerk' = [clerk EXCEPT ![c].pc = pc]
          BY <1>8 DEF RecoverCodes, InsertCode
    <3>2. clerk' \in [Clerks -> ClerkRows] /\ \A a \in Activators : clerk'[a] = clerk[a]
          BY <1>2, <3>1, FamilyAssumption DEF Clerks, ClerkRows, ClerkPcs
    <3>3. QED BY <1>8, <3>2 DEF RecoverCodes, InsertCode, Activated, accountVars
  <2>2. tangled' \subseteq Issuers
        BY <1>2, <1>8 DEF RecoverCodes, InsertCode
  <2>3. QED BY <1>2, <1>4, <1>5, <2>1, <2>2
<1>9. ASSUME NEW a \in Activators, NEW i \in Issuers, FindCode(a, i) PROVE FamilyCounts'
  <2>1. /\ Activated' = Activated /\ UNCHANGED <<passwords, revived>>
        /\ clerk' \in [Clerks -> ClerkRows]
        BY <1>2, <1>9 DEF FindCode, Activated, Clerks, ClerkRows, ClerkPcs, accountVars
  <2>2. tangled' \subseteq Issuers
        BY <1>2, <1>9 DEF FindCode
  <2>3. QED BY <1>2, <1>4, <1>5, <2>1, <2>2
<1>10. ASSUME NEW a \in Activators, SetPassword(a) PROVE FamilyCounts'
  <2>1. /\ Activated' = Activated \cup {a} /\ a \notin Activated
        /\ clerk' \in [Clerks -> ClerkRows]
        BY <1>2, <1>10 DEF SetPassword, Activated, Clerks, ClerkRows, ClerkPcs
  <2>2. \A i \in Issuers : passwords'[i] \in {passwords[i], passwords[i] + 1}
        BY <1>1, <1>10 DEF SetPassword, CodeTypes
  <2>3. UNCHANGED tangled /\ revived' \subseteq People
        BY <1>1, <1>2, <1>10 DEF SetPassword
  <2>4. QED BY <1>2, <1>4, <1>5, <2>1, <2>2, <2>3
<1>11. ASSUME NEW a \in Activators, UseCode(a) PROVE FamilyCounts'
  <2>1. /\ Activated' = Activated /\ UNCHANGED <<passwords, revived, tangled>>
        /\ clerk' \in [Clerks -> ClerkRows]
        BY <1>2, <1>11 DEF UseCode, Activated, Clerks, ClerkRows, ClerkPcs, accountVars
  <2>2. QED BY <1>2, <1>4, <1>5, <2>1
<1>12. QED BY <1>3, <1>6, <1>7, <1>8, <1>9, <1>10, <1>11 DEF FamilyNext, familyVars, codeVars

\* No code sets more passwords than there are activations.
LEMMA FamilyTypesHold == FamilySpec => []FamilyTypeOK
<1>1. FamilyInit => FamilyCounts
  <2>1. SUFFICES ASSUME FamilyInit PROVE FamilyCounts
        OBVIOUS
  <2>2. Cardinality(Activated) \in Nat
        BY NoMoreThanAll, FamilyAssumption DEF Activated
  <2>3. PICK cast \in FamilyCasts :
           clerk = [c \in Clerks |->
              [pc |-> IF c \in cast THEN "new" ELSE "done", code |-> CHOOSE i \in Issuers : TRUE]]
        BY <2>1 DEF FamilyInit
  <2>4. (CHOOSE i \in Issuers : TRUE) \in Issuers
        BY FamilyAssumption
  <2>5. clerk \in [Clerks -> ClerkRows]
        BY <2>3, <2>4 DEF ClerkRows, ClerkPcs
  <2>6. QED BY <2>1, <2>2, <2>5 DEF FamilyInit, FamilyCounts
<1>2. FamilyInv /\ FamilyCounts => FamilyTypeOK
  <2>1. SUFFICES ASSUME AccountTypes, CodeTypes, FamilyCounts PROVE FamilyTypeOK
        BY DEF FamilyInv, AccountInv, CodeInv
  <2>2. /\ Cardinality(Activated) \in Nat /\ Cardinality(Activators) \in Nat
        /\ Cardinality(Activated) <= Cardinality(Activators)
        BY NoMoreThanAll, FamilyAssumption DEF Activated
  <2>3. \A i \in Issuers : passwords[i] \in 0..Cardinality(Activators)
        BY <2>1, <2>2 DEF CodeTypes, FamilyCounts
  <2>4. passwords \in [Issuers -> 0..Cardinality(Activators)]
        BY <2>1, <2>3 DEF CodeTypes
  <2>5. QED BY <2>1, <2>4 DEF AccountTypes, CodeTypes, FamilyCounts, ArchiverPcs, ClerkPcs, ClerkRows,
           FamilyTypeOK
<1>3. FamilyInv /\ FamilyInv' /\ FamilyCounts /\ [FamilyNext]_familyVars => FamilyCounts'
      BY FamilyCountsStep
<1>4. QED BY <1>1, <1>2, <1>3, FamilyAlways, PTL DEF FamilySpec

-----------------------------------------------------------------------------
(* Schools that are opened: Onboarding.                                    *)

StagedRows == [name : SchoolNames, code : Registrars, consumed : BOOLEAN]
Calls == [pc : CallPcs, at : Nat, row : StagedRows \cup {NoStaging}, demotes : SUBSET Openers]
SchoolRows == [status : {"none", "pending", "failed", "ready"},
               name : SchoolNames \cup {"none"}, code : Registrars \cup {"none"}, hash : BOOLEAN]

\* What a call past its look-up has in hand.
OnboardingTypes ==
    /\ staged \in Seq(StagedRows)
    /\ onboarding \in [OnboardingCalls -> Calls]
    /\ schoolRow \in [Openers -> SchoolRows]
    /\ owner \in [Openers -> BOOLEAN]
    /\ mapping \in [Openers -> {"none", "active", "inactive"}]
    /\ \A c \in OnboardingCalls :
          /\ onboarding[c].pc = "save" => onboarding[c].at <= Len(staged)
          /\ onboarding[c].pc \in {"tenant", "consume"} => onboarding[c].at \in 1..Len(staged)
          /\ onboarding[c].pc # "new" => onboarding[c].row \in StagedRows
          /\ Staging(c) => ~onboarding[c].row.consumed
    /\ \A c \in Registrars : onboarding[c].pc \in {"new", "save", "done", "cut"}
    /\ \A v \in Openers : onboarding[v].pc # "save"

\* A school that is being opened has what the step it is at has given it.
After(v, pcs) == onboarding[v].pc \in pcs
OpenedBy(v) ==
    /\ After(v, {"new", "tenant"}) => ~Stands(v)
    /\ After(v, {"consume", "announce", "provision", "ready", "look", "demote", "user", "clear"})
          => Stands(v)
    /\ After(v, {"look", "demote", "user", "clear"}) => schoolRow[v].status = "ready"
    /\ After(v, {"user", "clear"}) => mapping[v] # "none"
    /\ After(v, {"clear"}) => owner[v]
    /\ Stands(v) /\ ~schoolRow[v].hash => owner[v] /\ mapping[v] # "none"
    /\ Stands(v) /\ After(v, {"done"}) =>
          \/ schoolRow[v].status = "failed"
          \/ schoolRow[v].status = "ready" /\ owner[v] /\ ~schoolRow[v].hash

\* Each code was made with one name, wherever it is kept, and a name has one school.
CodedIn(code, name) ==
    \/ \E i \in 1..Len(staged) : staged[i].code = code /\ staged[i].name = name
    \/ \E c \in OnboardingCalls : /\ onboarding[c].pc # "new"
                                  /\ onboarding[c].row.code = code /\ onboarding[c].row.name = name
    \/ \E v \in Openers : Stands(v) /\ schoolRow[v].code = code /\ schoolRow[v].name = name
NamesInv ==
    /\ \A code \in Registrars, m, n \in SchoolNames : CodedIn(code, m) /\ CodedIn(code, n) => m = n
    /\ \A c \in Registrars : onboarding[c].pc = "new" => \A n \in SchoolNames : ~CodedIn(c, n)
    /\ \A v, w \in Openers : Stands(v) /\ Stands(w) /\ schoolRow[v].name = schoolRow[w].name => v = w
    /\ \A v \in Openers : Stands(v) => schoolRow[v].name \in SchoolNames /\ schoolRow[v].code \in Registrars

\* Until calls cross on the staging rows there is one, and once it is consumed
\* none of them has it in hand any more.
Lives(v) == Stands(v) /\ onboarding[v].pc # "cut"
StagedInv ==
    "staged" \notin crossed =>
       /\ \A c, d \in OnboardingCalls : Staging(c) /\ Staging(d) => c = d
       /\ \A c \in OnboardingCalls : Staging(c) => ~Completed
       /\ \A c \in OnboardingCalls : Staging(c) /\ onboarding[c].at = 0 => staged = <<>>
       /\ Len(staged) <= 1
       /\ \A v \in Openers : Lives(v) => onboarding[v].pc = "consume" \/ Completed
       /\ \A v, w \in Openers : Lives(v) /\ Lives(w) => v = w

\* Until owners cross, the one that is mapped deactivates what it has found.
MappedInv ==
    "mapping" \notin crossed =>
       /\ \A v, w \in Openers : Owning(v) /\ Owning(w) => v = w
       /\ \A v \in Openers : onboarding[v].pc = "demote" => Primaries \subseteq onboarding[v].demotes
       /\ \A v, w \in Primaries : v = w

OnboardingInv ==
    OnboardingTypes /\ (\A v \in Openers : OpenedBy(v)) /\ NamesInv /\ StagedInv /\ MappedInv

-----------------------------------------------------------------------------
\* One call goes from what it had in hand to what it has now.
CallStep(c, new) ==
    /\ onboarding' = [onboarding EXCEPT ![c] = new]
    /\ new \in Calls /\ new.pc # "new"

LEMMA CallStepFacts ==
    ASSUME OnboardingTypes, NEW c \in OnboardingCalls, NEW new, CallStep(c, new)
    PROVE  /\ onboarding' \in [OnboardingCalls -> Calls] /\ onboarding'[c] = new
           /\ \A d \in OnboardingCalls : d # c => onboarding'[d] = onboarding[d]
BY DEF OnboardingTypes, CallStep

LEMMA GoingOn ==
    ASSUME OnboardingTypes, NEW c \in OnboardingCalls, NEW pc \in CallPcs, pc # "new", GoesOn(c, pc)
    PROVE  \E new : /\ CallStep(c, new) /\ new.pc = pc
                    /\ new.at = onboarding[c].at /\ new.row = onboarding[c].row
                    /\ new.demotes = onboarding[c].demotes
<1> DEFINE new == [onboarding[c] EXCEPT !.pc = pc]
<1>1. onboarding[c] \in Calls
      BY DEF OnboardingTypes
<1>2. /\ new \in Calls /\ new.pc = pc
      /\ new.at = onboarding[c].at /\ new.row = onboarding[c].row
      /\ new.demotes = onboarding[c].demotes
      BY <1>1 DEF Calls
<1>3. onboarding' = [onboarding EXCEPT ![c] = new]
      BY DEF GoesOn
<1> HIDE DEF new
<1>4. CallStep(c, new)
      BY <1>2, <1>3 DEF CallStep
<1>5. WITNESS new
<1>6. QED BY <1>2, <1>4

\* Nobody else is disturbed by the step of a call.
LEMMA OthersOpened ==
    ASSUME OnboardingInv, NEW c \in OnboardingCalls, NEW v \in Openers,
           onboarding'[v].pc = onboarding[v].pc, schoolRow'[v] = schoolRow[v], owner'[v] = owner[v],
           mapping'[v] = mapping[v] \/ mapping'[v] # "none"
    PROVE  OpenedBy(v)'
BY DEF OnboardingInv, OpenedBy, After, Stands

\* No row gets a code with a name that it was not already kept with.
LEMMA NamesKept ==
    ASSUME OnboardingInv, NEW c \in OnboardingCalls, NEW new, CallStep(c, new),
           new.row = onboarding[c].row, onboarding[c].pc # "new",
           \A i \in 1..Len(staged') :
              \/ \E j \in 1..Len(staged) : staged'[i].code = staged[j].code /\ staged'[i].name = staged[j].name
              \/ /\ staged'[i].code = onboarding[c].row.code
                 /\ staged'[i].name = onboarding[c].row.name,
           \A v \in Openers : /\ schoolRow'[v].name = schoolRow[v].name
                              /\ schoolRow'[v].code = schoolRow[v].code
                              /\ Stands(v)' <=> Stands(v)
    PROVE  NamesInv'
<1>1. /\ onboarding'[c] = new
      /\ \A d \in OnboardingCalls : d # c => onboarding'[d] = onboarding[d]
      BY CallStepFacts DEF OnboardingInv
<1>2. \A d \in OnboardingCalls : onboarding'[d].pc # "new" =>
         onboarding[d].pc # "new" /\ onboarding'[d].row = onboarding[d].row
      BY <1>1
<1>3. ASSUME NEW code, NEW name, CodedIn(code, name)' PROVE CodedIn(code, name)
      BY <1>2, <1>3 DEF CodedIn
<1>4. \A d \in Registrars : onboarding'[d].pc = "new" => onboarding[d].pc = "new"
      BY <1>1 DEF CallStep, OnboardingCalls
<1>5. QED BY <1>3, <1>4 DEF OnboardingInv, NamesInv

\* What a call reads of the staging rows, or is going to put there.
LEMMA ReadsInv ==
    ASSUME OnboardingInv, NEW c \in OnboardingCalls, NEW pc \in {"save", "tenant"},
           NEW at \in Nat, NEW read \in StagedRows, Reads(c, pc, at, read), ~read.consumed,
           pc = "save" <=> c \in Registrars, at <= Len(staged), pc = "tenant" => at > 0,
           Len(staged) <= 1 => ~Completed, at = 0 => staged = <<>>,
           \/ c \in Registrars /\ read.code = c
           \/ \E i \in 1..Len(staged) : read.code = staged[i].code /\ read.name = staged[i].name
    PROVE  OnboardingInv'
<1> DEFINE new == [NewCall EXCEPT !.pc = pc, !.at = at, !.row = read]
<1>1. /\ onboarding[c].pc = "new" /\ onboarding' = [onboarding EXCEPT ![c] = new]
      /\ crossed' = IF \E d \in OnboardingCalls : Staging(d) THEN crossed \cup {"staged"} ELSE crossed
      /\ UNCHANGED <<staged, schoolRow, owner, mapping>>
      BY DEF Reads
<1>2. new \in Calls /\ new.pc = pc /\ new.at = at /\ new.row = read
      BY DEF NewCall, Calls, CallPcs
<1> HIDE DEF new
<1>3. CallStep(c, new)
      BY <1>1, <1>2 DEF CallStep
<1>4. /\ onboarding' \in [OnboardingCalls -> Calls] /\ onboarding'[c] = new
      /\ \A d \in OnboardingCalls : d # c => onboarding'[d] = onboarding[d]
      BY <1>3, CallStepFacts DEF OnboardingInv
<1>5. /\ Staging(c)' /\ ~Staging(c) /\ ~Owning(c)' /\ ~Owning(c)
      /\ \A d \in OnboardingCalls : d # c => (Staging(d)' <=> Staging(d))
      /\ \A v \in Openers : v # c => (Owning(v)' <=> Owning(v))
      /\ \A v \in Openers : Stands(v)' <=> Stands(v)
      BY <1>1, <1>2, <1>4 DEF Staging, Owning, Stands, OnboardingCalls
<1>6. Len(staged) \in Nat
      BY DEF OnboardingInv, OnboardingTypes
<1>7. OnboardingTypes'
  <2>1. ASSUME NEW d \in OnboardingCalls
        PROVE  /\ onboarding'[d].pc = "save" => onboarding'[d].at <= Len(staged)
               /\ onboarding'[d].pc \in {"tenant", "consume"} => onboarding'[d].at \in 1..Len(staged)
               /\ onboarding'[d].pc # "new" => onboarding'[d].row \in StagedRows
               /\ Staging(d)' => ~onboarding'[d].row.consumed
    <3>1. CASE d = c
          BY <1>2, <1>4, <1>6, <3>1
    <3>2. CASE d # c
          BY <1>4, <1>5, <3>2 DEF OnboardingInv, OnboardingTypes
    <3>3. QED BY <3>1, <3>2
  <2>2. /\ \A d \in Registrars : onboarding'[d].pc \in {"new", "save", "done", "cut"}
        /\ \A v \in Openers : onboarding'[v].pc # "save"
        BY <1>2, <1>4, OnboardingAssumption DEF OnboardingInv, OnboardingTypes, OnboardingCalls
  <2>3. QED BY <1>1, <1>4, <2>1, <2>2 DEF OnboardingInv, OnboardingTypes
<1>8. ASSUME NEW v \in Openers PROVE OpenedBy(v)'
  <2>1. CASE v = c
    <3>1. ~Stands(v) /\ pc = "tenant"
          BY <1>1, <2>1, OnboardingAssumption DEF OnboardingInv, OpenedBy, After
    <3>2. QED BY <1>2, <1>4, <1>5, <2>1, <3>1 DEF OpenedBy, After
  <2>2. CASE v # c
        BY <1>1, <1>4, <2>2, OthersOpened DEF OnboardingCalls
  <2>3. QED BY <2>1, <2>2
<1>9. NamesInv'
  <2>1. ASSUME NEW code, NEW name, CodedIn(code, name)'
        PROVE  CodedIn(code, name) \/ (c \in Registrars /\ code = c /\ name = read.name)
    <3>1. CASE \E i \in 1..Len(staged') : staged'[i].code = code /\ staged'[i].name = name
          BY <1>1, <3>1 DEF CodedIn
    <3>2. CASE \E v \in Openers : Stands(v)' /\ schoolRow'[v].code = code /\ schoolRow'[v].name = name
          BY <1>1, <1>5, <3>2 DEF CodedIn
    <3>3. CASE \E d \in OnboardingCalls : /\ onboarding'[d].pc # "new"
                       /\ onboarding'[d].row.code = code /\ onboarding'[d].row.name = name
      <4>1. PICK d \in OnboardingCalls : /\ onboarding'[d].pc # "new"
                       /\ onboarding'[d].row.code = code /\ onboarding'[d].row.name = name
            BY <3>3
      <4>2. CASE d # c
            BY <1>4, <4>1, <4>2 DEF CodedIn
      <4>3. CASE d = c
        <5>1. code = read.code /\ name = read.name
              BY <1>2, <1>4, <4>1, <4>3
        <5>2. QED BY <5>1 DEF CodedIn
      <4>4. QED BY <4>2, <4>3
    <3>4. QED BY <2>1, <3>1, <3>2, <3>3 DEF CodedIn
  <2>2. \A d \in Registrars : onboarding'[d].pc = "new" => d # c /\ onboarding[d].pc = "new"
        BY <1>2, <1>4 DEF OnboardingCalls
  <2>3. ASSUME NEW code \in Registrars, NEW m \in SchoolNames, NEW n \in SchoolNames,
               CodedIn(code, m)', CodedIn(code, n)'
        PROVE  m = n
    <3>1. CASE code = c
      <4>1. ~CodedIn(c, m) /\ ~CodedIn(c, n)
            BY <1>1, <2>3, <3>1 DEF OnboardingInv, NamesInv
      <4>2. QED BY <2>1, <2>3, <3>1, <4>1
    <3>2. CASE code # c
          BY <2>1, <2>3, <3>2 DEF OnboardingInv, NamesInv
    <3>3. QED BY <3>1, <3>2
  <2>4. \A d \in Registrars : onboarding'[d].pc = "new" => \A n \in SchoolNames : ~CodedIn(d, n)'
        BY <2>1, <2>2 DEF OnboardingInv, NamesInv
  <2>5. QED BY <1>1, <1>5, <2>3, <2>4 DEF OnboardingInv, NamesInv
<1>10. StagedInv'
  <2>1. SUFFICES ASSUME "staged" \notin crossed' PROVE StagedInv'
        BY DEF StagedInv
  <2>2. "staged" \notin crossed /\ \A d \in OnboardingCalls : ~Staging(d)
        BY <1>1, <2>1
  <2>3. Completed' = Completed
        BY <1>1 DEF Completed
  <2>4. \A d \in OnboardingCalls : Staging(d)' => d = c
        BY <1>5, <2>2
  <2>5. \A v \in Openers : Lives(v)' => Lives(v) /\ v # c
    <3>1. c \in Openers => ~Stands(c)
          BY <1>1 DEF OnboardingInv, OpenedBy, After
    <3>2. QED BY <1>4, <1>5, <3>1 DEF Lives, OnboardingCalls
  <2>6. Len(staged) <= 1 /\ ~Completed
        BY <2>2 DEF OnboardingInv, StagedInv
  <2>7. \A v \in Openers : Lives(v)' => onboarding'[v].pc = "consume" \/ Completed'
        BY <1>4, <2>2, <2>3, <2>5 DEF OnboardingInv, StagedInv, OnboardingCalls
  <2>8. \A v, w \in Openers : Lives(v)' /\ Lives(w)' => v = w
        BY <2>2, <2>5 DEF OnboardingInv, StagedInv
  <2>9. \A d \in OnboardingCalls : Staging(d)' /\ onboarding'[d].at = 0 => staged' = <<>>
        BY <1>1, <1>2, <1>4, <2>4
  <2>10. QED BY <1>1, <2>3, <2>4, <2>6, <2>7, <2>8, <2>9 DEF StagedInv
<1>11. MappedInv'
  <2>1. "mapping" \notin crossed' => "mapping" \notin crossed
        BY <1>1
  <2>2. Primaries' = Primaries
        BY <1>1 DEF Primaries
  <2>3. \A v \in Openers : onboarding'[v].pc = "demote" => v # c /\ onboarding'[v] = onboarding[v]
        BY <1>2, <1>4 DEF OnboardingCalls
  <2>4. \A v \in Openers : Owning(v)' => Owning(v)
        BY <1>5
  <2>5. QED BY <2>1, <2>2, <2>3, <2>4 DEF OnboardingInv, MappedInv
<1>12. QED BY <1>7, <1>8, <1>9, <1>10, <1>11 DEF OnboardingInv

\* A step that keeps the staging rows, and has none in hand.
LEMMA StagedKept ==
    ASSUME OnboardingInv, NEW c \in OnboardingCalls, NEW new, CallStep(c, new),
           new.pc \notin {"save", "tenant", "consume"},
           onboarding[c].pc \in {"tenant", "consume", "cut"} => new.pc = "cut" \/ ~Stands(c)',
           \A v \in Openers : Stands(v)' <=> Stands(v),
           staged' = staged, crossed' = crossed \/ crossed' = crossed \cup {"mapping"}
    PROVE  StagedInv'
<1>1. /\ onboarding'[c] = new
      /\ \A d \in OnboardingCalls : d # c => onboarding'[d] = onboarding[d]
      BY CallStepFacts DEF OnboardingInv
<1>2. \A d \in OnboardingCalls : Staging(d)' => d # c /\ Staging(d) /\ onboarding'[d] = onboarding[d]
      BY <1>1 DEF Staging
<1>3. Completed' = Completed
      BY DEF Completed
<1>4. ASSUME NEW v \in Openers, Lives(v)'
      PROVE  Lives(v) /\ (onboarding[v].pc = "consume" => onboarding'[v].pc = "consume")
  <2>1. CASE v = c
    <3>1. Stands(c) /\ new.pc # "cut"
          BY <1>1, <1>4, <2>1 DEF Lives
    <3>2. onboarding[c].pc \notin {"tenant", "consume", "cut"}
          BY <1>1, <1>4, <2>1, <3>1 DEF Lives
    <3>3. QED BY <2>1, <3>1, <3>2 DEF Lives
  <2>2. CASE v # c
        BY <1>1, <1>4, <2>2 DEF Lives, OnboardingCalls
  <2>3. QED BY <2>1, <2>2
<1>5. CASE "staged" \notin crossed
  <2>1. /\ \A d, e \in OnboardingCalls : Staging(d) /\ Staging(e) => d = e
        /\ \A d \in OnboardingCalls : Staging(d) => ~Completed
        /\ \A d \in OnboardingCalls : Staging(d) /\ onboarding[d].at = 0 => staged = <<>>
        /\ Len(staged) <= 1
        /\ \A v \in Openers : Lives(v) => onboarding[v].pc = "consume" \/ Completed
        /\ \A v, w \in Openers : Lives(v) /\ Lives(w) => v = w
        BY <1>5 DEF OnboardingInv, StagedInv
  <2>2. QED BY <1>2, <1>3, <1>4, <2>1 DEF StagedInv
<1>6. CASE "staged" \in crossed
      BY <1>6 DEF StagedInv
<1>7. QED BY <1>5, <1>6

\* A step of a call that gives nobody an owner.
LEMMA MappedKept ==
    ASSUME OnboardingInv, NEW c \in OnboardingCalls, NEW new, CallStep(c, new),
           new.pc \notin {"demote", "map"}, mapping' = mapping, crossed' = crossed
    PROVE  MappedInv'
<1>1. /\ onboarding'[c] = new
      /\ \A d \in OnboardingCalls : d # c => onboarding'[d] = onboarding[d]
      BY CallStepFacts DEF OnboardingInv
<1>2. \A v \in Openers : Owning(v)' => Owning(v) /\ v # c /\ onboarding'[v] = onboarding[v]
      BY <1>1 DEF Owning, OnboardingCalls
<1>3. Primaries' = Primaries
      BY DEF Primaries
<1>4. \A v \in Openers : onboarding'[v].pc = "demote" => onboarding[v].pc = "demote" /\ onboarding'[v] = onboarding[v]
      BY <1>1 DEF OnboardingCalls
<1>5. QED BY <1>2, <1>3, <1>4 DEF OnboardingInv, MappedInv

\* The types of a step in the background, and what it opens.
LEMMA BackgroundTypes ==
    ASSUME OnboardingInv, NEW v \in OnboardingCalls, NEW new, CallStep(v, new),
           onboarding[v].pc # "new", v \in Registrars => new.pc \in {"done", "cut"},
           new.row = onboarding[v].row, new.pc \notin {"save", "tenant", "consume"},
           staged' = staged, schoolRow' \in [Openers -> SchoolRows],
           owner' \in [Openers -> BOOLEAN], mapping' \in [Openers -> {"none", "active", "inactive"}]
    PROVE  OnboardingTypes'
<1>1. /\ onboarding' \in [OnboardingCalls -> Calls] /\ onboarding'[v] = new
      /\ \A d \in OnboardingCalls : d # v => onboarding'[d] = onboarding[d]
      BY CallStepFacts DEF OnboardingInv, OnboardingCalls
<1>2. ASSUME NEW d \in OnboardingCalls
      PROVE  /\ onboarding'[d].pc = "save" => onboarding'[d].at <= Len(staged)
             /\ onboarding'[d].pc \in {"tenant", "consume"} => onboarding'[d].at \in 1..Len(staged)
             /\ onboarding'[d].pc # "new" => onboarding'[d].row \in StagedRows
             /\ Staging(d)' => ~onboarding'[d].row.consumed
  <2>1. CASE d = v
        BY <1>1, <2>1 DEF OnboardingInv, OnboardingTypes, Staging
  <2>2. CASE d # v
        BY <1>1, <2>2 DEF OnboardingInv, OnboardingTypes, Staging
  <2>3. QED BY <2>1, <2>2
<1>3. /\ \A d \in Registrars : onboarding'[d].pc \in {"new", "save", "done", "cut"}
      /\ \A w \in Openers : onboarding'[w].pc # "save"
      BY <1>1, OnboardingAssumption DEF OnboardingInv, OnboardingTypes, OnboardingCalls
<1>4. QED BY <1>1, <1>2, <1>3 DEF OnboardingInv, OnboardingTypes

LEMMA CutInv ==
    ASSUME OnboardingInv, NEW c \in OnboardingCalls, CutOnboarding(c)
    PROVE  OnboardingInv'
<1>1. /\ GoesOn(c, "cut") /\ onboarding[c].pc \notin {"new", "done", "cut"} /\ "cut" \in CallPcs
      /\ UNCHANGED <<staged, schoolRow, owner, mapping, crossed>>
      BY DEF CutOnboarding, OnboardsNow, CallPcs
<1>2. PICK new : CallStep(c, new) /\ new.pc = "cut" /\ new.row = onboarding[c].row
      BY <1>1, GoingOn DEF OnboardingInv
<1>3. \A v \in Openers : Stands(v)' <=> Stands(v)
      BY <1>1 DEF Stands
<1>4. OnboardingTypes'
      BY <1>1, <1>2, BackgroundTypes DEF OnboardingInv, OnboardingTypes
<1>5. ASSUME NEW v \in Openers PROVE OpenedBy(v)'
  <2>1. /\ onboarding'[c] = new
        /\ \A d \in OnboardingCalls : d # c => onboarding'[d] = onboarding[d]
        BY <1>2, CallStepFacts DEF OnboardingInv
  <2>2. CASE v = c
        BY <1>1, <1>2, <2>1, <2>2 DEF OnboardingInv, OpenedBy, After, Stands
  <2>3. CASE v # c
        BY <1>1, <2>1, <2>3, OthersOpened DEF OnboardingCalls
  <2>4. QED BY <2>2, <2>3
<1>6. NamesInv'
      BY <1>1, <1>2, <1>3, NamesKept
<1>7. StagedInv'
      BY <1>1, <1>2, <1>3, StagedKept
<1>8. MappedInv'
      BY <1>1, <1>2, MappedKept
<1>9. QED BY <1>4, <1>5, <1>6, <1>7, <1>8 DEF OnboardingInv

\* From the announcement on, but for the mapping of the owner.
LEMMA BackgroundInv ==
    ASSUME OnboardingInv, NEW v \in Openers,
           \/ AnnounceSchool(v) \/ ProvisionSchool(v) \/ MarkReady(v)
           \/ InsertOwner(v) \/ ClearHash(v)
    PROVE  OnboardingInv'
<1>1. /\ onboarding[v].pc \in {"announce", "provision", "ready", "user", "clear"}
      /\ UNCHANGED <<staged, mapping, crossed>>
      BY DEF AnnounceSchool, ProvisionSchool, MarkReady, InsertOwner, ClearHash
<1>2. schoolRow[v] \in SchoolRows /\ Stands(v) /\ OpenedBy(v) /\ v \in OnboardingCalls
      BY <1>1 DEF OnboardingInv, OnboardingTypes, OpenedBy, After, OnboardingCalls
<1>3. PICK pc \in {"provision", "cut", "ready", "done", "look", "clear"} :
         /\ GoesOn(v, pc)
         /\ AnnounceSchool(v) => pc \in {"provision", "cut"}
         /\ ProvisionSchool(v) =>
               \/ pc = "ready" /\ schoolRow' = schoolRow
               \/ pc = "done" /\ schoolRow' = [schoolRow EXCEPT ![v].status = "failed"]
         /\ MarkReady(v) => pc = "look"
         /\ InsertOwner(v) => pc = "clear"
         /\ ClearHash(v) => pc = "done"
  <2>1. CASE AnnounceSchool(v)
        BY <2>1 DEF AnnounceSchool, ProvisionSchool, MarkReady, InsertOwner, ClearHash
  <2>2. CASE ProvisionSchool(v)
    <3>1. ~AnnounceSchool(v) /\ ~MarkReady(v) /\ ~InsertOwner(v) /\ ~ClearHash(v)
          BY <2>2 DEF AnnounceSchool, ProvisionSchool, MarkReady, InsertOwner, ClearHash
    <3>2. CASE GoesOn(v, "ready") /\ UNCHANGED schoolRow
          BY <3>1, <3>2
    <3>3. CASE GoesOn(v, "done") /\ schoolRow' = [schoolRow EXCEPT ![v].status = "failed"]
          BY <3>1, <3>3
    <3>4. QED BY <2>2, <3>2, <3>3 DEF ProvisionSchool
  <2>3. CASE MarkReady(v)
        BY <2>3 DEF AnnounceSchool, ProvisionSchool, MarkReady, InsertOwner, ClearHash
  <2>4. CASE InsertOwner(v)
        BY <2>4 DEF AnnounceSchool, ProvisionSchool, MarkReady, InsertOwner, ClearHash
  <2>5. CASE ClearHash(v)
        BY <2>5 DEF AnnounceSchool, ProvisionSchool, MarkReady, InsertOwner, ClearHash
  <2>6. QED BY <2>1, <2>2, <2>3, <2>4, <2>5
<1>4. PICK new : CallStep(v, new) /\ new.pc = pc /\ new.row = onboarding[v].row
      BY <1>2, <1>3, GoingOn DEF OnboardingInv, CallPcs
<1>5. /\ schoolRow' \in [Openers -> SchoolRows]
      /\ schoolRow'[v].name = schoolRow[v].name /\ schoolRow'[v].code = schoolRow[v].code
      /\ schoolRow'[v].status # "none"
      /\ schoolRow'[v].status = IF MarkReady(v) THEN "ready"
                                ELSE IF ProvisionSchool(v) /\ pc = "done" THEN "failed"
                                ELSE schoolRow[v].status
      /\ schoolRow'[v].hash = IF ClearHash(v) THEN FALSE ELSE schoolRow[v].hash
      /\ \A w \in Openers : w # v => schoolRow'[w] = schoolRow[w]
  <2>0. schoolRow \in [Openers -> SchoolRows] /\ schoolRow[v].status # "none"
        BY <1>2 DEF OnboardingInv, OnboardingTypes, Stands
  <2>1. CASE AnnounceSchool(v) \/ InsertOwner(v)
        BY <2>0, <2>1 DEF AnnounceSchool, ProvisionSchool, MarkReady, InsertOwner, ClearHash
  <2>2. CASE ProvisionSchool(v)
    <3>1. ~MarkReady(v) /\ ~ClearHash(v)
          BY <2>2 DEF ProvisionSchool, MarkReady, ClearHash
    <3>2. CASE pc = "ready"
          BY <1>3, <2>0, <2>2, <3>1, <3>2
    <3>3. CASE pc = "done"
          BY <1>2, <1>3, <2>0, <2>2, <3>1, <3>3 DEF SchoolRows
    <3>4. QED BY <1>3, <2>2, <3>2, <3>3
  <2>3. CASE MarkReady(v)
        BY <1>2, <2>0, <2>3 DEF MarkReady, ProvisionSchool, ClearHash, SchoolRows
  <2>4. CASE ClearHash(v)
        BY <1>2, <2>0, <2>4 DEF MarkReady, ProvisionSchool, ClearHash, SchoolRows
  <2>5. QED BY <2>1, <2>2, <2>3, <2>4
<1>6. /\ owner' \in [Openers -> BOOLEAN]
      /\ \A w \in Openers : w # v => owner'[w] = owner[w]
      /\ owner[v] \/ InsertOwner(v) => owner'[v]
  <2>1. CASE InsertOwner(v)
        BY <2>1 DEF InsertOwner, OnboardingInv, OnboardingTypes
  <2>2. CASE ~InsertOwner(v)
    <3>1. owner' = owner
          BY <2>2 DEF AnnounceSchool, ProvisionSchool, MarkReady, ClearHash
    <3>2. QED BY <2>2, <3>1 DEF OnboardingInv, OnboardingTypes
  <2>3. QED BY <2>1, <2>2
<1>7. \A w \in Openers : Stands(w)' <=> Stands(w)
      BY <1>2, <1>5 DEF Stands
<1>8. /\ onboarding'[v] = new
      /\ \A d \in OnboardingCalls : d # v => onboarding'[d] = onboarding[d]
      BY <1>2, <1>4, CallStepFacts DEF OnboardingInv
<1>9. OnboardingTypes'
  <2>1. v \notin Registrars
        BY OnboardingAssumption
  <2>2. mapping' \in [Openers -> {"none", "active", "inactive"}]
        BY <1>1 DEF OnboardingInv, OnboardingTypes
  <2>3. QED BY <1>1, <1>2, <1>3, <1>4, <1>5, <1>6, <2>1, <2>2, BackgroundTypes
<1>10. ASSUME NEW w \in Openers PROVE OpenedBy(w)'
  <2>1. CASE w = v
    <3>1. Stands(v)' /\ onboarding'[v].pc = pc /\ mapping'[v] = mapping[v]
          BY <1>1, <1>2, <1>4, <1>7, <1>8
    <3>2. CASE AnnounceSchool(v)
          BY <1>2, <1>3, <1>5, <1>6, <2>1, <3>1, <3>2
             DEF AnnounceSchool, ProvisionSchool, MarkReady, ClearHash, OpenedBy, After
    <3>3. CASE ProvisionSchool(v)
      <4>1. ~MarkReady(v) /\ ~ClearHash(v) /\ onboarding[v].pc = "provision"
            BY <3>3 DEF ProvisionSchool, MarkReady, ClearHash
      <4>2. schoolRow'[v].hash = schoolRow[v].hash
            BY <1>5, <4>1
      <4>3. Stands(v) /\ ~schoolRow[v].hash => owner[v] /\ mapping[v] # "none"
            BY <1>2 DEF OpenedBy
      <4>4. CASE pc = "ready"
            BY <1>6, <1>7, <2>1, <3>1, <4>2, <4>3, <4>4 DEF OpenedBy, After
      <4>5. CASE pc = "done"
        <5>1. schoolRow'[v].status = "failed"
              BY <1>5, <3>3, <4>1, <4>5
        <5>2. QED BY <1>6, <1>7, <2>1, <3>1, <4>2, <4>3, <4>5, <5>1 DEF OpenedBy, After
      <4>6. QED BY <1>3, <3>3, <4>4, <4>5
    <3>4. CASE MarkReady(v)
          BY <1>2, <1>3, <1>5, <1>6, <2>1, <3>1, <3>4 DEF MarkReady, ClearHash, OpenedBy, After
    <3>5. CASE InsertOwner(v)
          BY <1>2, <1>3, <1>5, <1>6, <2>1, <3>1, <3>5
             DEF InsertOwner, ProvisionSchool, MarkReady, ClearHash, OpenedBy, After
    <3>6. CASE ClearHash(v)
          BY <1>2, <1>3, <1>5, <1>6, <2>1, <3>1, <3>6
             DEF ProvisionSchool, MarkReady, ClearHash, OpenedBy, After
    <3>7. QED BY <3>2, <3>3, <3>4, <3>5, <3>6
  <2>2. CASE w # v
        BY <1>1, <1>2, <1>5, <1>6, <1>8, <2>2, OthersOpened DEF OnboardingCalls
  <2>3. QED BY <2>1, <2>2
<1>11. NamesInv'
  <2>1. \A w \in Openers : /\ schoolRow'[w].name = schoolRow[w].name
                           /\ schoolRow'[w].code = schoolRow[w].code
                           /\ Stands(w)' <=> Stands(w)
        BY <1>5, <1>7
  <2>2. QED BY <1>1, <1>2, <1>4, <2>1, NamesKept
<1>12. StagedInv'
      BY <1>1, <1>2, <1>3, <1>4, <1>7, StagedKept
<1>13. MappedInv'
      BY <1>1, <1>2, <1>3, <1>4, MappedKept
<1>14. QED BY <1>9, <1>10, <1>11, <1>12, <1>13 DEF OnboardingInv

LEMMA RegistrarReadsInv ==
    ASSUME OnboardingInv, NEW c \in Registrars,
           (\E name \in SchoolNames : Register(c, name)) \/ RefreshCode(c)
    PROVE  OnboardingInv'
<1>1. c \in OnboardingCalls /\ staged \in Seq(StagedRows)
      BY DEF OnboardingCalls, OnboardingInv, OnboardingTypes
<1>2. ASSUME NEW name \in SchoolNames, Register(c, name) PROVE OnboardingInv'
  <2> DEFINE read == [name |-> name, code |-> c, consumed |-> FALSE]
  <2>1. read \in StagedRows /\ ~read.consumed /\ read.code = c
        BY DEF StagedRows
  <2>2. Reads(c, "save", Len(staged), read) /\ ~Completed
        BY <1>2 DEF Register
  <2>3. Len(staged) \in Nat /\ (Len(staged) = 0 => staged = <<>>)
        BY <1>1
  <2> HIDE DEF read
  <2>4. QED BY <1>1, <2>1, <2>2, <2>3, ReadsInv
<1>3. ASSUME RefreshCode(c) PROVE OnboardingInv'
  <2> DEFINE read == [staged[Len(staged)] EXCEPT !.code = c]
  <2>1. Len(staged) \in Nat /\ Len(staged) >= 1 /\ staged[Len(staged)] \in StagedRows
        BY <1>1, <1>3 DEF RefreshCode
  <2>2. read \in StagedRows /\ read.code = c /\ read.consumed = staged[Len(staged)].consumed
        BY <2>1 DEF StagedRows
  <2>3. ~staged[Len(staged)].consumed /\ Reads(c, "save", Len(staged), read)
        BY <1>3 DEF RefreshCode
  <2>4. Len(staged) <= 1 => ~Completed
        BY <2>1, <2>3 DEF Completed
  <2> HIDE DEF read
  <2>5. QED BY <1>1, <2>1, <2>2, <2>3, <2>4, ReadsInv
<1>4. QED BY <1>2, <1>3

LEMMA VerifyInv ==
    ASSUME OnboardingInv, NEW v \in Openers, NEW i \in 1..Len(staged), VerifyCode(v, i)
    PROVE  OnboardingInv'
<1>1. /\ v \in OnboardingCalls /\ v \notin Registrars
      /\ staged \in Seq(StagedRows) /\ Len(staged) \in Nat /\ staged[i] \in StagedRows
      BY OnboardingAssumption DEF OnboardingCalls, OnboardingInv, OnboardingTypes
<1>2. ~staged[i].consumed /\ Reads(v, "tenant", i, staged[i])
      BY DEF VerifyCode
<1>3. Len(staged) <= 1 => ~Completed
      BY <1>1, <1>2 DEF Completed
<1>4. QED BY <1>1, <1>2, <1>3, ReadsInv

LEMMA SaveInv ==
    ASSUME OnboardingInv, NEW c \in Registrars, SaveStaging(c)
    PROVE  OnboardingInv'
<1>1. /\ onboarding[c].pc = "save" /\ GoesOn(c, "done") /\ "done" \in CallPcs
      /\ c \in OnboardingCalls /\ c \notin Openers
      /\ UNCHANGED <<schoolRow, owner, mapping, crossed>>
      BY OnboardingAssumption DEF SaveStaging, CallPcs, OnboardingCalls
<1>2. PICK new : CallStep(c, new) /\ new.pc = "done" /\ new.row = onboarding[c].row
      BY <1>1, GoingOn DEF OnboardingInv
<1>3. /\ onboarding' \in [OnboardingCalls -> Calls] /\ onboarding'[c] = new
      /\ \A d \in OnboardingCalls : d # c => onboarding'[d] = onboarding[d]
      BY <1>1, <1>2, CallStepFacts DEF OnboardingInv
<1>4. /\ staged \in Seq(StagedRows) /\ onboarding[c].row \in StagedRows
      /\ onboarding[c].at \in Nat /\ onboarding[c].at <= Len(staged)
      /\ ~onboarding[c].row.consumed
      BY <1>1 DEF OnboardingInv, OnboardingTypes, Calls, Staging
<1>5. /\ staged' \in Seq(StagedRows)
      /\ Len(staged') = IF onboarding[c].at = 0 THEN Len(staged) + 1 ELSE Len(staged)
      /\ \A i \in 1..Len(staged') :
            staged'[i] = onboarding[c].row \/ (i \in 1..Len(staged) /\ staged'[i] = staged[i])
  <2>1. CASE onboarding[c].at = 0
    <3>1. staged' = Append(staged, onboarding[c].row)
          BY <2>1 DEF SaveStaging
    <3>2. Len(staged) \in Nat
          BY <1>4
    <3>3. /\ staged' \in Seq(StagedRows) /\ Len(staged') = Len(staged) + 1
          /\ \A i \in 1..Len(staged) : staged'[i] = staged[i]
          /\ staged'[Len(staged) + 1] = onboarding[c].row
          BY <1>4, <3>1, AppendProperties
    <3>4. QED BY <2>1, <3>2, <3>3
  <2>2. CASE onboarding[c].at # 0
    <3>1. staged' = [staged EXCEPT ![onboarding[c].at] = onboarding[c].row]
          BY <2>2 DEF SaveStaging
    <3>2. onboarding[c].at \in 1..Len(staged)
          BY <1>4, <2>2
    <3>3. /\ staged' \in Seq(StagedRows) /\ Len(staged') = Len(staged)
          /\ \A i \in 1..Len(staged) :
                staged'[i] = IF i = onboarding[c].at THEN onboarding[c].row ELSE staged[i]
          BY <1>4, <3>1, <3>2, ExceptSeq
    <3>4. QED BY <2>2, <3>3
  <2>3. QED BY <2>1, <2>2
<1>6. Len(staged) \in Nat /\ Len(staged') \in Nat /\ Len(staged) <= Len(staged')
      BY <1>4, <1>5
<1>7. OnboardingTypes'
  <2>1. ASSUME NEW d \in OnboardingCalls
        PROVE  /\ onboarding'[d].pc = "save" => onboarding'[d].at <= Len(staged')
               /\ onboarding'[d].pc \in {"tenant", "consume"} => onboarding'[d].at \in 1..Len(staged')
               /\ onboarding'[d].pc # "new" => onboarding'[d].row \in StagedRows
               /\ Staging(d)' => ~onboarding'[d].row.consumed
    <3>1. CASE d = c
          BY <1>2, <1>3, <1>4, <3>1 DEF Staging
    <3>2. CASE d # c
      <4>1. /\ onboarding'[d] = onboarding[d] /\ onboarding[d].at \in Nat
            /\ onboarding[d].pc = "save" => onboarding[d].at <= Len(staged)
            /\ onboarding[d].pc \in {"tenant", "consume"} => onboarding[d].at \in 1..Len(staged)
            /\ onboarding[d].pc # "new" => onboarding[d].row \in StagedRows
            /\ Staging(d) => ~onboarding[d].row.consumed
            BY <1>3, <3>2 DEF OnboardingInv, OnboardingTypes, Calls
      <4>2. QED BY <1>6, <4>1 DEF Staging
    <3>3. QED BY <3>1, <3>2
  <2>2. /\ \A d \in Registrars : onboarding'[d].pc \in {"new", "save", "done", "cut"}
        /\ \A v \in Openers : onboarding'[v].pc # "save"
        BY <1>1, <1>2, <1>3 DEF OnboardingInv, OnboardingTypes, OnboardingCalls
  <2>3. QED BY <1>1, <1>3, <1>5, <2>1, <2>2 DEF OnboardingInv, OnboardingTypes
<1>8. ASSUME NEW v \in Openers PROVE OpenedBy(v)'
      BY <1>1, <1>3, OthersOpened DEF OnboardingCalls
<1>9. \A v \in Openers : Stands(v)' <=> Stands(v)
      BY <1>1 DEF Stands
<1>10. NamesInv'
      BY <1>1, <1>2, <1>5, <1>9, NamesKept
<1>11. StagedInv'
  <2>1. SUFFICES ASSUME "staged" \notin crossed PROVE StagedInv'
        BY <1>1 DEF StagedInv
  <2>2. /\ \A d \in OnboardingCalls : Staging(d) => d = c
        /\ ~Completed /\ Len(staged) <= 1 /\ (onboarding[c].at = 0 => Len(staged) = 0)
        /\ \A v \in Openers : ~Lives(v)
        BY <1>1, <2>1 DEF OnboardingInv, StagedInv, Staging, OnboardingCalls
  <2>3. \A d \in OnboardingCalls : ~Staging(d)'
        BY <1>2, <1>3, <2>2 DEF Staging
  <2>4. \A v \in Openers : ~Lives(v)'
        BY <1>1, <1>3, <1>9, <2>2 DEF Lives, OnboardingCalls
  <2>5. Len(staged') <= 1
        BY <1>4, <1>5, <1>6, <2>2
  <2>6. QED BY <2>3, <2>4, <2>5 DEF StagedInv
<1>12. MappedInv'
      BY <1>1, <1>2, MappedKept
<1>13. QED BY <1>7, <1>8, <1>10, <1>11, <1>12 DEF OnboardingInv

\* A school gets its row, with the code and the name that the call has in hand.
LEMMA CreateInv ==
    ASSUME OnboardingInv, NEW v \in Openers, CreateSchool(v)
    PROVE  OnboardingInv'
<1>1. /\ onboarding[v].pc = "tenant" /\ v \in OnboardingCalls /\ v \notin Registrars
      /\ UNCHANGED <<staged, owner, mapping, crossed>>
      BY OnboardingAssumption DEF CreateSchool, OnboardingCalls
<1>2. ~Stands(v) /\ Staging(v)
      BY <1>1 DEF OnboardingInv, OpenedBy, After, Staging
<1>3. CASE SlugTaken(onboarding[v].row.name)
  <2>1. GoesOn(v, "done") /\ "done" \in CallPcs /\ schoolRow' = schoolRow
        BY <1>3 DEF CreateSchool, CallPcs
  <2>2. PICK new : CallStep(v, new) /\ new.pc = "done" /\ new.row = onboarding[v].row
        BY <1>1, <2>1, GoingOn DEF OnboardingInv
  <2>3. /\ onboarding'[v] = new
        /\ \A d \in OnboardingCalls : d # v => onboarding'[d] = onboarding[d]
        BY <1>1, <2>2, CallStepFacts DEF OnboardingInv
  <2>4. \A w \in Openers : Stands(w)' <=> Stands(w)
        BY <2>1 DEF Stands
  <2>5. OnboardingTypes'
        BY <1>1, <2>1, <2>2, BackgroundTypes DEF OnboardingInv, OnboardingTypes
  <2>6. ASSUME NEW w \in Openers PROVE OpenedBy(w)'
    <3>1. CASE w = v
          BY <1>2, <2>1, <2>2, <2>3, <3>1 DEF OpenedBy, After, Stands
    <3>2. CASE w # v
          BY <1>1, <2>1, <2>3, <3>2, OthersOpened DEF OnboardingCalls
    <3>3. QED BY <3>1, <3>2
  <2>7. NamesInv'
        BY <1>1, <2>1, <2>2, <2>4, NamesKept
  <2>8. StagedInv'
        BY <1>1, <1>2, <2>2, <2>4, StagedKept
  <2>9. MappedInv'
        BY <1>1, <2>2, MappedKept
  <2>10. QED BY <2>5, <2>6, <2>7, <2>8, <2>9 DEF OnboardingInv
<1>4. CASE ~SlugTaken(onboarding[v].row.name)
  <2> DEFINE created == [status |-> "pending", name |-> onboarding[v].row.name,
                         code |-> onboarding[v].row.code, hash |-> TRUE]
  <2>1. /\ GoesOn(v, "consume") /\ "consume" \in CallPcs
        /\ schoolRow' = [schoolRow EXCEPT ![v] = created]
        BY <1>4 DEF CreateSchool, CallPcs
  <2>2. PICK new : /\ CallStep(v, new) /\ new.pc = "consume" /\ new.row = onboarding[v].row
                   /\ new.at = onboarding[v].at
        BY <1>1, <2>1, GoingOn DEF OnboardingInv
  <2>3. /\ onboarding' \in [OnboardingCalls -> Calls] /\ onboarding'[v] = new
        /\ \A d \in OnboardingCalls : d # v => onboarding'[d] = onboarding[d]
        BY <1>1, <2>2, CallStepFacts DEF OnboardingInv
  <2>4. /\ onboarding[v].row \in StagedRows /\ onboarding[v].at \in 1..Len(staged)
        /\ ~onboarding[v].row.consumed
        BY <1>1, <1>2 DEF OnboardingInv, OnboardingTypes
  <2>5. /\ created \in SchoolRows /\ created.status = "pending" /\ created.hash
        /\ created.name = onboarding[v].row.name /\ created.code = onboarding[v].row.code
        BY <2>4 DEF StagedRows, SchoolRows
  <2> HIDE DEF created
  <2>6. /\ schoolRow' \in [Openers -> SchoolRows] /\ schoolRow'[v] = created
        /\ \A w \in Openers : w # v => schoolRow'[w] = schoolRow[w]
        BY <2>1, <2>5 DEF OnboardingInv, OnboardingTypes
  <2>7. Stands(v)' /\ \A w \in Openers : w # v => (Stands(w)' <=> Stands(w))
        BY <2>5, <2>6 DEF Stands
  <2>8. \A d \in OnboardingCalls : Staging(d)' <=> Staging(d)
        BY <1>2, <2>2, <2>3 DEF Staging
  <2>9. OnboardingTypes'
    <3>1. ASSUME NEW d \in OnboardingCalls
          PROVE  /\ onboarding'[d].pc = "save" => onboarding'[d].at <= Len(staged)
                 /\ onboarding'[d].pc \in {"tenant", "consume"} => onboarding'[d].at \in 1..Len(staged)
                 /\ onboarding'[d].pc # "new" => onboarding'[d].row \in StagedRows
                 /\ Staging(d)' => ~onboarding'[d].row.consumed
      <4>1. CASE d = v
            BY <2>2, <2>3, <2>4, <4>1
      <4>2. CASE d # v
            BY <2>3, <2>8, <4>2 DEF OnboardingInv, OnboardingTypes
      <4>3. QED BY <4>1, <4>2
    <3>2. /\ \A d \in Registrars : onboarding'[d].pc \in {"new", "save", "done", "cut"}
          /\ \A w \in Openers : onboarding'[w].pc # "save"
          BY <1>1, <2>2, <2>3 DEF OnboardingInv, OnboardingTypes, OnboardingCalls
    <3>3. QED BY <1>1, <2>3, <2>6, <3>1, <3>2 DEF OnboardingInv, OnboardingTypes
  <2>10. ASSUME NEW w \in Openers PROVE OpenedBy(w)'
    <3>1. CASE w = v
          BY <2>2, <2>3, <2>5, <2>6, <2>7, <3>1 DEF OpenedBy, After
    <3>2. CASE w # v
          BY <1>1, <2>3, <2>6, <3>2, OthersOpened DEF OnboardingCalls
    <3>3. QED BY <3>1, <3>2
  <2>11. NamesInv'
    <3>1. ASSUME NEW code, NEW name, CodedIn(code, name)' PROVE CodedIn(code, name)
      <4>1. CASE \E i \in 1..Len(staged') : staged'[i].code = code /\ staged'[i].name = name
            BY <1>1, <4>1 DEF CodedIn
      <4>2. CASE \E d \in OnboardingCalls : /\ onboarding'[d].pc # "new"
                         /\ onboarding'[d].row.code = code /\ onboarding'[d].row.name = name
        <5>1. \A d \in OnboardingCalls : onboarding'[d].pc # "new" =>
                 onboarding[d].pc # "new" /\ onboarding'[d].row = onboarding[d].row
              BY <1>1, <2>2, <2>3
        <5>2. QED BY <4>2, <5>1 DEF CodedIn
      <4>3. CASE \E w \in Openers : Stands(w)' /\ schoolRow'[w].code = code /\ schoolRow'[w].name = name
        <5>1. PICK w \in Openers : Stands(w)' /\ schoolRow'[w].code = code /\ schoolRow'[w].name = name
              BY <4>3
        <5>2. CASE w = v
              BY <1>1, <2>5, <2>6, <5>1, <5>2 DEF CodedIn
        <5>3. CASE w # v
              BY <2>6, <2>7, <5>1, <5>3 DEF CodedIn
        <5>4. QED BY <5>2, <5>3
      <4>4. QED BY <3>1, <4>1, <4>2, <4>3 DEF CodedIn
    <3>2. \A d \in Registrars : onboarding'[d].pc = "new" => onboarding[d].pc = "new"
          BY <1>1, <2>3 DEF OnboardingCalls
    <3>3. \A w \in Openers : Stands(w) => schoolRow[w].name # onboarding[v].row.name
          BY <1>4 DEF SlugTaken
    <3>4. ASSUME NEW w \in Openers, NEW x \in Openers,
                 Stands(w)', Stands(x)', schoolRow'[w].name = schoolRow'[x].name
          PROVE  w = x
      <4>1. CASE w = v /\ x # v
            BY <2>5, <2>6, <2>7, <3>3, <3>4, <4>1
      <4>2. CASE x = v /\ w # v
            BY <2>5, <2>6, <2>7, <3>3, <3>4, <4>2
      <4>3. CASE w # v /\ x # v
            BY <2>6, <2>7, <3>4, <4>3 DEF OnboardingInv, NamesInv
      <4>4. QED BY <4>1, <4>2, <4>3
    <3>5. \A w \in Openers : Stands(w)' =>
             schoolRow'[w].name \in SchoolNames /\ schoolRow'[w].code \in Registrars
      <4>1. onboarding[v].row.name \in SchoolNames /\ onboarding[v].row.code \in Registrars
            BY <2>4 DEF StagedRows
      <4>2. QED BY <2>5, <2>6, <2>7, <4>1 DEF OnboardingInv, NamesInv
    <3>6. QED BY <3>1, <3>2, <3>4, <3>5 DEF OnboardingInv, NamesInv
  <2>12. StagedInv'
    <3>1. SUFFICES ASSUME "staged" \notin crossed PROVE StagedInv'
          BY <1>1 DEF StagedInv
    <3>2. /\ \A d, e \in OnboardingCalls : Staging(d) /\ Staging(e) => d = e
          /\ ~Completed /\ Len(staged) <= 1
          /\ \A d \in OnboardingCalls : Staging(d) => ~Completed
          /\ \A w \in Openers : Lives(w) => onboarding[w].pc = "consume" \/ Completed
          BY <1>1, <1>2, <3>1 DEF OnboardingInv, StagedInv
    <3>3. \A w \in Openers : w # v => ~Lives(w)
          BY <1>1, <1>2, <3>2 DEF Staging, OnboardingCalls
    <3>4. \A w \in Openers : Lives(w)' => w = v
          BY <2>3, <2>7, <3>3 DEF Lives, OnboardingCalls
    <3>5. Completed' = Completed
          BY <1>1 DEF Completed
    <3>6. \A d \in OnboardingCalls : Staging(d)' => d = v
          BY <1>1, <1>2, <2>8, <3>2
    <3>7. onboarding'[v].pc = "consume" /\ onboarding'[v].at # 0
          BY <2>2, <2>3, <2>4
    <3>8. QED BY <1>1, <3>2, <3>4, <3>5, <3>6, <3>7 DEF StagedInv
  <2>13. MappedInv'
        BY <1>1, <2>2, MappedKept
  <2>14. QED BY <2>9, <2>10, <2>11, <2>12, <2>13 DEF OnboardingInv
<1>5. QED BY <1>3, <1>4

LEMMA ConsumeInv ==
    ASSUME OnboardingInv, NEW v \in Openers, ConsumeStaging(v)
    PROVE  OnboardingInv'
<1> DEFINE spent == [onboarding[v].row EXCEPT !.consumed = TRUE]
<1>1. /\ onboarding[v].pc = "consume" /\ v \in OnboardingCalls /\ v \notin Registrars
      /\ GoesOn(v, "announce") /\ "announce" \in CallPcs
      /\ staged' = [staged EXCEPT ![onboarding[v].at] = spent]
      /\ UNCHANGED <<schoolRow, owner, mapping, crossed>>
      BY OnboardingAssumption DEF ConsumeStaging, OnboardingCalls, CallPcs
<1>2. PICK new : CallStep(v, new) /\ new.pc = "announce" /\ new.row = onboarding[v].row
      BY <1>1, GoingOn DEF OnboardingInv
<1>3. /\ onboarding' \in [OnboardingCalls -> Calls] /\ onboarding'[v] = new
      /\ \A d \in OnboardingCalls : d # v => onboarding'[d] = onboarding[d]
      BY <1>1, <1>2, CallStepFacts DEF OnboardingInv
<1>4. /\ staged \in Seq(StagedRows) /\ onboarding[v].row \in StagedRows
      /\ onboarding[v].at \in 1..Len(staged) /\ Staging(v) /\ Stands(v)
      BY <1>1 DEF OnboardingInv, OnboardingTypes, OpenedBy, After, Staging
<1>5. /\ spent \in StagedRows /\ spent.consumed
      /\ spent.code = onboarding[v].row.code /\ spent.name = onboarding[v].row.name
      BY <1>4 DEF StagedRows
<1> HIDE DEF spent
<1>6. /\ staged' \in Seq(StagedRows) /\ Len(staged') = Len(staged)
      /\ \A i \in 1..Len(staged) : staged'[i] = IF i = onboarding[v].at THEN spent ELSE staged[i]
      BY <1>1, <1>4, <1>5, ExceptSeq
<1>7. Completed'
      BY <1>4, <1>5, <1>6 DEF Completed
<1>8. \A w \in Openers : Stands(w)' <=> Stands(w)
      BY <1>1 DEF Stands
<1>9. \A d \in OnboardingCalls : Staging(d)' => d # v /\ Staging(d)
      BY <1>2, <1>3 DEF Staging
<1>10. OnboardingTypes'
  <2>1. ASSUME NEW d \in OnboardingCalls
        PROVE  /\ onboarding'[d].pc = "save" => onboarding'[d].at <= Len(staged)
               /\ onboarding'[d].pc \in {"tenant", "consume"} => onboarding'[d].at \in 1..Len(staged)
               /\ onboarding'[d].pc # "new" => onboarding'[d].row \in StagedRows
               /\ Staging(d)' => ~onboarding'[d].row.consumed
    <3>1. CASE d = v
          BY <1>2, <1>3, <1>4, <1>9, <3>1
    <3>2. CASE d # v
          BY <1>3, <1>9, <3>2 DEF OnboardingInv, OnboardingTypes
    <3>3. QED BY <3>1, <3>2
  <2>2. /\ \A d \in Registrars : onboarding'[d].pc \in {"new", "save", "done", "cut"}
        /\ \A w \in Openers : onboarding'[w].pc # "save"
        BY <1>1, <1>2, <1>3 DEF OnboardingInv, OnboardingTypes, OnboardingCalls
  <2>3. QED BY <1>1, <1>3, <1>6, <2>1, <2>2 DEF OnboardingInv, OnboardingTypes
<1>11. ASSUME NEW w \in Openers PROVE OpenedBy(w)'
  <2>1. CASE w = v
        BY <1>1, <1>2, <1>3, <1>4, <2>1 DEF OnboardingInv, OpenedBy, After, Stands
  <2>2. CASE w # v
        BY <1>1, <1>3, <2>2, OthersOpened DEF OnboardingCalls
  <2>3. QED BY <2>1, <2>2
<1>12. NamesInv'
  <2>1. \A i \in 1..Len(staged') :
           \/ \E j \in 1..Len(staged) : staged'[i].code = staged[j].code /\ staged'[i].name = staged[j].name
           \/ /\ staged'[i].code = onboarding[v].row.code
              /\ staged'[i].name = onboarding[v].row.name
        BY <1>5, <1>6
  <2>2. QED BY <1>1, <1>2, <1>8, <2>1, NamesKept
<1>13. StagedInv'
  <2>1. SUFFICES ASSUME "staged" \notin crossed PROVE StagedInv'
        BY <1>1 DEF StagedInv
  <2>2. /\ \A d \in OnboardingCalls : Staging(d) => d = v
        /\ Len(staged) <= 1
        /\ \A w, x \in Openers : Lives(w) /\ Lives(x) => w = x
        BY <1>1, <1>4, <2>1 DEF OnboardingInv, StagedInv
  <2>3. \A d \in OnboardingCalls : ~Staging(d)'
        BY <1>9, <2>2
  <2>4. \A w \in Openers : Lives(w)' => Lives(w)
        BY <1>1, <1>3, <1>8 DEF Lives, OnboardingCalls
  <2>5. QED BY <1>6, <1>7, <2>2, <2>3, <2>4 DEF StagedInv
<1>14. MappedInv'
      BY <1>1, <1>2, MappedKept
<1>15. QED BY <1>10, <1>11, <1>12, <1>13, <1>14 DEF OnboardingInv

\* The owner's mappings are looked up, deactivated and replaced.
LEMMA OwningInv ==
    ASSUME OnboardingInv, NEW v \in Openers,
           \/ LookUpMappings(v) \/ MapOwner(v)
           \/ \E w \in Openers : DemoteMapping(v, w)
    PROVE  OnboardingInv'
<1>1. /\ onboarding[v].pc \in {"look", "demote"} /\ v \in OnboardingCalls /\ v \notin Registrars
      /\ UNCHANGED <<staged, schoolRow, owner>>
      BY OnboardingAssumption DEF LookUpMappings, MapOwner, DemoteMapping, OnboardingCalls
<1>2. /\ onboarding[v] \in Calls /\ OpenedBy(v) /\ Stands(v)
      /\ mapping \in [Openers -> {"none", "active", "inactive"}]
      BY <1>1 DEF OnboardingInv, OnboardingTypes, OpenedBy, After
<1>3. PICK new : /\ CallStep(v, new) /\ new.row = onboarding[v].row /\ new.pc \in {"demote", "user"}
                 /\ LookUpMappings(v) => new.pc = "demote" /\ new.demotes = Primaries
                 /\ MapOwner(v) => new.pc = "user"
                 /\ (\E w \in Openers : DemoteMapping(v, w)) => new.pc = "demote"
  <2>1. CASE LookUpMappings(v)
    <3> DEFINE new == [onboarding[v] EXCEPT !.pc = "demote", !.demotes = Primaries]
    <3>1. new \in Calls /\ new.row = onboarding[v].row /\ new.pc = "demote" /\ new.demotes = Primaries
          BY <1>2 DEF Calls, CallPcs, Primaries
    <3>2. onboarding' = [onboarding EXCEPT ![v] = new]
          BY <2>1 DEF LookUpMappings
    <3>3. ~MapOwner(v) /\ \A w \in Openers : ~DemoteMapping(v, w)
          BY <2>1 DEF LookUpMappings, MapOwner, DemoteMapping
    <3> HIDE DEF new
    <3>4. QED BY <3>1, <3>2, <3>3 DEF CallStep
  <2>2. CASE MapOwner(v)
    <3>1. GoesOn(v, "user") /\ "user" \in CallPcs
          BY <2>2 DEF MapOwner, CallPcs
    <3>2. ~LookUpMappings(v) /\ \A w \in Openers : ~DemoteMapping(v, w)
          BY <2>2 DEF LookUpMappings, MapOwner, DemoteMapping
    <3>3. QED BY <1>1, <3>1, <3>2, GoingOn DEF OnboardingInv
  <2>3. CASE \E w \in Openers : DemoteMapping(v, w)
    <3>1. PICK w \in Openers : DemoteMapping(v, w)
          BY <2>3
    <3> DEFINE new == [onboarding[v] EXCEPT !.demotes = @ \ {w}]
    <3>2. new \in Calls /\ new.row = onboarding[v].row /\ new.pc = "demote"
          BY <1>2, <3>1 DEF Calls, DemoteMapping
    <3>3. onboarding' = [onboarding EXCEPT ![v] = new]
          BY <3>1 DEF DemoteMapping
    <3>4. ~MapOwner(v) /\ ~LookUpMappings(v)
          BY <3>1 DEF LookUpMappings, MapOwner, DemoteMapping
    <3> HIDE DEF new
    <3>5. QED BY <3>2, <3>3, <3>4 DEF CallStep
  <2>4. QED BY <2>1, <2>2, <2>3
<1>4. /\ onboarding' \in [OnboardingCalls -> Calls] /\ onboarding'[v] = new
      /\ \A d \in OnboardingCalls : d # v => onboarding'[d] = onboarding[d]
      BY <1>1, <1>3, CallStepFacts DEF OnboardingInv
<1>5. \A w \in Openers : Stands(w)' <=> Stands(w)
      BY <1>1 DEF Stands
<1>6. /\ mapping' \in [Openers -> {"none", "active", "inactive"}]
      /\ \A w \in Openers : mapping'[w] = mapping[w] \/ mapping'[w] # "none"
      /\ MapOwner(v) => mapping'[v] # "none"
      BY <1>2 DEF LookUpMappings, MapOwner, DemoteMapping
<1>7. crossed' = crossed \/ crossed' = crossed \cup {"mapping"}
      BY DEF LookUpMappings, MapOwner, DemoteMapping
<1>8. OnboardingTypes'
      BY <1>1, <1>3, <1>6, BackgroundTypes DEF OnboardingInv, OnboardingTypes
<1>9. ASSUME NEW w \in Openers PROVE OpenedBy(w)'
  <2>1. CASE w = v
    <3>1. mapping[v] # "none" => mapping'[v] # "none"
          BY <1>6
    <3>2. onboarding'[v].pc = "demote" \/ (onboarding'[v].pc = "user" /\ mapping'[v] # "none")
          BY <1>3, <1>4, <1>6 DEF LookUpMappings, DemoteMapping
    <3>3. onboarding[v].pc = "demote" \/ onboarding[v].pc = "look"
          BY <1>1
    <3>4. QED BY <1>1, <1>2, <1>5, <2>1, <3>1, <3>2, <3>3 DEF OpenedBy, After, Stands
  <2>2. CASE w # v
        BY <1>1, <1>4, <1>6, <2>2, OthersOpened DEF OnboardingCalls
  <2>3. QED BY <2>1, <2>2
<1>10. NamesInv'
      BY <1>1, <1>3, <1>5, NamesKept
<1>11. StagedInv'
      BY <1>1, <1>3, <1>5, <1>7, StagedKept
<1>12. MappedInv'
  <2>1. SUFFICES ASSUME "mapping" \notin crossed' PROVE MappedInv'
        BY DEF MappedInv
  <2>2. "mapping" \notin crossed
        BY <1>7, <2>1
  <2>3. /\ \A w, x \in Openers : Owning(w) /\ Owning(x) => w = x
        /\ \A w \in Openers : onboarding[w].pc = "demote" => Primaries \subseteq onboarding[w].demotes
        /\ \A w, x \in Primaries : w = x
        BY <2>2 DEF OnboardingInv, MappedInv
  <2>4. \A w \in Openers : Owning(w) => w = v
    <3>1. CASE LookUpMappings(v)
          BY <2>1, <3>1 DEF LookUpMappings
    <3>2. CASE ~LookUpMappings(v)
      <4>1. Owning(v)
            BY <3>2 DEF MapOwner, DemoteMapping, Owning
      <4>2. QED BY <2>3, <4>1
    <3>3. QED BY <3>1, <3>2
  <2>5. \A w \in Openers : Owning(w)' => w = v
        BY <1>4, <2>4 DEF Owning, OnboardingCalls
  <2>6. CASE LookUpMappings(v)
    <3>1. Primaries' = Primaries
          BY <2>6 DEF LookUpMappings, Primaries
    <3>2. \A w \in Openers : onboarding'[w].pc = "demote" => Primaries' \subseteq onboarding'[w].demotes
          BY <1>3, <1>4, <2>5, <2>6, <3>1 DEF Owning
    <3>3. QED BY <2>3, <2>5, <3>1, <3>2 DEF MappedInv
  <2>7. CASE MapOwner(v)
    <3>1. onboarding[v].pc = "demote" /\ onboarding[v].demotes = {}
          BY <2>7 DEF MapOwner
    <3>2. Primaries = {}
          BY <2>3, <3>1
    <3>3. \A w \in Primaries' : w = v
          BY <1>2, <2>7, <3>2 DEF MapOwner, Primaries
    <3>4. \A w \in Openers : onboarding'[w].pc # "demote"
          BY <1>3, <1>4, <2>5, <2>7 DEF Owning
    <3>5. QED BY <2>5, <3>3, <3>4 DEF MappedInv
  <2>8. CASE \E w \in Openers : DemoteMapping(v, w)
    <3>1. PICK w \in Openers : DemoteMapping(v, w)
          BY <2>8
    <3>2. Primaries' \subseteq Primaries \ {w}
          BY <1>2, <3>1 DEF DemoteMapping, Primaries
    <3>3. Primaries \subseteq onboarding[v].demotes
          BY <2>3, <3>1 DEF DemoteMapping
    <3>4. onboarding'[v].demotes = onboarding[v].demotes \ {w}
          BY <1>2, <3>1 DEF DemoteMapping, OnboardingInv, OnboardingTypes, Calls, OnboardingCalls
    <3>5. \A x \in Openers : onboarding'[x].pc = "demote" => Primaries' \subseteq onboarding'[x].demotes
          BY <2>5, <3>2, <3>3, <3>4 DEF Owning
    <3>6. QED BY <2>3, <2>5, <3>2, <3>5 DEF MappedInv
  <2>9. QED BY <2>6, <2>7, <2>8
<1>13. QED BY <1>8, <1>9, <1>10, <1>11, <1>12 DEF OnboardingInv

LEMMA OnboardingStart == OnboardingInit => OnboardingInv
<1> SUFFICES ASSUME OnboardingInit PROVE OnboardingInv
    OBVIOUS
<1>1. /\ staged = <<>> /\ crossed = {} /\ owner = [v \in Openers |-> FALSE]
      /\ mapping = [v \in Openers |-> "none"]
      /\ \A c \in OnboardingCalls : onboarding[c].pc = "new"
      /\ \A v \in Openers : ~Stands(v)
      BY DEF OnboardingInit, NewCall, NoSchool, Stands
<1>2. OnboardingTypes
  <2>1. NewCall \in Calls /\ NoSchool \in SchoolRows
        BY DEF NewCall, NoSchool, Calls, SchoolRows, CallPcs
  <2>2. /\ onboarding \in [OnboardingCalls -> Calls]
        /\ schoolRow \in [Openers -> SchoolRows]
        BY <2>1 DEF OnboardingInit
  <2>3. QED BY <1>1, <2>2 DEF OnboardingTypes, Staging, OnboardingCalls
<1>3. \A v \in Openers : OpenedBy(v)
      BY <1>1 DEF OpenedBy, After, OnboardingCalls
<1>4. NamesInv
  <2>1. \A code, name : ~CodedIn(code, name)
        BY <1>1 DEF CodedIn
  <2>2. QED BY <1>1, <2>1 DEF NamesInv
<1>5. StagedInv
      BY <1>1 DEF StagedInv, Staging, Lives
<1>6. MappedInv
      BY <1>1 DEF MappedInv, Owning, Primaries, OnboardingCalls
<1>7. QED BY <1>2, <1>3, <1>4, <1>5, <1>6 DEF OnboardingInv

LEMMA OnboardingStep ==
    ASSUME OnboardingInv, [OnboardingNext]_onboardingVars
    PROVE  OnboardingInv'
<1>1. CASE UNCHANGED onboardingVars
      BY <1>1 DEF onboardingVars, OnboardingInv, OnboardingTypes, OpenedBy, NamesInv, StagedInv,
         MappedInv, CodedIn, After, Stands, Staging, Lives, Owning, Primaries, Completed
<1>2. ASSUME NEW c \in Registrars,
             (\E name \in SchoolNames : Register(c, name)) \/ RefreshCode(c) \/ SaveStaging(c)
      PROVE  OnboardingInv'
      BY <1>2, RegistrarReadsInv, SaveInv
<1>3. ASSUME NEW v \in Openers,
             \/ \E i \in 1..Len(staged) : VerifyCode(v, i)
             \/ CreateSchool(v) \/ ConsumeStaging(v)
      PROVE  OnboardingInv'
      BY <1>3, VerifyInv, CreateInv, ConsumeInv
<1>4. ASSUME NEW v \in Openers,
             \/ AnnounceSchool(v) \/ ProvisionSchool(v) \/ MarkReady(v)
             \/ InsertOwner(v) \/ ClearHash(v)
      PROVE  OnboardingInv'
      BY <1>4, BackgroundInv
<1>5. ASSUME NEW v \in Openers,
             \/ LookUpMappings(v) \/ MapOwner(v) \/ \E w \in Openers : DemoteMapping(v, w)
      PROVE  OnboardingInv'
      BY <1>5, OwningInv
<1>6. ASSUME NEW c \in OnboardingCalls, CutOnboarding(c) PROVE OnboardingInv'
      BY <1>6, CutInv
<1>7. QED BY <1>1, <1>2, <1>3, <1>4, <1>5, <1>6 DEF OnboardingNext

LEMMA OnboardingInvIsSound == OnboardingInv => OnboardingSound
<1> SUFFICES ASSUME OnboardingInv PROVE OnboardingSound
    OBVIOUS
<1>1. ASSUME NEW v \in Openers, NEW w \in Openers,
             Stands(v), Stands(w), schoolRow[v].code = schoolRow[w].code
      PROVE  v = w
  <2>1. /\ CodedIn(schoolRow[v].code, schoolRow[v].name)
        /\ CodedIn(schoolRow[v].code, schoolRow[w].name)
        BY <1>1 DEF CodedIn
  <2>2. QED BY <1>1, <2>1 DEF OnboardingInv, NamesInv
<1>2. ASSUME NEW v \in Openers
      PROVE  /\ Stands(v) /\ ~schoolRow[v].hash => owner[v] /\ mapping[v] # "none"
             /\ Stands(v) /\ onboarding[v].pc = "done" =>
                   \/ schoolRow[v].status = "failed"
                   \/ schoolRow[v].status = "ready" /\ owner[v] /\ ~schoolRow[v].hash
      BY DEF OnboardingInv, OpenedBy, After
<1>3. ASSUME "staged" \notin crossed
      PROVE  Cardinality({v \in Openers : Stands(v)}) <= 1 + Cardinality(
                {v \in Openers : Stands(v) /\ onboarding[v].pc = "cut"})
  <2> DEFINE standing == {v \in Openers : Stands(v)}
             cut == {v \in Openers : Stands(v) /\ onboarding[v].pc = "cut"}
  <2> SUFFICES Cardinality(standing) <= 1 + Cardinality(cut)
      OBVIOUS
  <2>1. IsFiniteSet(cut) /\ Cardinality(cut) \in Nat
    <3>1. IsFiniteSet(cut)
          BY OnboardingAssumption, FS_Subset
    <3>2. QED BY <3>1, FS_CardinalityType
  <2>2. CASE \E v \in Openers : Lives(v)
    <3>1. PICK v \in Openers : Lives(v)
          BY <2>2
    <3>2. \A w \in Openers : Lives(w) => w = v
          BY <1>3, <3>1 DEF OnboardingInv, StagedInv
    <3>3. standing = cut \cup {v} /\ v \notin cut
          BY <3>1, <3>2 DEF Lives
    <3>4. Cardinality(standing) = Cardinality(cut) + 1
          BY <2>1, <3>3, FS_AddElement
    <3>5. QED BY <2>1, <3>4
  <2>3. CASE \A v \in Openers : ~Lives(v)
    <3>1. standing = cut
          BY <2>3 DEF Lives
    <3>2. Cardinality(standing) = Cardinality(cut)
          BY <3>1
    <3> HIDE DEF standing, cut
    <3>3. QED BY <2>1, <3>2
  <2>4. QED BY <2>2, <2>3
<1>4. "mapping" \notin crossed =>
         \A v, w \in Openers : mapping[v] = "active" /\ mapping[w] = "active" => v = w
      BY DEF OnboardingInv, MappedInv, Primaries
<1>5. QED BY <1>1, <1>2, <1>3, <1>4 DEF OnboardingSound

\* What is proved of every state of the schools that are opened.
LEMMA OnboardingAlways == OnboardingSpec => []OnboardingInv
BY OnboardingStart, OnboardingStep, PTL DEF OnboardingSpec

(***************************************************************************)
(* A code makes at most one school, the owner's staged password is given   *)
(* up only for an owner who is there and mapped, and what is not cut ends  *)
(* ready or failed; until calls cross on its rows an address has one       *)
(* school, one more for each that was cut, and one that it logs in to.     *)
(* (control-plane.service.ts createTenantWithOwnerStaging,                 *)
(* verifyOwnerEmail, createPrimaryOwnerUser.)                              *)
(***************************************************************************)
THEOREM SchoolsAreOpened == OnboardingSpec => []OnboardingSound
BY OnboardingAlways, OnboardingInvIsSound, PTL

\* A call has in hand a row that is there, or none.
Placed ==
    /\ \A c \in OnboardingCalls : onboarding[c].at <= Len(staged)
    /\ crossed \subseteq {"staged", "mapping"}

LEMMA PlacedStep ==
    ASSUME OnboardingInv, OnboardingInv', Placed, [OnboardingNext]_onboardingVars
    PROVE  Placed'
<1>1. /\ OnboardingTypes /\ Len(staged) \in Nat /\ Len(staged') \in Nat
      /\ \A c \in OnboardingCalls : /\ onboarding[c].at \in Nat /\ onboarding[c].at <= Len(staged)
                                    /\ onboarding'[c].at \in Nat
      /\ crossed \subseteq {"staged", "mapping"}
      BY DEF OnboardingInv, OnboardingTypes, Calls, Placed
<1>2. ASSUME crossed' \in {crossed, crossed \cup {"staged"}, crossed \cup {"mapping"}},
             Len(staged) <= Len(staged'),
             \A c \in OnboardingCalls : \/ onboarding'[c].at = onboarding[c].at
                                        \/ onboarding'[c].at <= Len(staged)
      PROVE  Placed'
  <2>1. ASSUME NEW c \in OnboardingCalls PROVE onboarding'[c].at <= Len(staged')
    <3>1. /\ onboarding[c].at \in Nat /\ onboarding[c].at <= Len(staged) /\ onboarding'[c].at \in Nat
          /\ onboarding'[c].at = onboarding[c].at \/ onboarding'[c].at <= Len(staged)
          BY <1>1, <1>2
    <3>2. QED BY <1>1, <1>2, <3>1
  <2>2. QED BY <1>1, <1>2, <2>1 DEF Placed
<1>3. ASSUME NEW c \in OnboardingCalls, NEW at, NEW read, NEW pc, Reads(c, pc, at, read),
             at <= Len(staged)
      PROVE  Placed'
  <2>1. \A d \in OnboardingCalls : \/ onboarding'[d].at = onboarding[d].at
                                   \/ onboarding'[d].at <= Len(staged)
        BY <1>1, <1>3 DEF Reads, OnboardingTypes, NewCall
  <2>2. QED BY <1>1, <1>2, <1>3, <2>1 DEF Reads
<1>4. ASSUME NEW c \in OnboardingCalls, NEW pc, GoesOn(c, pc), UNCHANGED crossed,
             Len(staged) <= Len(staged')
      PROVE  Placed'
  <2>1. \A d \in OnboardingCalls : onboarding'[d].at = onboarding[d].at
        BY <1>1, <1>4 DEF GoesOn, OnboardingTypes, Calls
  <2>2. QED BY <1>2, <1>4, <2>1
<1>5. Registrars \subseteq OnboardingCalls /\ Openers \subseteq OnboardingCalls
      BY DEF OnboardingCalls
<1>6. CASE UNCHANGED onboardingVars
      BY <1>6 DEF onboardingVars, Placed
<1>7. ASSUME NEW c \in Registrars, RefreshCode(c) \/ \E name \in SchoolNames : Register(c, name)
      PROVE  Placed'
  <2>1. PICK read : Reads(c, "save", Len(staged), read)
        BY <1>7 DEF RefreshCode, Register
  <2>2. QED BY <1>1, <1>3, <1>5, <2>1
<1>8. ASSUME NEW c \in Registrars, SaveStaging(c) PROVE Placed'
  <2>1. Len(staged) <= Len(staged')
        BY <1>1, <1>8 DEF SaveStaging, OnboardingTypes, OnboardingCalls, Calls
  <2>2. QED BY <1>4, <1>5, <1>8, <2>1 DEF SaveStaging
<1>9. ASSUME NEW v \in Openers, NEW i \in 1..Len(staged), VerifyCode(v, i) PROVE Placed'
      BY <1>1, <1>3, <1>5, <1>9 DEF VerifyCode
<1>10. ASSUME NEW v \in Openers, ConsumeStaging(v) PROVE Placed'
  <2>1. Len(staged') = Len(staged)
        BY <1>1, <1>10 DEF ConsumeStaging, OnboardingTypes
  <2>2. QED BY <1>1, <1>4, <1>5, <1>10, <2>1 DEF ConsumeStaging
<1>11. ASSUME NEW v \in Openers,
              \/ CreateSchool(v) \/ AnnounceSchool(v) \/ ProvisionSchool(v)
              \/ MarkReady(v) \/ MapOwner(v) \/ InsertOwner(v) \/ ClearHash(v)
       PROVE  Placed'
  <2>1. /\ \E pc : GoesOn(v, pc)
        /\ UNCHANGED <<staged, crossed>>
        BY <1>11 DEF CreateSchool, AnnounceSchool, ProvisionSchool, MarkReady, MapOwner, InsertOwner,
           ClearHash
  <2>2. QED BY <1>1, <1>4, <1>5, <2>1
<1>12. ASSUME NEW v \in Openers, LookUpMappings(v) \/ \E w \in Openers : DemoteMapping(v, w)
       PROVE  Placed'
  <2>1. CASE LookUpMappings(v)
    <3>1. \A d \in OnboardingCalls : onboarding'[d].at = onboarding[d].at
          BY <1>1, <1>5, <2>1 DEF LookUpMappings, OnboardingTypes, Calls
    <3>2. crossed' \in {crossed, crossed \cup {"staged"}, crossed \cup {"mapping"}}
          BY <2>1 DEF LookUpMappings
    <3>3. UNCHANGED staged
          BY <2>1 DEF LookUpMappings
    <3>4. QED BY <1>1, <1>2, <3>1, <3>2, <3>3
  <2>2. ASSUME NEW w \in Openers, DemoteMapping(v, w) PROVE Placed'
    <3>1. \A d \in OnboardingCalls : onboarding'[d].at = onboarding[d].at
          BY <1>1, <1>5, <2>2 DEF DemoteMapping, OnboardingTypes, Calls
    <3>2. QED BY <1>1, <1>2, <2>2, <3>1 DEF DemoteMapping
  <2>3. QED BY <1>12, <2>1, <2>2
<1>13. ASSUME NEW c \in OnboardingCalls, CutOnboarding(c) PROVE Placed'
      BY <1>1, <1>4, <1>13 DEF CutOnboarding
<1>14. QED BY <1>6, <1>7, <1>8, <1>9, <1>10, <1>11, <1>12, <1>13 DEF OnboardingNext

\* Staged rows, calls and schools keep their types.
LEMMA OnboardingTypesHold == OnboardingSpec => []OnboardingTypeOK
<1>1. OnboardingInit => Placed
      BY DEF OnboardingInit, Placed, NewCall
<1>2. OnboardingInv /\ OnboardingInv' /\ Placed /\ [OnboardingNext]_onboardingVars => Placed'
      BY PlacedStep
<1>3. OnboardingInv /\ Placed => OnboardingTypeOK
  <2>1. SUFFICES ASSUME OnboardingTypes, Placed PROVE OnboardingTypeOK
        BY DEF OnboardingInv
  <2>2. \A i \in 1..Len(staged) : staged[i] \in StagedRows
        BY <2>1 DEF OnboardingTypes
  <2>3. ASSUME NEW c \in OnboardingCalls
        PROVE  onboarding[c].pc \in CallPcs /\ onboarding[c].at \in 0..Len(staged)
    <3>1. onboarding[c] \in Calls /\ onboarding[c].at <= Len(staged) /\ Len(staged) \in Nat
          BY <2>1 DEF OnboardingTypes, Placed
    <3>2. QED BY <3>1 DEF Calls
  <2>4. ASSUME NEW v \in Openers
        PROVE  /\ onboarding[v].demotes \subseteq Openers
               /\ schoolRow[v].status \in {"none", "pending", "failed", "ready"}
               /\ mapping[v] \in {"none", "active", "inactive"}
        BY <2>1 DEF OnboardingTypes, OnboardingCalls, Calls, SchoolRows
  <2>5. QED BY <2>1, <2>2, <2>3, <2>4 DEF OnboardingTypes, StagedRows, Placed, OnboardingTypeOK
<1>4. QED BY <1>1, <1>2, <1>3, OnboardingAlways, PTL DEF OnboardingSpec

(***************************************************************************)
(* Schools, owners and families have the accounts that registrations,      *)
(* archives and activation codes gave them, for any number of calls and of *)
(* children. (control-plane.service.ts, users.service.ts,                  *)
(* parent-activation.service.ts.)                                          *)
(***************************************************************************)
THEOREM AccountsDoAgree == OnboardingSpec /\ FamilySpec => []AccountsAgree
BY SchoolsAreOpened, FamiliesDoAgree, PTL DEF AccountsAgree
=============================================================================

--------------------------- MODULE AcademicCalendar ---------------------------
(***************************************************************************)
(* Academic sessions and their terms, and which of them are current.  A    *)
(* handler checks the row it is about and then runs a few statements that  *)
(* commit one by one: todo[r] holds those that request r has yet to run.   *)
(***************************************************************************)
EXTENDS Integers, Sequences, SequencesExt, FiniteSets

CONSTANTS Sessions, Terms,   \* ids the rows may get
          NoSession, NoTerm,
          Planners,          \* requests under way at once
          MaxPlans,          \* bound: requests
          SeedTerms          \* terms of a default calendar

ASSUME CalendarAssumption ==
    /\ SeedTerms \in Nat \ {0} /\ MaxPlans \in Nat
    /\ NoSession \notin Sessions /\ NoTerm \notin Terms

VARIABLES
    calendar,  \* academic_sessions and academic_terms
    used,      \* ids that rows have or had
    todo,      \* the statements each request has yet to run
    kind,      \* what each request is
    plans,     \* how many requests there have been
    listedEmpty, \* is the cached list of sessions empty?
    calm,      \* ghost: no two requests overlapped, and no seeding failed
    led        \* ghost: the last request selected the current term

calendarVars == <<calendar, used, todo, kind, plans, listedEmpty, calm, led>>

EmptyCalendar == [sessions |-> {}, current |-> {}, terms |-> {},
                  of |-> [t \in Terms |-> NoSession], currentTerm |-> {}]

\* The statements.  An UPDATE or DELETE of a row that is gone does nothing.
ClearSessions(except) == [do |-> "clearSessions", session |-> except]
ClearTerms(except) == [do |-> "clearTerms", term |-> except]
PutSession(s, current) == [do |-> "putSession", session |-> s, current |-> current]
AddSession(s, current) == [do |-> "addSession", session |-> s, current |-> current]
PutTerm(t, s, current) == [do |-> "putTerm", term |-> t, session |-> s, current |-> current]
AddTerm(t, s, current) == [do |-> "addTerm", term |-> t, session |-> s, current |-> current]
MarkTerm(t) == [do |-> "markTerm", term |-> t]
DropTermsOf(s) == [do |-> "dropTermsOf", session |-> s]
DropSession(s) == [do |-> "dropSession", session |-> s]
DropTerm(t) == [do |-> "dropTerm", term |-> t]
Relist == [do |-> "relist"]

Toggle(S, x, on) == IF on THEN S \cup {x} ELSE S \ {x}
TermsOf(d, s) == {t \in d.terms : d.of[t] = s}

\* Mutation of MarkedTerm, not part of the specification: a term that has
\* been deleted meanwhile is marked, too.
MutMarkedTerm(d, t) == [d EXCEPT !.currentTerm = @ \cup {t}]

MarkedTerm(d, t) == [d EXCEPT !.currentTerm = @ \cup ({t} \cap d.terms)]

\* What a statement makes of the tables.
Run(d, st) ==
    CASE st.do = "clearSessions" -> [d EXCEPT !.current = @ \cap {st.session}]
      [] st.do = "clearTerms"    -> [d EXCEPT !.currentTerm = @ \cap {st.term}]
      [] st.do = "addSession"    -> [d EXCEPT !.sessions = @ \cup {st.session},
                                        !.current = Toggle(@, st.session, st.current)]
      [] st.do = "putSession" /\ st.session \in d.sessions ->
             [d EXCEPT !.current = Toggle(@, st.session, st.current)]
      [] st.do = "addTerm" \/ (st.do = "putTerm" /\ st.term \in d.terms) ->
             [d EXCEPT !.terms = @ \cup {st.term}, !.of[st.term] = st.session,
                       !.currentTerm = Toggle(@, st.term, st.current)]
      [] st.do = "markTerm"      -> MarkedTerm(d, st.term)
      [] st.do = "dropTerm" ->
             [d EXCEPT !.terms = @ \ {st.term}, !.currentTerm = @ \ {st.term}]
      [] st.do = "dropTermsOf" ->
             [d EXCEPT !.terms = @ \ TermsOf(d, st.session),
                       !.currentTerm = @ \ TermsOf(d, st.session)]
      [] st.do = "dropSession" ->
             [d EXCEPT !.sessions = @ \ {st.session}, !.current = @ \ {st.session}]
      [] OTHER -> d

-----------------------------------------------------------------------------
(* Mutations of definitions below; not part of the specification.          *)

\* The session goes first, and its terms after it.
MutDeleteSessionStatements(s) == <<DropSession(s), DropTermsOf(s)>>
\* The session of the selected term is not made current.
MutSetCurrentTermStatements(t, s) == <<ClearTerms(NoTerm), MarkTerm(t)>>

-----------------------------------------------------------------------------
CalendarInit ==
    /\ calendar = EmptyCalendar /\ used = {}
    /\ todo = [r \in Planners |-> <<>>]
    /\ kind = [r \in Planners |-> "term"] /\ plans = 0 /\ listedEmpty = FALSE
    /\ calm = TRUE /\ led = FALSE

\* A request that passed its checks has these statements to run.
Begin(r, what, statements, ids) ==
    /\ todo[r] = <<>> /\ plans < MaxPlans
    /\ plans' = plans + 1
    /\ todo' = [todo EXCEPT ![r] = statements]
    /\ kind' = [kind EXCEPT ![r] = what]
    /\ used' = used \cup ids
    /\ calm' = (calm /\ \A q \in Planners : todo[q] = <<>>)
    /\ led' = FALSE
    /\ UNCHANGED <<calendar, listedEmpty>>

CreateSession(r, s, current) ==
    /\ s \notin used
    /\ Begin(r, "session", IF current THEN <<ClearSessions(NoSession), AddSession(s, TRUE)>>
                     ELSE <<AddSession(s, FALSE)>>, {s})

\* is_current keeps the value that was read, unless the request sets it.
UpdateSession(r, s, asked) ==
    LET current == IF asked = "unset" THEN s \in calendar.current ELSE asked = "yes" IN
    /\ s \in calendar.sessions
    /\ Begin(r, "session", (IF current THEN <<ClearSessions(s)>> ELSE <<>>)
                     \o <<PutSession(s, current)>>, {})

DeleteSessionStatements(s) == <<DropTermsOf(s), DropSession(s)>>
DeleteSession(r, s) ==
    s \in calendar.sessions /\ Begin(r, "session", DeleteSessionStatements(s), {})

SetCurrentSession(r, s) ==
    /\ s \in calendar.sessions
    /\ Begin(r, "session", <<ClearSessions(NoSession), PutSession(s, TRUE)>>, {})

CreateTerm(r, t, s, current) ==
    /\ s \in calendar.sessions /\ t \notin used
    /\ Begin(r, "term", (IF current THEN <<ClearTerms(NoTerm)>> ELSE <<>>)
                     \o <<AddTerm(t, s, current)>>, {t})

UpdateTerm(r, t, s, asked) ==
    LET current == IF asked = "unset" THEN t \in calendar.currentTerm ELSE asked = "yes" IN
    /\ t \in calendar.terms /\ s \in calendar.sessions \cup {calendar.of[t]}
    /\ Begin(r, "term", (IF current THEN <<ClearTerms(t)>> ELSE <<>>)
                     \o <<PutTerm(t, s, current)>>, {})

DeleteTerm(r, t) == t \in calendar.terms /\ Begin(r, "term", <<DropTerm(t)>>, {})

\* "Keep session current in sync with the selected term's session".
SetCurrentTermStatements(t, s) ==
    <<ClearTerms(NoTerm), MarkTerm(t), ClearSessions(NoSession), PutSession(s, TRUE)>>
SetCurrentTerm(r, t) ==
    /\ t \in calendar.terms
    /\ Begin(r, "lead", SetCurrentTermStatements(t, calendar.of[t]), {})

\* getCalendar seeds a default calendar when the list of sessions, which may
\* come from the cache, is empty; and then reads it anew.
SeedCalendar(r, s, newTerms) ==
    /\ listedEmpty \/ calendar.sessions = {}
    /\ s \notin used /\ ToSet(newTerms) \cap used = {}
    /\ Cardinality(ToSet(newTerms)) = SeedTerms
    /\ \E current \in 1 .. SeedTerms :
          Begin(r, "seed", <<AddSession(s, TRUE)>>
                   \o [i \in 1 .. SeedTerms |-> AddTerm(newTerms[i], s, i = current)]
                   \o <<Relist>>, {s} \cup ToSet(newTerms))

\* The empty list stays in the cache until it expires, is read anew, or a
\* handler that changes the sessions invalidates it.
CacheEmptyList ==
    /\ calendar.sessions = {} /\ ~listedEmpty
    /\ listedEmpty' = TRUE
    /\ UNCHANGED <<calendar, used, todo, kind, plans, calm, led>>

ExpireEmptyList ==
    /\ listedEmpty
    /\ listedEmpty' = FALSE
    /\ UNCHANGED <<calendar, used, todo, kind, plans, calm, led>>

\* The last statement, and the invalidation that follows it.
Ends(r) == Len(todo[r]) = 1

Statement(r) ==
    /\ todo[r] # <<>>
    /\ calendar' = Run(calendar, Head(todo[r]))
    /\ todo' = [todo EXCEPT ![r] = Tail(@)]
    /\ listedEmpty' = (IF Ends(r) /\ kind[r] = "seed" THEN calendar.sessions = {}
                       ELSE listedEmpty /\ (Ends(r) => kind[r] = "term"))
    /\ led' = (Ends(r) /\ kind[r] = "lead")
    /\ UNCHANGED <<used, kind, plans, calm>>

\* A statement fails: the request ends there, and invalidates nothing.
FailStatement(r) ==
    /\ todo[r] # <<>>
    /\ todo' = [todo EXCEPT ![r] = <<>>]
    /\ calm' = (calm /\ kind[r] # "seed")
    /\ UNCHANGED <<calendar, used, kind, plans, listedEmpty, led>>

-----------------------------------------------------------------------------
CalendarNext ==
    \/ CacheEmptyList \/ ExpireEmptyList
    \/ \E r \in Planners :
          \/ Statement(r) \/ FailStatement(r)
          \/ \E s \in Sessions :
                \/ DeleteSession(r, s) \/ SetCurrentSession(r, s)
                \/ \E current \in BOOLEAN : CreateSession(r, s, current)
                \/ \E asked \in {"unset", "yes", "no"} : UpdateSession(r, s, asked)
                \/ \E new \in TupleOf(Terms, SeedTerms) : SeedCalendar(r, s, new)
          \/ \E t \in Terms :
                \/ DeleteTerm(r, t) \/ SetCurrentTerm(r, t)
                \/ \E s \in Sessions, current \in BOOLEAN : CreateTerm(r, t, s, current)
                \/ \E s \in Sessions, asked \in {"unset", "yes", "no"} : UpdateTerm(r, t, s, asked)

CalendarSpec == CalendarInit /\ [][CalendarNext]_calendarVars

CalendarTypeOK ==
    /\ calendar.sessions \subseteq Sessions /\ calendar.current \subseteq calendar.sessions
    /\ calendar.terms \subseteq Terms /\ calendar.currentTerm \subseteq calendar.terms
    /\ calendar.of \in [Terms -> Sessions \cup {NoSession}]
    /\ calendar.sessions \cup calendar.terms \subseteq used
    /\ kind \in [Planners -> {"session", "term", "lead", "seed"}]
    /\ plans \in 0 .. MaxPlans /\ {listedEmpty, calm, led} \subseteq BOOLEAN

(***************************************************************************)
(* As long as requests did not overlap, wherever each of them was cut      *)
(* short: at most one session and one term are current, no term is without *)
(* its session, and right after a term has been selected its session is    *)
(* the current one.  (academic.service.ts, the session and term handlers;  *)
(* setCurrentTerm: "Keep session current in sync with the selected term's  *)
(* session".  A seeding that fails is the exception: the empty list it     *)
(* found stays cached, and the next reader seeds a second calendar.)       *)
(***************************************************************************)
CalendarSound ==
    calm => /\ Cardinality(calendar.current) <= 1
            /\ Cardinality(calendar.currentTerm) <= 1
            /\ \A t \in calendar.terms : calendar.of[t] \in calendar.sessions
            /\ led => calendar.current = {calendar.of[t] : t \in calendar.currentTerm}
=============================================================================

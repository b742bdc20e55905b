---------------------------- MODULE ProviderSwitch ----------------------------
(***************************************************************************)
(* The provider a capability uses: staff switch it, a second operator      *)
(* approves what touches a live one, and tests note its health.  Each call *)
(* reads in a transaction, computes, and at commit writes the columns that *)
(* differ from what it read.  Dual control is on, as it is in production.  *)
(***************************************************************************)
EXTENDS Naturals, FiniteSets

CONSTANTS Switches,     \* calls that set the provider, or approve a request to
          HealthTests, ProviderIds, NoSwitch,
          SwitchCasts   \* which of the calls are made, in one behaviour

ASSUME NoSwitchAssumption == NoSwitch \notin Switches

VARIABLES
    configs,    \* provider_configs of the capability, by the call that made the row
    switch,     \* where each call is, the row it read and the one it wants
    awaiting,   \* requests of dual control not executed yet, by the call that made them
    test,       \* where each test is, and the row it read
    granted,    \* ghost: what the second operators approved
    everLive,   \* ghost: rows that have been live
    measured,   \* ghost: the result of the last test of each row
    rushed      \* ghost: kinds of calls that committed while another was at work

switchVars == <<configs, switch, awaiting, test, granted, everLive, measured, rushed>>

Modes == {"sandbox", "live"}
Health == {"unknown", "green", "amber", "red"}
NoProvider == [provider |-> "none", mode |-> "none", health |-> "none"]
IdleSwitch == [pc |-> "new", row |-> NoSwitch, read |-> NoProvider, want |-> NoProvider]
ProviderRows == {s \in Switches : configs[s] # NoProvider}
Switching(c) == switch[c].pc \in {"set", "approved"}
EndsSwitch(c) == switch' = [switch EXCEPT ![c].pc = "done"]

\* scalar_one_or_none: an error when there are two rows.
TheConfig == IF ProviderRows = {} THEN NoSwitch ELSE CHOOSE s \in ProviderRows : TRUE
Row(s) == IF s = NoSwitch THEN NoProvider ELSE configs[s]

\* The call's row at commit: made by it, or with the columns it changed.
Written(read, want, now) ==
    [column \in DOMAIN now |-> IF want[column] # read[column] THEN want[column] ELSE now[column]]

-----------------------------------------------------------------------------
(* Mutations of definitions below; not part of the specification.          *)

MutNeedsDual(read, mode) == mode = "live"
MutNewColumns(c) == switch[c].want
MutTestResult(t, health) == IF health = "red" THEN test[t].read.health ELSE health

-----------------------------------------------------------------------------
SwitchInit ==
    \* with or without a sandbox row of the seed
    /\ \E cast \in SwitchCasts, provider \in ProviderIds, seed \in Switches \cup {NoSwitch} :
          /\ seed \notin cast
          /\ configs = [s \in Switches |-> IF s # seed THEN NoProvider
                ELSE [provider |-> provider, mode |-> "sandbox", health |-> "unknown"]]
          /\ switch = [s \in Switches |->
                [IdleSwitch EXCEPT !.pc = IF s \in cast THEN "new" ELSE "done"]]
          /\ test = [t \in HealthTests |->
                [pc |-> IF t \in cast THEN "new" ELSE "done",
                 row |-> NoSwitch, read |-> NoProvider]]
    /\ awaiting = [s \in Switches |-> IdleSwitch]
    /\ granted = {} /\ everLive = {} /\ rushed = {}
    /\ measured = [s \in Switches |-> "unknown"]

\* set_config: what crosses the live boundary is requested, with the row's id
\* or, before there is a row, without one.
NeedsDual(read, mode) == mode = "live" \/ read.mode = "live"
SetProvider(c, provider, mode) ==
    /\ switch[c].pc = "new" /\ Cardinality(ProviderRows) <= 1
    /\ LET s == TheConfig
           asked == [pc |-> "set", row |-> s, read |-> Row(s),
                     want |-> [provider |-> provider, mode |-> mode,
                               health |-> IF s = NoSwitch THEN "unknown" ELSE Row(s).health]]
       IN IF NeedsDual(Row(s), mode)
          THEN /\ awaiting' = [awaiting EXCEPT ![c] = asked]
               /\ EndsSwitch(c)
          ELSE switch' = [switch EXCEPT ![c] = asked] /\ UNCHANGED awaiting
    /\ UNCHANGED <<configs, test, granted, everLive, measured, rushed>>

\* _execute, with the request locked: the row of the request, or else the one
\* there is by now.  Where there is none it inserts one without a provider_id,
\* which the table refuses: the approval is rolled back and changes nothing.
ExecuteSwitch(c, r) ==
    /\ switch[c].pc = "new" /\ awaiting[r].pc = "set"
    /\ awaiting[r].row = NoSwitch => Cardinality(ProviderRows) = 1
    /\ LET s == IF awaiting[r].row # NoSwitch THEN awaiting[r].row ELSE TheConfig IN
       switch' = [switch EXCEPT ![c] =
          [pc |-> "approved", row |-> s, read |-> Row(s),
           want |-> [awaiting[r].want EXCEPT !.health = Row(s).health]]]
    /\ awaiting' = [awaiting EXCEPT ![r].pc = "done"]
    /\ UNCHANGED <<configs, test, granted, everLive, measured, rushed>>

NewColumns(c) ==
    IF switch[c].row = NoSwitch THEN switch[c].want
    ELSE Written(switch[c].read, switch[c].want, configs[switch[c].row])

CommitSwitch(c) ==
    /\ Switching(c)
    /\ LET s == IF switch[c].row = NoSwitch THEN c ELSE switch[c].row IN
       /\ configs' = [configs EXCEPT ![s] = NewColumns(c)]
       /\ everLive' = IF NewColumns(c).mode = "live" THEN everLive \cup {s} ELSE everLive
    /\ granted' = IF switch[c].pc = "approved"
          THEN granted \cup {[provider |-> switch[c].want.provider, mode |-> switch[c].want.mode]}
          ELSE granted
    /\ rushed' = rushed \cup {"switch" : d \in {e \in Switches \ {c} : Switching(e)}}
    /\ EndsSwitch(c)
    /\ UNCHANGED <<awaiting, test, measured>>

\* test_connection and synthetics: the vendor is asked between read and commit.
BeginTest(t, s) ==
    /\ test[t].pc = "new" /\ s \in ProviderRows
    /\ test' = [test EXCEPT ![t] = [pc |-> "ping", row |-> s, read |-> configs[s]]]
    /\ UNCHANGED <<configs, switch, awaiting, granted, everLive, measured, rushed>>

\* ping_provider: amber when credentials are missing, red when the vendor fails.
TestResult(t, health) == health
CommitTest(t, health) ==
    /\ test[t].pc = "ping" /\ health # "unknown"
    /\ LET s == test[t].row IN
       /\ configs' = [configs EXCEPT ![s] = Written(test[t].read,
                        [test[t].read EXCEPT !.health = TestResult(t, health)], @)]
       /\ measured' = [measured EXCEPT ![s] = health]
       /\ rushed' = rushed \cup {"test" : u \in {v \in HealthTests \ {t} : test[v].pc = "ping"}}
    /\ test' = [test EXCEPT ![t].pc = "done"]
    /\ UNCHANGED <<switch, awaiting, granted, everLive>>

SwitchNext ==
    \/ \E c \in Switches :
          \/ \E provider \in ProviderIds, mode \in Modes : SetProvider(c, provider, mode)
          \/ \E r \in Switches : ExecuteSwitch(c, r)
          \/ CommitSwitch(c)
    \/ \E t \in HealthTests :
          (\E s \in Switches : BeginTest(t, s)) \/ \E health \in Health : CommitTest(t, health)

SwitchSpec == SwitchInit /\ [][SwitchNext]_switchVars

ConfigRows == [provider : ProviderIds, mode : Modes, health : Health] \cup {NoProvider}
SwitchRows == [pc : {"new", "set", "approved", "done"}, row : Switches \cup {NoSwitch},
               read : ConfigRows, want : ConfigRows]
SwitchTypeOK ==
    /\ configs \in [Switches -> ConfigRows]
    /\ \A s \in Switches : switch[s] \in SwitchRows /\ awaiting[s] \in SwitchRows
    /\ \A t \in HealthTests : test[t].row \in Switches \cup {NoSwitch}
    /\ granted \subseteq [provider : ProviderIds, mode : Modes]
    /\ everLive \subseteq Switches /\ measured \in [Switches -> Health]
    /\ rushed \subseteq {"switch", "test"}

(***************************************************************************)
(* A capability goes live, and leaves it, only by a request that a second  *)
(* operator approved, however calls overlap; while they do not, a live     *)
(* capability uses a provider that was approved for it, there is one row,  *)
(* and its health is what the last test of it found.                       *)
(* (providers.py set_config: "Any change that crosses the live boundary    *)
(* needs dual-control"; test_connection; dual_control.py _execute.)        *)
(***************************************************************************)
SwitchesAreApproved ==
    /\ \A s \in ProviderRows :
          /\ configs[s].mode = "live" => \E g \in granted : g.mode = "live"
          /\ s \in everLive /\ configs[s].mode = "sandbox" => \E g \in granted : g.mode = "sandbox"
          /\ configs[s].mode = "live" /\ "switch" \notin rushed
                => [provider |-> configs[s].provider, mode |-> "live"] \in granted
          /\ rushed = {} => configs[s].health = measured[s]
    /\ Cardinality(ProviderRows) > 1 => "switch" \in rushed
=============================================================================

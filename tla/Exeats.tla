-------------------------------- MODULE Exeats --------------------------------
(***************************************************************************)
(* One exeat: a request for a student to leave school, which a form        *)
(* teacher reviews and a leader decides, or a parent confirms, and a pass  *)
(* that opens the gate.  Every call reads the row, judges what it read and *)
(* writes by id; a call that stops in between just never goes on.          *)
(***************************************************************************)
EXTENDS Naturals

CONSTANTS FormTeachers, Leaders, Wards, Gates,  \* calls: review, decide, confirm, redeem
          NoRuler

\* Each call is of one trade.
ASSUME ExeatAssumption ==
    /\ FormTeachers \cap Leaders = {} /\ (FormTeachers \cup Leaders) \cap Wards = {}
    /\ (FormTeachers \cup Leaders \cup Wards) \cap Gates = {}
    /\ NoRuler \notin FormTeachers \cup Leaders \cup Wards

VARIABLES
    exeat,      \* the row of safeguarding_exeats
    desk,       \* where each call is, and what it will write
    exits,      \* ghost: how often the gate let the student out
    refused,    \* ghost: a decline was written
    ruling      \* ghost: pairs of calls of one trade that were at work together

exeatVars == <<exeat, desk, exits, refused, ruling>>

Rulers == FormTeachers \cup Leaders \cup Wards
Desks == Rulers \cup Gates
ExeatKinds == {"parent_initiated", "school_initiated"}
ExeatStatus == {"pending_parent", "pending_form_teacher", "pending_principal",
                "declined", "approved", "used"}

AtDesk(c) == desk[c] \in {"approve", "decline", "confirm", "open"}
Awaits(status) == exeat.status = status
LeavesDesk(c) == desk' = [desk EXCEPT ![c] = "done"]
TakesUp(c, what) ==
    /\ desk[c] = "new"
    /\ desk' = [desk EXCEPT ![c] = what]
    /\ ruling' = ruling \cup IF c \in Gates
          THEN {"gates" : d \in {e \in Gates : AtDesk(e)}}
          ELSE {"rulers" : d \in {e \in Rulers : AtDesk(e)}}
    /\ UNCHANGED <<exeat, exits, refused>>

-----------------------------------------------------------------------------
(* Mutations of definitions below; not part of the specification.          *)

MutDecidable == {"pending_parent", "pending_form_teacher", "pending_principal"}
MutGatePasses == exeat.status = "approved"
MutWriteDecline(c) ==
    /\ desk[c] = "decline"
    /\ exeat' = [exeat EXCEPT !.ruler = c]
    /\ refused' = TRUE
    /\ LeavesDesk(c) /\ UNCHANGED <<exits, ruling>>

-----------------------------------------------------------------------------
\* createExeat: a school's own request asks the parent, a parent's the form
\* teacher, or the leaders when the class has none.
ExeatInit ==
    /\ \E kind \in ExeatKinds, status \in ExeatStatus :
          /\ status \in IF kind = "school_initiated" THEN {"pending_parent"}
                        ELSE {"pending_form_teacher", "pending_principal"}
          /\ exeat = [kind |-> kind, status |-> status, ruler |-> NoRuler, pass |-> FALSE,
                      confirmed |-> FALSE, gateUsed |-> FALSE]
    /\ desk = [c \in Desks |-> "new"]
    /\ exits = 0 /\ refused = FALSE /\ ruling = {}

\* review, by the form teacher or a leader.
ReadForReview(c, decision) ==
    /\ Awaits("pending_form_teacher")
    /\ TakesUp(c, decision)

WriteReview(c) ==
    /\ desk[c] = "approve" /\ c \in FormTeachers
    /\ exeat' = [exeat EXCEPT !.status = "pending_principal"]
    /\ LeavesDesk(c) /\ UNCHANGED <<exits, refused, ruling>>

\* decide, by a leader.
Decidable == {"pending_form_teacher", "pending_principal"}
ReadForDecision(c, decision) ==
    /\ exeat.status \in Decidable
    /\ TakesUp(c, decision)

WriteDecline(c) ==
    /\ desk[c] = "decline"
    /\ exeat' = [exeat EXCEPT !.status = "declined", !.ruler = IF c \in Leaders THEN c ELSE @]
    /\ refused' = TRUE
    /\ LeavesDesk(c) /\ UNCHANGED <<exits, ruling>>

\* issuePass keeps the one who ruled first, and gives a new code and hours.
IssuePass(c) == exeat' = [exeat EXCEPT !.status = "approved", !.pass = TRUE,
                            !.ruler = IF @ = NoRuler THEN c ELSE @]

WriteApproval(c) ==
    /\ desk[c] = "approve" /\ c \in Leaders
    /\ IssuePass(c)
    /\ LeavesDesk(c) /\ UNCHANGED <<exits, refused, ruling>>

\* confirmParentOtp, with the code sent to the parents; it issues the pass and
\* notes the confirmation in a statement of its own.
ReadForConsent(c) ==
    /\ Awaits("pending_parent")
    /\ TakesUp(c, "approve")

ConsentIssuesPass(c) ==
    /\ desk[c] = "approve" /\ c \in Wards
    /\ IssuePass(c)
    /\ desk' = [desk EXCEPT ![c] = "confirm"]
    /\ UNCHANGED <<exits, refused, ruling>>

NoteConsent(c) ==
    /\ desk[c] = "confirm"
    /\ exeat' = [exeat EXCEPT !.confirmed = TRUE]
    /\ LeavesDesk(c) /\ UNCHANGED <<exits, refused, ruling>>

\* redeemPass, with the row's present code, in its hours.
GatePasses == ~ exeat.gateUsed /\ exeat.status = "approved"
PresentPass(c) ==
    /\ exeat.pass /\ GatePasses
    /\ TakesUp(c, "open")

OpenGate(c) ==
    /\ desk[c] = "open"
    /\ exeat' = [exeat EXCEPT !.status = "used", !.gateUsed = TRUE]
    /\ exits' = exits + 1
    /\ LeavesDesk(c) /\ UNCHANGED <<refused, ruling>>

ExeatNext ==
    \/ \E c \in FormTeachers, decision \in {"approve", "decline"} : ReadForReview(c, decision)
    \/ \E c \in Leaders, decision \in {"approve", "decline"} : ReadForDecision(c, decision)
    \/ \E c \in FormTeachers : WriteReview(c)
    \/ \E c \in Leaders : WriteApproval(c)
    \/ \E c \in FormTeachers \cup Leaders : WriteDecline(c)
    \/ \E c \in Wards : ReadForConsent(c) \/ ConsentIssuesPass(c) \/ NoteConsent(c)
    \/ \E c \in Gates : PresentPass(c) \/ OpenGate(c)

ExeatTypeOK ==
    /\ exeat \in [kind : ExeatKinds, status : ExeatStatus, ruler : Rulers \cup {NoRuler},
                  pass : BOOLEAN, confirmed : BOOLEAN, gateUsed : BOOLEAN]
    /\ desk \in [Desks -> {"new", "approve", "decline", "confirm", "open", "done"}]
    /\ exits \in Nat /\ refused \in BOOLEAN /\ ruling \subseteq {"gates", "rulers"}

(***************************************************************************)
(* A pass lets the student out once, unless two gates scan it at one time, *)
(* even when overlapping decisions reopen an exeat already used; a request *)
(* of the school lets nobody out without the parent, and one of a parent   *)
(* not without a leader; and while decisions do not overlap, a declined    *)
(* request never opens the gate.  (safeguarding.service.ts review, decide, *)
(* confirmParentOtp, redeemPass.)                                          *)
(***************************************************************************)
ExitsAllowed ==
    /\ exits > 1 => "gates" \in ruling
    /\ exits > 0 =>
          /\ exeat.kind = "school_initiated" =>
                /\ exeat.ruler \in Wards
                /\ exeat.confirmed \/ \E c \in Wards : desk[c] = "confirm"
          /\ exeat.kind = "parent_initiated" => exeat.ruler \in Leaders
          /\ refused => "rulers" \in ruling
=============================================================================

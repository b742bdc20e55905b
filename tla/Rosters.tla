------------------------------- MODULE Rosters -------------------------------
(***************************************************************************)
(* The lists that requests keep of who belongs to what: links, replaced by *)
(* the whole list, and a student's enrolments, moved by promotions.        *)
(***************************************************************************)
EXTENDS Links, Promotions

(***************************************************************************)
(* Who is linked to what, and enrolled where, is what the requests agree   *)
(* on.  (academic.service.ts, the link handlers and promoteStudent.)       *)
(***************************************************************************)
RostersAgree == LinksAgree /\ StudentsAreEnrolled
=============================================================================

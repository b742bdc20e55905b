--------------------------- MODULE StaffAttendance ---------------------------
(***************************************************************************)
(* One day's sign-in of staff, by fingerprint or with the code the school  *)
(* hands out, which is replaced each time it is used.  The code lives in   *)
(* the organization's attendance_config, one JSON value that the settings  *)
(* page and the replacement of the code both read, change and write whole. *)
(***************************************************************************)
EXTENDS Integers, FiniteSets

CONSTANTS Staff,
          Nobody,
          Signers,    \* sign-in requests, and requests for a new code
          Savers,     \* saves of the settings page
          MaxCodes    \* bound: codes generated

ASSUME AttendanceAssumption ==
    MaxCodes \in Nat \ {0} /\ Nobody \notin Staff /\ IsFiniteSet(Signers)

VARIABLES
    config,      \* business_org.attendance_config: the code, and the settings
    codes,       \* codes generated so far
    signer,      \* where each of these requests is, and what it has read
    saver,       \* the same for the saves
    signedIn,    \* attendance_staff: the day's rows of each member of staff
    admitted,    \* ghost: sign-ins let in with each code
    lastSaved,   \* ghost: the settings last saved
    entangled,   \* ghost: have two writers of the config overlapped?
    doubled,     \* ghost: staff of whom two sign-ins overlapped
    through,     \* ghost: staff of whom a sign-in got through
    cutShort     \* ghost: staff whose row a sign-in deleted and did not replace

attendanceVars == <<config, codes, signer, saver, signedIn, admitted, lastSaved,
                    entangled, doubled, through, cutShort>>

Codes == 0 .. MaxCodes      \* 0: no code
Settings == Savers \cup {Nobody}
Configs == [code : Codes, settings : Settings]
SignerPcs == {"new", "code", "renew", "replace", "delete", "insert", "done"}
NoConfig == [code |-> 0, settings |-> Nobody]

-----------------------------------------------------------------------------
(* Mutations of definitions below; not part of the specification.          *)

\* The code that has been used stays.
MutNewCode(read, code) == IF read.code = 0 THEN [read EXCEPT !.code = code] ELSE read

-----------------------------------------------------------------------------
AttendanceInit ==
    /\ config = NoConfig /\ codes = 0
    /\ signer = [r \in Signers |-> [pc |-> "new", staff |-> Nobody, code |-> 0,
                                    config |-> NoConfig]]
    /\ saver = [v \in Savers |-> [pc |-> "new", code |-> 0]]
    /\ signedIn = [m \in Staff |-> 0]
    /\ admitted = [c \in Codes |-> 0] /\ lastSaved = Nobody
    /\ entangled = FALSE /\ doubled = {} /\ through = {} /\ cutShort = {}

\* Requests that have read the config and will write it.
Writers == {r \in Signers : signer[r].pc \in {"renew", "replace"}}
             \cup {v \in Savers : saver[v].pc = "write"}

SigningIn(m) == {r \in Signers : signer[r].staff = m /\ signer[r].pc \notin {"new", "done"}}

\* The role, the window and assertNotAlreadyVerified have been checked.
Admit(r, m, pc, code) ==
    /\ signer[r].pc = "new" /\ signedIn[m] = 0
    /\ signer' = [signer EXCEPT ![r] = [pc |-> pc, staff |-> m, code |-> code,
                                        config |-> NoConfig]]
    /\ doubled' = IF SigningIn(m) = {} THEN doubled ELSE doubled \cup {m}
    /\ UNCHANGED <<config, codes, saver, signedIn, admitted, lastSaved, entangled, through, cutShort>>

\* markStaffAttendance: the assertion is consumed without an await.
BeginFingerprint(r, m) == Admit(r, m, "delete", 0)

\* markStaffAttendanceWithManualCode.
BeginManual(r, m, code) == Admit(r, m, "code", code)

\* consumeManualVerificationCode.
CompareCode(r) ==
    /\ signer[r].pc = "code"
    /\ signer' = [signer EXCEPT ![r].pc =
          IF config.code = signer[r].code THEN "renew" ELSE "done"]
    /\ entangled' = (entangled \/ Writers # {})
    /\ UNCHANGED <<config, codes, saver, signedIn, admitted, lastSaved, doubled, through, cutShort>>

\* The admin asks for the code, and there is none yet, or for a new one.
AskCode(r) ==
    /\ signer[r].pc = "new"
    /\ signer' = [signer EXCEPT ![r].pc = "renew"]
    /\ entangled' = (entangled \/ Writers # {})
    /\ UNCHANGED <<config, codes, saver, signedIn, admitted, lastSaved, doubled, through, cutShort>>

\* regenerateManualVerificationCode: the config is read once more ...
ReadConfig(r) ==
    /\ signer[r].pc = "renew"
    /\ signer' = [signer EXCEPT ![r].pc = "replace", ![r].config = config]
    /\ UNCHANGED <<config, codes, saver, signedIn, admitted, lastSaved, entangled,
                   doubled, through, cutShort>>

\* ... and written with a new code in it.
NewCode(read, code) == [read EXCEPT !.code = code]

WriteCode(r) ==
    LET m == signer[r].staff IN
    /\ signer[r].pc = "replace" /\ codes < MaxCodes
    /\ codes' = codes + 1
    /\ config' = NewCode(signer[r].config, codes + 1)
    /\ signer' = [signer EXCEPT ![r].pc = IF m = Nobody THEN "done" ELSE "delete"]
    /\ admitted' = IF m = Nobody THEN admitted
                   ELSE [admitted EXCEPT ![signer[r].code] = @ + 1]
    /\ UNCHANGED <<saver, signedIn, lastSaved, entangled, doubled, through, cutShort>>

\* persistStaffAttendance.
DeleteRow(r) ==
    /\ signer[r].pc = "delete"
    /\ signedIn' = [signedIn EXCEPT ![signer[r].staff] = 0]
    /\ signer' = [signer EXCEPT ![r].pc = "insert"]
    /\ UNCHANGED <<config, codes, saver, admitted, lastSaved, entangled, doubled, through, cutShort>>

InsertRow(r) ==
    /\ signer[r].pc = "insert"
    /\ signedIn' = [signedIn EXCEPT ![signer[r].staff] = @ + 1]
    /\ signer' = [signer EXCEPT ![r].pc = "done"]
    /\ through' = through \cup {signer[r].staff}
    /\ UNCHANGED <<config, codes, saver, admitted, lastSaved, entangled, doubled, cutShort>>

\* A statement fails, or the location is refused.
FailSignIn(r) ==
    /\ signer[r].pc \notin {"new", "done"}
    /\ signer' = [signer EXCEPT ![r].pc = "done"]
    /\ cutShort' = IF signer[r].pc = "insert" THEN cutShort \cup {signer[r].staff}
                                              ELSE cutShort
    /\ UNCHANGED <<config, codes, saver, signedIn, admitted, lastSaved, entangled, doubled,
                   through>>

-----------------------------------------------------------------------------
(* updateBusinessOrganization with an attendanceConfig that names no code: *)
(* the code that was read is preserved.                                    *)

ReadSettings(v) ==
    /\ saver[v].pc = "new"
    /\ saver' = [saver EXCEPT ![v] = [pc |-> "write", code |-> config.code]]
    /\ entangled' = (entangled \/ Writers # {})
    /\ UNCHANGED <<config, codes, signer, signedIn, admitted, lastSaved, doubled, through, cutShort>>

SaveSettings(v) ==
    /\ saver[v].pc = "write"
    /\ config' = [code |-> saver[v].code, settings |-> v]
    /\ saver' = [saver EXCEPT ![v].pc = "done"]
    /\ lastSaved' = v
    /\ UNCHANGED <<codes, signer, signedIn, admitted, entangled, doubled, through, cutShort>>

-----------------------------------------------------------------------------
AttendanceNext ==
    \/ \E r \in Signers :
          \/ CompareCode(r) \/ AskCode(r) \/ ReadConfig(r) \/ WriteCode(r)
          \/ DeleteRow(r) \/ InsertRow(r) \/ FailSignIn(r)
          \/ \E m \in Staff : BeginFingerprint(r, m)
                              \/ \E code \in 1 .. codes : BeginManual(r, m, code)
    \/ \E v \in Savers : ReadSettings(v) \/ SaveSettings(v)

AttendanceSpec == AttendanceInit /\ [][AttendanceNext]_attendanceVars

AttendanceTypeOK ==
    /\ config \in Configs /\ codes \in Codes
    /\ signer \in [Signers -> [pc : SignerPcs, staff : Staff \cup {Nobody},
                               code : Codes, config : Configs]]
    /\ saver \in [Savers -> [pc : {"new", "write", "done"}, code : Codes]]
    /\ signedIn \in [Staff -> 0 .. Cardinality(Signers)]
    /\ admitted \in [Codes -> 0 .. Cardinality(Signers)] /\ lastSaved \in Settings
    /\ entangled \in BOOLEAN /\ doubled \cup through \cup cutShort \subseteq Staff

(***************************************************************************)
(* A code lets in one sign-in and the settings are the ones last saved,    *)
(* until two writers of the config overlap; a member of staff has one row  *)
(* for the day unless two sign-ins of the same person overlapped, and a    *)
(* sign-in that has got through leaves one unless another was cut short    *)
(* between its DELETE and its INSERT.  (attendance.service.ts              *)
(* consumeManualVerificationCode and persistStaffAttendance,               *)
(* organizations.service.ts updateBusinessOrganization.)                   *)
(***************************************************************************)
SignInsCounted ==
    /\ ~entangled => config.settings = lastSaved /\ \A c \in Codes : admitted[c] <= 1
    /\ \A m \in Staff :
          /\ m \notin doubled => signedIn[m] <= 1
          /\ m \in through \ cutShort =>
                signedIn[m] >= 1 \/ \E r \in SigningIn(m) : signer[r].pc = "insert"
=============================================================================

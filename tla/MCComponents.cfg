CONSTANTS
    Loads = {l1, l2}  NoLoad = NoLoad  Readers = {r1, r2}
    MaxEdits = 2  MaxInvalidations = 2

    Sheets = {s1, s2}  NoSheet = NoSheet  NoGenerator = NoGenerator  NoRow = NoRow
    Subjects = {maths, physics}  Scores = {1, 2}
    Editors = {e1, e2}  Generators = {g1, g2}  Releasers = {a1}  Hands = {k1}
    MarkCasts = {{e1, e2}, {e1, e2, g1, a1}, {e1, g1, g2, a1}, {e1, g1, g2, k1}}

    Sessions = {y1, y2}  NoSession = NoSession  Terms = {t1, t2}  NoTerm = NoTerm
    Planners = {p1, p2}  MaxPlans = 3  SeedTerms = 2

    Questions = {q1, q2}  Attempts = {a1, a2}  NoAttempt = NoAttempt
    Starts = {b1, b2}  Submits = {u1, u2}

    TeacherClasses = {c1, c2}  TeacherSubjects = {b1}
    Children = {k1}  Pupils = {p1}  Linkers = {r1, r2}

    Copies = 2  Loans = {o1, o2, o3}  Returns = {u1, u2}  NoLoanRow = NoLoanRow

    Payments = {p1, p2}  NoPayment = NoPayment
    Confirms = {c1}  Hooks = {h1, h2}  Verifiers = {v1, v2}

    EventIds = {e1, e2, e3}  NoEvent = NoEvent  Unidentified = {e3}  Ingests = {i1, i2, i3}
    Quantity <- MCQuantity  Quota = 5

    Keys = {k1, k2}  NoKey = NoKey  Handlers = {d1, d2}  MaxRequests = 4

    Staff = {m1, m2}  Nobody = Nobody  Signers = {n1, n2, n3}  Savers = {w1}
    MaxCodes = 3

    Classes = {c1, c2, c3}  NoClass = NoClass  Enrolments = {r1, r2, r3}

    Registrars = {a1, a2}  Openers = {v1, v2}  SchoolNames = {s1, s2}

    Kids = {k1, k2}  Guardian = Guardian  Archivers = {r1, r2}
    Issuers = {u1, u2}  Activators = {a1, a2}
    FamilyCasts = {{r1, r2, u1, a1, a2}, {u1, u2, a1, a2}}

    SlotPlanners = {n1, n2, n3}  SlotClasses = {c1, c2}  SlotTeachers = {m1}
    NoTeacher = NoTeacher  Windows <- MCWindows

    NamedCreates = {n1}  OtherOps = {n2}  Deliveries = {d1, d2, d3, d4}

    FormTeachers = {m1}  Leaders = {h1, h2}  Wards = {w1, w2}  Gates = {g1, g2}
    NoRuler = NoRuler

    Switches = {s1, s2, s3, s4}  HealthTests = {t1, t2}  ProviderIds = {v1, v2}
    NoSwitch = NoSwitch  SwitchCasts = {{s2, s3, s4}, {s2, s3, t1}, {s2, t1, t2}}

    Rotations = {r1, r2, r3, r4}  Reports = {p1, p2, p3}  Resets = {z1}
    PolicyEdits = {e1}  Thresholds = {2, 3}
    UpkeepCasts = {{r1, r2, r3, r4}, {p1, p2, p3, z1, e1}}

    DealMakers = {m1, m2}  PlanChanges = {n1}  DealApprovals = {a1, a2}
    DealEdits = {e1}  BillingRuns = {b1}  TermSheets = {low, high}
    DealCasts = {{m1, a1, a2, e1, b1}, {m1, m2, a1, a2}, {m1, n1, a1, e1, b1}}

SPECIFICATION Spec
INVARIANTS TypeOK ReadsAreCurrent RecordsSound RostersAgree ShelfCount BookingsPaidFor
INVARIANTS ChargesSound IntakeSound SignInsCounted AccountsAgree SlotsSound ExitsAllowed
INVARIANTS ProvidersSound
PROPERTIES MarksStand AttemptsSound
CHECK_DEADLOCK FALSE

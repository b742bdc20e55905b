CONSTANTS
    Invoices = {i1, i2}
    Requests = {r1, r2}
    Total = 2
    References = {a, b}
    NoReference = none
SPECIFICATION Spec
INVARIANT ReferenceOnce
CHECK_DEADLOCK FALSE

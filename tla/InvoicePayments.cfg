CONSTANTS
    Invoices = {i1, i2}
    Requests = {r1, r2, r3}
    Total = 2
    References = {a}
    NoReference = none
SPECIFICATION Spec
INVARIANTS TypeOK CreditIsBacked SerialPaymentsAreSound
PROPERTY CreditsAreAtomic
CHECK_DEADLOCK FALSE

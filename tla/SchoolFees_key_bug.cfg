CONSTANTS
    Invoices = {i1}
    NoInvoice = none
    Total = 2
    Parts = 1
    Checkouts = {c1, c2}
    Clerks = {k1}
    KeyModes = {FALSE}
    Casts = {{c1, c2, "invoice"}, {c1, "installment", "advance"},
             {c1, k1, i1, "installment"}}
    MaxCrashes = 1
SPECIFICATION Spec
INVARIANT OnePayment
CHECK_DEADLOCK FALSE

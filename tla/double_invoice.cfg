CONSTANTS
    Workers = {w1, w2, cron}
    Cron = cron
    Overlaps = {TRUE}
    Payments = {pay1}
    Guests = {}
    MaxNumber = 2
SPECIFICATION InvoicesSpec
INVARIANT InvoicedOnce
CHECK_DEADLOCK FALSE

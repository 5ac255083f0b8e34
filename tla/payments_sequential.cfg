CONSTANTS
    b1 = b1
    b2 = b2
    p1 = p1
    p2 = p2
    w1 = w1
    w2 = w2
    customer = customer
    clerk = clerk
    Bookings = {b1}
    Payments = {p1, p2}
    Users = {customer, clerk}
    Staff = {clerk}
    Owner <- CustomerOf
    LongTerm = {b1}
    EscrowEnabled = TRUE
    Workers = {w1}
    NoBooking = NoBooking
    NoPayment = NoPayment
    ByAdmin = ByAdmin
    MaxCrashes = 0
SPECIFICATION FairSpec
INVARIANTS
    RefundedOnce
    SeatsFreedOnce
    ChargeSettlesBooking
    EscrowedOnce
PROPERTIES
    FinalStatusStays
    ChargesLeavePending

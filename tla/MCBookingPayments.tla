------------------------- MODULE MCBookingPayments -------------------------
(***************************************************************************)
(* Small instances of BookingPayments for TLC.                             *)
(***************************************************************************)
EXTENDS BookingPayments, TLC

CONSTANTS b1, b2, customer, clerk, p1, p2, w1, w2

CustomerOf == [b \in Bookings |-> customer]

PaymentSymmetry == Permutations(Payments)
WorkerSymmetry == Permutations(Workers)
Symmetry == PaymentSymmetry \cup WorkerSymmetry
=============================================================================

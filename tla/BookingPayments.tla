-------------------------- MODULE BookingPayments --------------------------
(***************************************************************************)
(* The backend's payment core: Paystack webhooks, the reconciliation cron  *)
(* job, cancellation with its refund policy, admin refunds, manual         *)
(* confirmation and completion, and payment initialisation, all working on *)
(* the rows of "bookings" and "payments".                                  *)
(*                                                                         *)
(* Every handler is a chain of awaits: it reads a row, goes away, and      *)
(* later saves the entity it still holds.  A step here is the code between *)
(* two awaits.  repository.save(entity) writes every column of the copy    *)
(* back (no version column, no transaction), so a save replaces the row by *)
(* the worker's copy.  A worker is one handler in flight in the process; a *)
(* crash ends all of them.                                                 *)
(***************************************************************************)
EXTENDS Naturals, FiniteSets

CONSTANTS
    Bookings,       \* rows of "bookings", created PENDING by create-booking
    Payments,       \* payment ids; the id is also the Paystack reference
    Users,          \* customers and staff
    Staff,          \* users whose role is STAFF, ADMIN or SUPER_ADMIN
    Owner,          \* booking -> the customer who made it
    LongTerm,       \* bookings on a MONTHLY, QUARTERLY or YEARLY plan
    EscrowEnabled,  \* SOROBAN_ENABLED
    Workers,        \* how many handlers may be in flight at once
    NoBooking, NoPayment,
    ByAdmin,        \* who confirmed a booking, when it was not a charge
    MaxCrashes      \* bound: process restarts in a behaviour

ASSUME ParamsAssumption ==
    /\ Staff \subseteq Users
    /\ Owner \in [Bookings -> Users]
    /\ LongTerm \subseteq Bookings
    /\ EscrowEnabled \in BOOLEAN
    /\ MaxCrashes \in Nat
    /\ NoBooking \notin Bookings
    /\ NoPayment \notin Payments
    /\ ByAdmin \notin Payments /\ ByAdmin # NoPayment

VARIABLES
    booking,      \* bookings table
    payment,      \* payments table
    member,       \* users with memberSince set
    frame,        \* what each worker is in the middle of
    windowOpen,   \* is the booking still refundable on cancellation (clock)
    age,          \* createdAt of a payment as the reconcile job sees it (clock)
    opened,       \* Paystack: references with an open checkout
    events,       \* Paystack: charge events that happened to a reference
    refund,       \* Paystack: what the backend asked about refunding it
    onChain,      \* escrow transactions sent for a booking (saturates)
    confirmedBy,  \* history: the payment, or ByAdmin, whose confirm saved last
    freed,        \* history: times a booking's seats were given back (saturates)
    invoiceAsked, \* history: payments generateForPayment was called for
    crashes

vars == <<booking, payment, member, frame, windowOpen, age, opened, events,
          refund, onChain, confirmedBy, freed, invoiceAsked, crashes>>

clock == <<windowOpen, age>>
paystack == <<opened, events>>
history == <<onChain, confirmedBy, freed, invoiceAsked>>

BookingStatus == {"pending", "confirmed", "cancelled", "completed"}
PaymentStatus == {"absent", "pending", "success", "failed", "refunded"}
Ages == {"fresh", "due", "stale"}  \* <15 min, 15 min..24 h, >24 h
EventTypes == {"charge.success", "charge.failed"}
\* No request sent, sent but never acknowledged, acknowledged, and sent once
\* more after an acknowledgement.
RefundLog == {"none", "asked", "acked", "again"}
CountCap == 2                      \* counters saturate at "twice or more"
Bump(n) == IF n < CountCap THEN n + 1 ELSE n

BookingRow == [status : BookingStatus, escrowed : BOOLEAN]
PaymentRow == [booking : Bookings \cup {NoBooking},
               status : PaymentStatus, ref : BOOLEAN]

Ops == {"none", "reconcile", "chargeSuccess", "chargeFailed", "confirm",
        "cancel", "complete", "refund", "initialize"}
Steps == {"idle", "verifyNext", "findForSuccess", "saveSuccess",
          "findForFailed", "saveFailed", "confirmRead", "confirmSave",
          "activate", "createEscrow", "linkEscrow", "cancelRead", "cancelSave",
          "findPaid", "callRefund", "saveRefunded", "afterRefund",
          "completeSave", "freeSeats", "findPending", "reopenCheckout",
          "insertPayment", "openCheckout", "saveReference"}

NewBooking == [status |-> "pending", escrowed |-> FALSE]
AbsentPayment == [booking |-> NoBooking, status |-> "absent", ref |-> FALSE]

Frame == [op : Ops, pc : Steps, b : Bookings \cup {NoBooking},
          p : Payments \cup {NoPayment}, bk : BookingRow, pay : PaymentRow,
          batch : SUBSET Payments]

Idle == [op |-> "none", pc |-> "idle", b |-> NoBooking, p |-> NoPayment,
         bk |-> NewBooking, pay |-> AbsentPayment, batch |-> {}]

Free(w) == frame[w] = Idle
At(w, step) == frame[w].pc = step
Go(w, f) == frame' = [frame EXCEPT ![w] = f]

\* The handler returns or throws.  Inside the reconcile loop both lead to the
\* next payment of the batch (its try/catch); otherwise the request is over.
Return(w, batch) ==
    Go(w, IF batch = {} THEN Idle
          ELSE [Idle EXCEPT !.op = "reconcile", !.pc = "verifyNext",
                            !.batch = batch])

Finish(w) == Return(w, frame[w].batch)

Init ==
    /\ booking = [b \in Bookings |-> NewBooking]
    /\ payment = [p \in Payments |-> AbsentPayment]
    /\ member = {}
    /\ frame = [w \in Workers |-> Idle]
    /\ windowOpen = [b \in Bookings |-> TRUE]
    /\ age = [p \in Payments |-> "fresh"]
    /\ opened = {}
    /\ events = [p \in Payments |-> {}]
    /\ refund = [p \in Payments |-> "none"]
    /\ onChain = [b \in Bookings |-> 0]
    /\ confirmedBy = [b \in Bookings |-> NoPayment]
    /\ freed = [b \in Bookings |-> 0]
    /\ invoiceAsked = {}
    /\ crashes = 0

-----------------------------------------------------------------------------
(* InitializePaymentProvider.initialize                                    *)

InitializeStart(w, b) ==
    /\ Free(w)
    /\ booking[b].status = "pending"
    /\ Go(w, [Idle EXCEPT !.op = "initialize", !.pc = "findPending", !.b = b])
    /\ UNCHANGED <<booking, payment, member, clock, paystack, refund, history,
                   crashes>>

PendingFor(b) == {p \in Payments : payment[p].booking = b
                                   /\ payment[p].status = "pending"}

InitializeFindPending(w) ==
    /\ At(w, "findPending")
    /\ LET b == frame[w].b IN
         \/ \E p \in PendingFor(b) :
                Go(w, [frame[w] EXCEPT !.pc = "reopenCheckout", !.p = p])
         \/ /\ PendingFor(b) = {}
            /\ Go(w, [frame[w] EXCEPT !.pc = "insertPayment"])
    /\ UNCHANGED <<booking, payment, member, clock, paystack, refund, history,
                   crashes>>

\* The existing row's id goes to Paystack as the reference; the row itself is
\* not touched.
InitializeReopen(w) ==
    /\ At(w, "reopenCheckout")
    /\ \/ /\ "charge.success" \notin events[frame[w].p]
          /\ opened' = opened \cup {frame[w].p}
       \/ opened' = opened                          \* the call failed
    /\ Finish(w)
    /\ UNCHANGED <<booking, payment, member, clock, events, refund, history,
                   crashes>>

InitializeInsert(w) ==
    /\ At(w, "insertPayment")
    /\ \E p \in Payments :
         /\ payment[p].status = "absent"
         /\ LET row == [booking |-> frame[w].b, status |-> "pending",
                        ref |-> FALSE]
            IN  /\ payment' = [payment EXCEPT ![p] = row]
                /\ Go(w, [frame[w] EXCEPT !.pc = "openCheckout", !.p = p,
                                          !.pay = row])
    /\ UNCHANGED <<booking, member, clock, paystack, refund, history, crashes>>

\* The table of the model is full: the request is not served.
InitializeNoRow(w) ==
    /\ At(w, "insertPayment")
    /\ \A p \in Payments : payment[p].status # "absent"
    /\ Finish(w)
    /\ UNCHANGED <<booking, payment, member, clock, paystack, refund, history,
                   crashes>>

InitializeOpenCheckout(w) ==
    /\ At(w, "openCheckout")
    /\ \/ /\ opened' = opened \cup {frame[w].p}
          /\ Go(w, [frame[w] EXCEPT !.pc = "saveReference",
                                    !.pay.ref = TRUE])
       \/ /\ opened' = opened                       \* the call failed
          /\ Finish(w)
    /\ UNCHANGED <<booking, payment, member, clock, events, refund, history,
                   crashes>>

InitializeSaveReference(w) ==
    /\ At(w, "saveReference")
    /\ payment' = [payment EXCEPT ![frame[w].p] = frame[w].pay]
    /\ Finish(w)
    /\ UNCHANGED <<booking, member, clock, paystack, refund, history, crashes>>

-----------------------------------------------------------------------------
(* HandleWebhookProvider.handle: Paystack delivers an event, at any time   *)
(* and as often as it likes.  ReconcilePendingPaymentsProvider: the cron   *)
(* job lists PENDING payments and asks Paystack about each.                *)

\* Mutant: a declined card handled as a success.
Mut_Webhook(w, p) ==
    /\ Free(w) /\ events[p] # {}
    /\ Go(w, [Idle EXCEPT !.op = "chargeSuccess", !.pc = "findForSuccess",
                          !.p = p])
    /\ UNCHANGED <<booking, payment, member, clock, paystack, refund, history,
                   crashes>>

Webhook(w, p) ==
    /\ Free(w)
    /\ \/ /\ "charge.success" \in events[p]
          /\ Go(w, [Idle EXCEPT !.op = "chargeSuccess",
                                !.pc = "findForSuccess", !.p = p])
       \/ /\ "charge.failed" \in events[p]
          /\ Go(w, [Idle EXCEPT !.op = "chargeFailed",
                                !.pc = "findForFailed", !.p = p])
    /\ UNCHANGED <<booking, payment, member, clock, paystack, refund, history,
                   crashes>>

\* Mutant: the two cut-offs swapped.
Mut_Reconcilable == {p \in Payments : /\ payment[p].status = "pending"
                                      /\ payment[p].ref
                                      /\ age[p] = "stale"}

Reconcilable == {p \in Payments : /\ payment[p].status = "pending"
                                  /\ payment[p].ref
                                  /\ age[p] = "due"}

ReconcileStart(w) ==
    /\ Free(w)
    /\ Reconcilable # {}
    /\ Return(w, Reconcilable)
    /\ UNCHANGED <<booking, payment, member, clock, paystack, refund, history,
                   crashes>>

\* verifyTransaction answers "success" for a charge, a failed status for a
\* checkout not paid (failed, abandoned) or a charge given back (reversed), and
\* may answer another status or throw.
ReconcileVerify(w) ==
    /\ At(w, "verifyNext")
    /\ \E p \in frame[w].batch :
         LET rest == frame[w].batch \ {p}
             f == [Idle EXCEPT !.p = p, !.batch = rest]
         IN  \/ /\ "charge.success" \in events[p]
                /\ Go(w, [f EXCEPT !.op = "chargeSuccess",
                                   !.pc = "findForSuccess"])
             \/ /\ "charge.success" \notin events[p] \/ refund[p] # "none"
                /\ Go(w, [f EXCEPT !.op = "chargeFailed",
                                   !.pc = "findForFailed"])
             \/ Return(w, rest)
    /\ UNCHANGED <<booking, payment, member, clock, paystack, refund, history,
                   crashes>>

-----------------------------------------------------------------------------
(* PaymentOutcomeProvider.handleChargeSuccess and handleChargeFailed.      *)

\* Mutant: the row is looked up by its id instead of providerReference.
Mut_ChargeSuccessFind(w) ==
    /\ At(w, "findForSuccess")
    /\ LET row == payment[frame[w].p] IN
         \/ /\ row.status \in {"pending", "failed"}
            /\ Go(w, [frame[w] EXCEPT !.pc = "saveSuccess",
                                      !.b = row.booking,
                                      !.pay = [row EXCEPT !.status = "success"]])
         \/ /\ row.status \notin {"pending", "failed"}
            /\ Finish(w)
    /\ UNCHANGED <<booking, payment, member, clock, paystack, refund, history,
                   crashes>>

ChargeSuccessFind(w) ==
    /\ At(w, "findForSuccess")
    /\ LET row == payment[frame[w].p] IN
         \/ /\ row.ref /\ row.status \in {"pending", "failed"}
            /\ Go(w, [frame[w] EXCEPT !.pc = "saveSuccess",
                                      !.b = row.booking,
                                      !.pay = [row EXCEPT !.status = "success"]])
         \/ /\ ~(row.ref /\ row.status \in {"pending", "failed"})
            /\ Finish(w)
    /\ UNCHANGED <<booking, payment, member, clock, paystack, refund, history,
                   crashes>>

\* Mutant: the booking is not confirmed after the payment is saved.
Mut_ChargeSuccessSave(w) ==
    /\ At(w, "saveSuccess")
    /\ payment' = [payment EXCEPT ![frame[w].p] = frame[w].pay]
    /\ Finish(w)
    /\ UNCHANGED <<booking, member, clock, paystack, refund, history, crashes>>

ChargeSuccessSave(w) ==
    /\ At(w, "saveSuccess")
    /\ payment' = [payment EXCEPT ![frame[w].p] = frame[w].pay]
    /\ Go(w, [frame[w] EXCEPT !.pc = "confirmRead"])
    /\ UNCHANGED <<booking, member, clock, paystack, refund, history, crashes>>

ChargeFailedFind(w) ==
    /\ At(w, "findForFailed")
    /\ LET row == payment[frame[w].p] IN
         \/ /\ row.ref /\ row.status = "pending"
            /\ Go(w, [frame[w] EXCEPT !.pc = "saveFailed",
                                      !.pay = [row EXCEPT !.status = "failed"]])
         \/ /\ ~(row.ref /\ row.status = "pending")
            /\ Finish(w)
    /\ UNCHANGED <<booking, payment, member, clock, paystack, refund, history,
                   crashes>>

ChargeFailedSave(w) ==
    /\ At(w, "saveFailed")
    /\ payment' = [payment EXCEPT ![frame[w].p] = frame[w].pay]
    /\ Finish(w)
    /\ UNCHANGED <<booking, member, clock, paystack, refund, history, crashes>>

-----------------------------------------------------------------------------
(* ConfirmBookingProvider.confirm, called by the admin endpoint and by     *)
(* handleChargeSuccess; when the booking is not PENDING it throws, which   *)
(* ends the caller as well.                                                *)

ConfirmStart(w, b) ==
    /\ Free(w)
    /\ Go(w, [Idle EXCEPT !.op = "confirm", !.pc = "confirmRead", !.b = b])
    /\ UNCHANGED <<booking, payment, member, clock, paystack, refund, history,
                   crashes>>

\* Mutant: no status check.
Mut_ConfirmReadUnchecked(w) ==
    /\ At(w, "confirmRead")
    /\ Go(w, [frame[w] EXCEPT !.pc = "confirmSave",
              !.bk = [booking[frame[w].b] EXCEPT !.status = "confirmed"]])
    /\ UNCHANGED <<booking, payment, member, clock, paystack, refund, history,
                   crashes>>

ConfirmRead(w) ==
    /\ At(w, "confirmRead")
    /\ LET row == booking[frame[w].b] IN
         \/ /\ row.status = "pending"
            /\ Go(w, [frame[w] EXCEPT !.pc = "confirmSave",
                                      !.bk = [row EXCEPT !.status = "confirmed"]])
         \/ /\ row.status # "pending"
            /\ Finish(w)
    /\ UNCHANGED <<booking, payment, member, clock, paystack, refund, history,
                   crashes>>

ConfirmSave(w) ==
    /\ At(w, "confirmSave")
    /\ booking' = [booking EXCEPT ![frame[w].b] = frame[w].bk]
    /\ confirmedBy' = [confirmedBy EXCEPT ![frame[w].b] =
                          IF frame[w].op = "confirm" THEN ByAdmin
                                                     ELSE frame[w].p]
    /\ Go(w, [frame[w] EXCEPT !.pc = "activate"])
    /\ UNCHANGED <<payment, member, clock, paystack, refund, onChain, freed,
                   invoiceAsked, crashes>>

\* The success path after confirm(): the invoice, the e-mail and the
\* notification are started and not waited for.
AskInvoice(w) ==
    /\ invoiceAsked' = invoiceAsked \cup {frame[w].p}
    /\ Finish(w)

\* Mutant: the escrow is recorded in confirm(), for the admin endpoint too.
Mut_Activate(w) ==
    /\ At(w, "activate")
    /\ member' = member \cup {Owner[frame[w].b]}
    /\ Go(w, [frame[w] EXCEPT !.pc = "createEscrow"])
    /\ UNCHANGED <<booking, payment, clock, paystack, refund, history, crashes>>

\* memberSince and membershipStatus of a first-time customer; then, for a
\* charge, the escrow of a long-term plan.
Activate(w) ==
    /\ At(w, "activate")
    /\ member' = member \cup {Owner[frame[w].b]}
    /\ \/ /\ frame[w].op = "confirm"
          /\ Finish(w)
          /\ UNCHANGED invoiceAsked
       \/ /\ frame[w].op = "chargeSuccess"
          /\ IF frame[w].b \in LongTerm /\ EscrowEnabled
             THEN /\ Go(w, [frame[w] EXCEPT !.pc = "createEscrow"])
                  /\ UNCHANGED invoiceAsked
             ELSE AskInvoice(w)
    /\ UNCHANGED <<booking, payment, clock, paystack, refund, onChain,
                   confirmedBy, freed, crashes>>

\* recordSorobanEscrow: the transaction is sent and seen to succeed, is sent
\* and not seen to succeed in time, or is never sent; an error is logged only.
CreateEscrow(w) ==
    /\ At(w, "createEscrow")
    /\ \/ /\ onChain' = [onChain EXCEPT ![frame[w].b] = Bump(@)]
          /\ \/ /\ Go(w, [frame[w] EXCEPT !.pc = "linkEscrow"])
                /\ UNCHANGED invoiceAsked
             \/ AskInvoice(w)
       \/ /\ UNCHANGED onChain
          /\ AskInvoice(w)
    /\ UNCHANGED <<booking, payment, member, clock, paystack, refund,
                   confirmedBy, freed, crashes>>

\* update(id, {sorobanEscrowId}) writes that column alone.
LinkEscrow(w) ==
    /\ At(w, "linkEscrow")
    /\ booking' = [booking EXCEPT ![frame[w].b].escrowed = TRUE]
    /\ AskInvoice(w)
    /\ UNCHANGED <<payment, member, clock, paystack, refund, onChain,
                   confirmedBy, freed, crashes>>

-----------------------------------------------------------------------------
(* CancelBookingProvider.cancel with applyRefundPolicy, and                *)
(* CompleteBookingProvider.complete.                                       *)

\* Mutant: a COMPLETED booking can be cancelled as well.
Mut_Cancellable == {"pending", "confirmed", "completed"}

Cancellable == {"pending", "confirmed"}

\* Mutant: a status the column's enum does not have.
Mut_HoldCancelled(w, f) ==
    Go(w, [f EXCEPT !.op = "cancel", !.pc = "cancelSave",
                    !.bk = [booking[f.b] EXCEPT !.status = "expired"]])

\* The read, the status check and the assignment of the copy.
HoldCancelled(w, f) ==
    Go(w, [f EXCEPT !.op = "cancel", !.pc = "cancelSave",
                    !.bk = [booking[f.b] EXCEPT !.status = "cancelled"]])

CancelStart(w, b, u) ==
    /\ Free(w)
    /\ u \in Staff \/ Owner[b] = u
    /\ booking[b].status \in Cancellable
    /\ HoldCancelled(w, [Idle EXCEPT !.b = b])
    /\ UNCHANGED <<booking, payment, member, clock, paystack, refund, history,
                   crashes>>

CancelRead(w) ==
    /\ At(w, "cancelRead")
    /\ \/ /\ booking[frame[w].b].status \in Cancellable
          /\ HoldCancelled(w, frame[w])
       \/ /\ booking[frame[w].b].status \notin Cancellable
          /\ Finish(w)
    /\ UNCHANGED <<booking, payment, member, clock, paystack, refund, history,
                   crashes>>

CancelSave(w) ==
    /\ At(w, "cancelSave")
    /\ booking' = [booking EXCEPT ![frame[w].b] = frame[w].bk]
    /\ Go(w, [frame[w] EXCEPT !.pc = "findPaid"])
    /\ UNCHANGED <<payment, member, clock, paystack, refund, history, crashes>>

\* Mutant: the payment is looked up without its status.
Mut_PaidFor(b) == {p \in Payments : payment[p].booking = b}

PaidFor(b) == {p \in Payments : payment[p].booking = b
                                /\ payment[p].status = "success"}

\* One SUCCESS payment of the booking, if there is one, and only outside the
\* refund window; refundCore starts with the copy just read.
CancelFindPaid(w) ==
    /\ At(w, "findPaid")
    /\ LET b == frame[w].b IN
         \/ /\ windowOpen[b]
            /\ \E p \in PaidFor(b) :
                 Go(w, [frame[w] EXCEPT !.pc = "callRefund", !.p = p,
                                        !.pay = payment[p]])
         \/ /\ ~windowOpen[b] \/ PaidFor(b) = {}
            /\ Go(w, [frame[w] EXCEPT !.pc = "freeSeats"])
    /\ UNCHANGED <<booking, payment, member, clock, paystack, refund, history,
                   crashes>>

\* Mutant: any open booking can be completed.
Mut_CompleteStart(w, b) ==
    /\ Free(w)
    /\ booking[b].status \in Cancellable
    /\ Go(w, [Idle EXCEPT !.op = "complete", !.pc = "completeSave", !.b = b,
                          !.bk = [booking[b] EXCEPT !.status = "completed"]])
    /\ UNCHANGED <<booking, payment, member, clock, paystack, refund, history,
                   crashes>>

CompleteStart(w, b) ==
    /\ Free(w)
    /\ booking[b].status = "confirmed"
    /\ Go(w, [Idle EXCEPT !.op = "complete", !.pc = "completeSave", !.b = b,
                          !.bk = [booking[b] EXCEPT !.status = "completed"]])
    /\ UNCHANGED <<booking, payment, member, clock, paystack, refund, history,
                   crashes>>

CompleteSave(w) ==
    /\ At(w, "completeSave")
    /\ booking' = [booking EXCEPT ![frame[w].b] = frame[w].bk]
    /\ Go(w, [frame[w] EXCEPT !.pc = "freeSeats"])
    /\ UNCHANGED <<payment, member, clock, paystack, refund, history, crashes>>

\* adjustAvailableSeats(workspaceId, +seatCount), whose own read and save are
\* steps of SeatAllocation.
FreeSeats(w) ==
    /\ At(w, "freeSeats")
    /\ freed' = [freed EXCEPT ![frame[w].b] = Bump(@)]
    /\ Finish(w)
    /\ UNCHANGED <<booking, payment, member, clock, paystack, refund, onChain,
                   confirmedBy, invoiceAsked, crashes>>

-----------------------------------------------------------------------------
(* RefundPaymentProvider.refund (admin endpoint) and refundCore, which     *)
(* cancel shares.                                                          *)

\* Mutant: a REFUNDED payment is accepted too.
Mut_RefundStart(w, p) ==
    /\ Free(w)
    /\ payment[p].status \in {"success", "refunded"}
    /\ Go(w, [Idle EXCEPT !.op = "refund", !.pc = "callRefund", !.p = p,
                          !.b = payment[p].booking, !.pay = payment[p]])
    /\ UNCHANGED <<booking, payment, member, clock, paystack, refund, history,
                   crashes>>

RefundStart(w, p) ==
    /\ Free(w)
    /\ payment[p].status = "success"
    /\ Go(w, [Idle EXCEPT !.op = "refund", !.pc = "callRefund", !.p = p,
                          !.b = payment[p].booking, !.pay = payment[p]])
    /\ UNCHANGED <<booking, payment, member, clock, paystack, refund, history,
                   crashes>>

Acked(r) == IF r \in {"none", "asked"} THEN "acked" ELSE "again"
Unacked(r) == IF r \in {"none", "asked"} THEN "asked" ELSE "again"

\* Mutant: a failed refund ends cancel before the seats are freed.
Mut_CallRefund(w) ==
    /\ At(w, "callRefund")
    /\ LET p == frame[w].p IN
         \/ /\ refund' = [refund EXCEPT ![p] = Acked(@)]
            /\ Go(w, [frame[w] EXCEPT !.pc = "saveRefunded",
                                      !.pay.status = "refunded"])
         \/ /\ refund' = [refund EXCEPT ![p] = Unacked(@)]
            /\ Finish(w)
    /\ UNCHANGED <<booking, payment, member, clock, paystack, history, crashes>>

\* initiateRefund answers, or the call throws (whether or not it arrived).
\* cancel catches the error and goes on; the admin's request ends with it.
CallRefund(w) ==
    /\ At(w, "callRefund")
    /\ LET p == frame[w].p IN
         \/ /\ refund' = [refund EXCEPT ![p] = Acked(@)]
            /\ Go(w, [frame[w] EXCEPT !.pc = "saveRefunded",
                                      !.pay.status = "refunded"])
         \/ /\ refund' = [refund EXCEPT ![p] = Unacked(@)]
            /\ \/ /\ frame[w].op = "cancel"
                  /\ Go(w, [frame[w] EXCEPT !.pc = "freeSeats"])
               \/ /\ frame[w].op = "refund"
                  /\ Finish(w)
    /\ UNCHANGED <<booking, payment, member, clock, paystack, history, crashes>>

SaveRefunded(w) ==
    /\ At(w, "saveRefunded")
    /\ payment' = [payment EXCEPT ![frame[w].p] = frame[w].pay]
    /\ \/ /\ frame[w].op = "cancel"
          /\ Go(w, [frame[w] EXCEPT !.pc = "freeSeats"])
       \/ /\ frame[w].op = "refund"
          /\ Go(w, [frame[w] EXCEPT !.pc = "afterRefund"])
    /\ UNCHANGED <<booking, member, clock, paystack, refund, history, crashes>>

RefundThenCancel(w) ==
    /\ At(w, "afterRefund")
    /\ \/ /\ booking[frame[w].b].status # "cancelled"
          /\ Go(w, [frame[w] EXCEPT !.pc = "cancelRead"])
       \/ /\ booking[frame[w].b].status = "cancelled"
          /\ Finish(w)
    /\ UNCHANGED <<booking, payment, member, clock, paystack, refund, history,
                   crashes>>

-----------------------------------------------------------------------------
(* The environment: customers at the Paystack checkout, time, restarts.    *)

CustomerPays(p) ==
    /\ p \in opened /\ "charge.success" \notin events[p]
    /\ events' = [events EXCEPT ![p] = @ \cup {"charge.success"}]
    /\ UNCHANGED <<booking, payment, member, frame, clock, opened, refund,
                   history, crashes>>

CardDeclined(p) ==
    /\ p \in opened /\ events[p] = {}
    /\ events' = [events EXCEPT ![p] = {"charge.failed"}]
    /\ UNCHANGED <<booking, payment, member, frame, clock, opened, refund,
                   history, crashes>>

RefundWindowCloses(b) ==
    /\ windowOpen[b]
    /\ windowOpen' = [windowOpen EXCEPT ![b] = FALSE]
    /\ UNCHANGED <<booking, payment, member, frame, age, paystack, refund,
                   history, crashes>>

PaymentAges(p) ==
    /\ payment[p].status # "absent" /\ age[p] # "stale"
    /\ age' = [age EXCEPT ![p] = IF @ = "fresh" THEN "due" ELSE "stale"]
    /\ UNCHANGED <<booking, payment, member, frame, windowOpen, paystack,
                   refund, history, crashes>>

Crash ==
    /\ crashes < MaxCrashes
    /\ crashes' = crashes + 1
    /\ frame' = [w \in Workers |-> Idle]
    /\ UNCHANGED <<booking, payment, member, clock, paystack, refund, history>>

Initialize(w) ==
    \/ \E b \in Bookings : InitializeStart(w, b)
    \/ InitializeFindPending(w) \/ InitializeReopen(w) \/ InitializeInsert(w)
    \/ InitializeNoRow(w) \/ InitializeOpenCheckout(w)
    \/ InitializeSaveReference(w)

Outcome(w) ==
    \/ ChargeSuccessFind(w) \/ ChargeSuccessSave(w)
    \/ ChargeFailedFind(w) \/ ChargeFailedSave(w)
    \/ ConfirmRead(w) \/ ConfirmSave(w) \/ Activate(w)
    \/ CreateEscrow(w) \/ LinkEscrow(w)

Cancel(w) ==
    \/ CancelRead(w) \/ CancelSave(w) \/ CancelFindPaid(w)
    \/ CompleteSave(w) \/ FreeSeats(w)
    \/ CallRefund(w) \/ SaveRefunded(w) \/ RefundThenCancel(w)

Request(w) ==
    \/ \E p \in Payments : Webhook(w, p) \/ RefundStart(w, p)
    \/ \E b \in Bookings : ConfirmStart(w, b) \/ CompleteStart(w, b)
    \/ \E b \in Bookings, u \in Users : CancelStart(w, b, u)

Environment ==
    \/ \E p \in Payments : CustomerPays(p) \/ CardDeclined(p) \/ PaymentAges(p)
    \/ \E b \in Bookings : RefundWindowCloses(b)
    \/ Crash

Next ==
    \/ \E w \in Workers : \/ Initialize(w) \/ Request(w)
                          \/ ReconcileStart(w) \/ ReconcileVerify(w)
                          \/ Outcome(w) \/ Cancel(w)
    \/ Environment

Spec == Init /\ [][Next]_vars

-----------------------------------------------------------------------------
(* What holds whatever runs concurrently and wherever the process stops.   *)

TypeOK ==
    /\ booking \in [Bookings -> BookingRow]
    /\ payment \in [Payments -> PaymentRow]
    /\ member \subseteq Users
    /\ frame \in [Workers -> Frame]
    /\ windowOpen \in [Bookings -> BOOLEAN]
    /\ age \in [Payments -> Ages]
    /\ opened \subseteq Payments
    /\ events \in [Payments -> SUBSET EventTypes]
    /\ refund \in [Payments -> RefundLog]
    /\ onChain \in [Bookings -> 0..CountCap]
    /\ confirmedBy \in [Bookings -> Payments \cup {NoPayment, ByAdmin}]
    /\ freed \in [Bookings -> 0..CountCap]
    /\ invoiceAsked \subseteq Payments
    /\ crashes \in 0..MaxCrashes

Charged(p) == "charge.success" \in events[p]

\* Money is only given back where it was taken: the backend asks Paystack to
\* refund a reference only after a charge on it succeeded, whichever of cancel
\* and the admin's refund asks and however stale its copy (refundCore's guard).
RefundsAreOfCharges == \A p \in Payments : refund[p] # "none" => Charged(p)

\* The payments table never claims money Paystack did not take: a SUCCESS or
\* REFUNDED row stands for a successful charge and carries its reference.
PaidRowsWereCharged ==
    \A p \in Payments : payment[p].status \in {"success", "refunded"} =>
                            Charged(p) /\ payment[p].ref

\* A booking is CONFIRMED or COMPLETED only because an admin confirmed it or a
\* payment of that booking was charged (confirm has no other caller).
ConfirmationHasCause ==
    \A b \in Bookings : booking[b].status \in {"confirmed", "completed"} =>
        \/ confirmedBy[b] = ByAdmin
        \/ \E p \in Payments : /\ confirmedBy[b] = p
                               /\ payment[p].booking = b
                               /\ Charged(p)

\* Escrow transactions and invoices belong to charges that confirmed their
\* booking; escrow also to long-term plans with the feature enabled.  A customer is
\* activated only by the confirmation of a booking of theirs.
EffectsFollowCharges ==
    /\ \A b \in Bookings : onChain[b] > 0 \/ booking[b].escrowed =>
         /\ b \in LongTerm /\ EscrowEnabled
         /\ confirmedBy[b] # NoPayment
         /\ \E p \in Payments : payment[p].booking = b /\ Charged(p)
    /\ \A p \in invoiceAsked : /\ Charged(p)
                               /\ payment[p].booking # NoBooking
                               /\ confirmedBy[payment[p].booking] # NoPayment
    /\ \A u \in member : \E b \in Bookings : /\ Owner[b] = u
                                             /\ confirmedBy[b] # NoPayment

\* No stale save, retry or restart brings a row back to PENDING: a payment or
\* booking with an outcome never becomes payable or confirmable again.
PendingNeverReturns ==
    [][/\ \A p \in Payments : payment'[p].status = "pending" =>
                                payment[p].status \in {"absent", "pending"}
       /\ \A b \in Bookings : booking'[b].status = "pending" =>
                                booking[b].status = "pending"]_vars

-----------------------------------------------------------------------------
(* What the handlers keep when they run one after the other.               *)

AtRest == \A w \in Workers : Free(w)

\* A payment whose refund Paystack acknowledged is never sent for refund again,
\* unless the process died between the acknowledgement and the save.
RefundedOnce == crashes = 0 => \A p \in Payments : refund[p] # "again"

\* CANCELLED and COMPLETED are final, and so is REFUNDED.
FinalStatusStays ==
    [][/\ \A b \in Bookings : booking[b].status \in {"cancelled", "completed"}
                                => booking'[b].status = booking[b].status
       /\ \A p \in Payments : payment[p].status = "refunded"
                                => payment'[p].status = "refunded"]_vars

\* The seats of a booking are given back exactly once, when it ends; a restart
\* between the save and adjustAvailableSeats can only lose that.
SeatsFreedOnce ==
    \A b \in Bookings :
        LET ended == booking[b].status \in {"cancelled", "completed"}
        IN  /\ freed[b] <= IF ended THEN 1 ELSE 0
            /\ AtRest /\ crashes = 0 /\ ended => freed[b] = 1

\* Once the handlers are done, no booking with a recorded charge still waits
\* for confirmation, and the charge that confirmed it has asked for its invoice.
ChargeSettlesBooking ==
    AtRest /\ crashes = 0 =>
        \A p \in Payments : payment[p].status = "success" =>
            LET b == payment[p].booking
            IN  /\ booking[b].status # "pending"
                /\ confirmedBy[b] = p => p \in invoiceAsked

\* One booking gets at most one escrow transaction (draw_from moves funds).
EscrowedOnce == \A b \in Bookings : onChain[b] <= 1

-----------------------------------------------------------------------------
(* What comments of the code say and the runs refute.                      *)

\* "Re-initialize using same reference": a checkout Paystack has open on a
\* payment's id can be found by the webhook once initialize is over.
OpenCheckoutIsFindable ==
    AtRest => \A p \in opened : payment[p].ref

\* "a booking with a SUCCESS Paystack payment is refunded automatically if it's
\* cancelled at least CANCELLATION_REFUND_WINDOW_HOURS before its startDate".
EarlyCancelRefundsAll ==
    \A w \in Workers :
        frame[w].op = "cancel" /\ At(w, "freeSeats") /\ windowOpen[frame[w].b]
        => \A p \in PaidFor(frame[w].b) : refund[p] # "none"

-----------------------------------------------------------------------------
(* Fairness: a handler in flight makes its next step (the event loop), 15  *)
(* minutes pass, the cron timer keeps starting the job, and Paystack's     *)
(* verify does not fail for ever.  Nothing is assumed of webhooks, of      *)
(* customers or of the 24 h cut-off.                                       *)

Handler(w) == Initialize(w) \/ Outcome(w) \/ Cancel(w)

VerifyAnswers(w) ==
    ReconcileVerify(w) /\ frame'[w].pc \in {"findForSuccess", "findForFailed"}

FairSpec ==
    /\ Spec
    /\ \A w \in Workers : /\ WF_vars(~Free(w) /\ Handler(w))
                          /\ SF_vars(ReconcileStart(w))
                          /\ SF_vars(VerifyAnswers(w))
    /\ \A p \in Payments : WF_vars(age[p] = "fresh" /\ PaymentAges(p))

\* A charge on a payment the webhook could find does not leave it PENDING, even
\* if no webhook ever arrives: the job settles it before it is 24 h old.  (It
\* may settle as FAILED when the job asked before the customer paid.)
ChargesLeavePending ==
    \A p \in Payments :
        (Charged(p) /\ payment[p].ref) ~>
            (payment[p].status # "pending" \/ age[p] = "stale")
=============================================================================

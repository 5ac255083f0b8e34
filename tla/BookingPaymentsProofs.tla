----------------------- MODULE BookingPaymentsProofs -----------------------
(***************************************************************************)
(* Proofs about the payment core, for any number of bookings, payments,    *)
(* handlers and restarts.                                                  *)
(*                                                                         *)
(* First what holds however handlers interleave: the core is type correct, *)
(* a PAID row stands for money Paystack took and only such money is asked  *)
(* back, every confirmation has a cause, escrows and invoices belong to    *)
(* charges, and nothing returns to PENDING. None of it is inductive alone: *)
(* what a handler will save is the copy it carries, so the invariants also *)
(* say what each copy may be at each step.                                 *)
(*                                                                         *)
(* Then what holds of one handler at a time: no second refund or escrow,   *)
(* seats are freed once, a charge settles its booking, final statuses      *)
(* stay. Here the copy agrees with its row, and the invariant says which   *)
(* effects the handler in flight still owes.                               *)
(***************************************************************************)
EXTENDS BookingPayments, TLAPS

\* What a row of "payments" owes the rest of the system.
RowGood(row, p, ev) ==
    /\ row.status # "absent" => row.booking \in Bookings
    /\ row.status \in {"success", "refunded"} =>
           "charge.success" \in ev[p] /\ row.ref

\* What a handler knows of the booking, the payment and the copy it holds.
FrameGood(f, ev) ==
    /\ \/ f.op = "chargeSuccess"
       \/ f.pc \in {"findForSuccess", "saveSuccess", "findForFailed",
                    "saveFailed", "reopenCheckout", "openCheckout",
                    "saveReference", "callRefund", "saveRefunded"}
       => f.p \in Payments
    /\ f.pc \in {"saveSuccess", "confirmRead", "confirmSave", "activate",
                 "createEscrow", "linkEscrow", "cancelRead", "cancelSave",
                 "findPaid", "callRefund", "saveRefunded", "afterRefund",
                 "completeSave", "freeSeats", "findPending", "insertPayment"}
       => f.b \in Bookings
    /\ f.pc \in {"findForSuccess", "createEscrow", "linkEscrow"} =>
           f.op = "chargeSuccess"
    /\ f.pc \in {"findForSuccess", "saveSuccess", "callRefund",
                 "saveRefunded"} => "charge.success" \in ev[f.p]
    /\ f.pc \in {"saveSuccess", "callRefund", "saveRefunded"} => f.pay.ref
    /\ f.pc \in {"saveSuccess", "callRefund", "saveRefunded", "saveFailed",
                 "openCheckout", "saveReference"} => f.pay.booking \in Bookings
    /\ f.pc \in {"saveFailed", "openCheckout", "saveReference"} =>
           f.pay.status \in {"pending", "failed"}

RowsGood == \A p \in Payments : RowGood(payment[p], p, events)
FramesGood == \A w \in Workers : FrameGood(frame[w], events)

IInv == TypeOK /\ RowsGood /\ FramesGood /\ RefundsAreOfCharges

\* Every variable but frame.
rows == <<booking, payment, member, clock, paystack, refund, history, crashes>>

-----------------------------------------------------------------------------
LEMMA IdleGood ==
    /\ Idle \in Frame
    /\ \A ev : FrameGood(Idle, ev)
BY DEF Idle, Frame, FrameGood, Ops, Steps, NewBooking, AbsentPayment,
       BookingRow, PaymentRow, BookingStatus, PaymentStatus

\* A worker that moves on to a good frame leaves all frames good.
LEMMA GoGood ==
    ASSUME IInv, NEW w \in Workers, NEW f \in Frame, FrameGood(f, events),
           Go(w, f), UNCHANGED events
    PROVE  frame' \in [Workers -> Frame] /\ FramesGood'
<1>1. frame' = [frame EXCEPT ![w] = f]
  BY DEF Go
<1>2. frame \in [Workers -> Frame]
  BY DEF IInv, TypeOK
<1>3. frame' \in [Workers -> Frame]
  BY <1>1, <1>2
<1>4. \A v \in Workers : FrameGood(frame'[v], events)
  BY <1>1, <1>2 DEF IInv, FramesGood
<1> QED
  BY <1>3, <1>4 DEF FramesGood

\* So does one whose handler is over, in the reconcile loop or not.
LEMMA ReturnGood ==
    ASSUME IInv, NEW w \in Workers, NEW batch \in SUBSET Payments,
           Return(w, batch), UNCHANGED events
    PROVE  frame' \in [Workers -> Frame] /\ FramesGood'
<1> DEFINE g == [Idle EXCEPT !.op = "reconcile", !.pc = "verifyNext",
                             !.batch = batch]
<1>1. g \in Frame /\ FrameGood(g, events)
  BY IdleGood DEF Idle, Frame, FrameGood, Ops, Steps
<1>2. Go(w, Idle) \/ Go(w, g)
  BY DEF Return
<1> HIDE DEF g
<1> QED
  BY <1>1, <1>2, IdleGood, GoGood

LEMMA FinishGood ==
    ASSUME IInv, NEW w \in Workers, Finish(w), UNCHANGED events
    PROVE  frame' \in [Workers -> Frame] /\ FramesGood'
<1>1. frame[w].batch \in SUBSET Payments
  BY DEF IInv, TypeOK, Frame
<1> QED
  BY <1>1, ReturnGood DEF Finish

\* A step that changes no row keeps the invariant if it keeps the frames good.
LEMMA FrameStep ==
    ASSUME IInv, frame' \in [Workers -> Frame], FramesGood', UNCHANGED rows
    PROVE  IInv'
BY DEF IInv, TypeOK, RowsGood, RefundsAreOfCharges, Charged, rows, clock,
       paystack, history

\* Saving a good copy keeps the payments table good.
LEMMA SaveGood ==
    ASSUME IInv, NEW p \in Payments, NEW row \in PaymentRow,
           RowGood(row, p, events), UNCHANGED events,
           payment' = [payment EXCEPT ![p] = row]
    PROVE  payment' \in [Payments -> PaymentRow] /\ RowsGood'
<1>1. payment \in [Payments -> PaymentRow]
  BY DEF IInv, TypeOK
<1>2. payment' \in [Payments -> PaymentRow]
  BY <1>1
<1>3. \A q \in Payments : RowGood(payment'[q], q, events)
  BY <1>1 DEF IInv, RowsGood
<1> QED
  BY <1>2, <1>3 DEF RowsGood

\* A step that only moves a worker on, or ends its handler.
LEMMA MoveOn ==
    ASSUME IInv, NEW w \in Workers, NEW f \in Frame, FrameGood(f, events),
           Go(w, f), UNCHANGED rows
    PROVE  IInv'
BY GoGood, FrameStep DEF rows, paystack

LEMMA Over ==
    ASSUME IInv, NEW w \in Workers, Finish(w), UNCHANGED rows
    PROVE  IInv'
BY FinishGood, FrameStep DEF rows, paystack

\* A step that saves the worker's copy of a payment.
LEMMA PaymentStep ==
    ASSUME IInv, NEW p \in Payments, NEW row \in PaymentRow,
           RowGood(row, p, events), payment' = [payment EXCEPT ![p] = row],
           frame' \in [Workers -> Frame], FramesGood',
           UNCHANGED <<booking, member, clock, paystack, refund, history,
                       crashes>>
    PROVE  IInv'
<1>1. payment' \in [Payments -> PaymentRow] /\ RowsGood'
  BY SaveGood DEF paystack
<1> QED
  BY <1>1 DEF IInv, TypeOK, RefundsAreOfCharges, Charged, clock, paystack,
              history

\* The frame of a worker and the row of a payment, typed and good.
LEMMA Held ==
    ASSUME IInv, NEW w \in Workers
    PROVE  frame[w] \in Frame /\ FrameGood(frame[w], events)
BY DEF IInv, TypeOK, FramesGood

LEMMA RowHeld ==
    ASSUME IInv, NEW p \in Payments
    PROVE  payment[p] \in PaymentRow /\ RowGood(payment[p], p, events)
BY DEF IInv, TypeOK, RowsGood

LEMMA BookingHeld ==
    ASSUME IInv, NEW b \in Bookings
    PROVE  booking[b] \in BookingRow
BY DEF IInv, TypeOK

-----------------------------------------------------------------------------
LEMMA InitializeKeeps ==
    ASSUME IInv, NEW w \in Workers, Initialize(w)
    PROVE  IInv'
<1> DEFINE f == frame[w]
<1>0. f \in Frame /\ FrameGood(f, events)
  BY Held
<1>1. ASSUME NEW b \in Bookings, InitializeStart(w, b)
      PROVE  IInv'
  <2> DEFINE g == [Idle EXCEPT !.op = "initialize", !.pc = "findPending",
                               !.b = b]
  <2>1. g \in Frame /\ FrameGood(g, events)
    BY IdleGood DEF Idle, Frame, FrameGood, Ops, Steps
  <2>2. Go(w, g) /\ UNCHANGED rows
    BY <1>1 DEF InitializeStart, rows
  <2> QED
    BY <2>1, <2>2, MoveOn
<1>2. CASE InitializeFindPending(w)
  <2>1. ASSUME NEW p \in Payments
        PROVE  LET g == [f EXCEPT !.pc = "reopenCheckout", !.p = p]
               IN  g \in Frame /\ FrameGood(g, events)
    BY <1>0 DEF Frame, FrameGood, Steps
  <2>2. f.pc = "findPending"
    BY <1>2 DEF InitializeFindPending, At
  <2>3. LET g == [f EXCEPT !.pc = "insertPayment"]
        IN  g \in Frame /\ FrameGood(g, events)
    BY <1>0, <2>2 DEF Frame, FrameGood, Steps
  <2>4. UNCHANGED rows
    BY <1>2 DEF InitializeFindPending, rows
  <2>5. \/ \E p \in Payments :
               Go(w, [f EXCEPT !.pc = "reopenCheckout", !.p = p])
        \/ Go(w, [f EXCEPT !.pc = "insertPayment"])
    BY <1>2 DEF InitializeFindPending, PendingFor
  <2> QED
    BY <2>1, <2>3, <2>4, <2>5, MoveOn
<1>3. CASE InitializeReopen(w)
  <2>1. f.p \in Payments
    BY <1>0, <1>3 DEF InitializeReopen, At, FrameGood
  <2>2. Finish(w) /\ UNCHANGED events
    BY <1>3 DEF InitializeReopen
  <2>3. frame' \in [Workers -> Frame] /\ FramesGood'
    BY <2>2, FinishGood
  <2>4. opened' \subseteq Payments
    BY <1>3, <2>1 DEF InitializeReopen, IInv, TypeOK
  <2> QED
    BY <1>3, <2>3, <2>4
       DEF InitializeReopen, IInv, TypeOK, RowsGood, RefundsAreOfCharges,
           Charged, clock, history
<1>4. CASE InitializeInsert(w)
  <2>1. f.pc = "insertPayment" /\ f.b \in Bookings
    BY <1>0, <1>4 DEF InitializeInsert, At, FrameGood
  <2> DEFINE row == [booking |-> f.b, status |-> "pending", ref |-> FALSE]
  <2>2. PICK p \in Payments :
          /\ payment' = [payment EXCEPT ![p] = row]
          /\ Go(w, [f EXCEPT !.pc = "openCheckout", !.p = p, !.pay = row])
    BY <1>4 DEF InitializeInsert
  <2>3. row \in PaymentRow /\ RowGood(row, p, events)
    BY <2>1 DEF PaymentRow, PaymentStatus, RowGood
  <2> DEFINE g == [f EXCEPT !.pc = "openCheckout", !.p = p, !.pay = row]
  <2>4. g \in Frame
    BY <1>0, <2>3 DEF Frame, Steps
  <2>5. FrameGood(g, events)
    BY <1>0, <2>1 DEF Frame, FrameGood
  <2>6. UNCHANGED <<booking, member, clock, paystack, refund, history, crashes>>
    BY <1>4 DEF InitializeInsert
  <2>7. frame' \in [Workers -> Frame] /\ FramesGood'
    BY <2>2, <2>4, <2>5, <2>6, GoGood DEF paystack
  <2> QED
    BY <2>2, <2>3, <2>6, <2>7, PaymentStep
<1>5. CASE InitializeNoRow(w)
  BY <1>5, Over DEF InitializeNoRow, rows
<1>6. CASE InitializeOpenCheckout(w)
  <2>1. /\ f.pc = "openCheckout"
        /\ f.p \in Payments
    BY <1>0, <1>6 DEF InitializeOpenCheckout, At, FrameGood
  <2> DEFINE g == [f EXCEPT !.pc = "saveReference", !.pay.ref = TRUE]
  <2>2. [f.pay EXCEPT !.ref = TRUE] \in PaymentRow
    BY <1>0 DEF Frame, PaymentRow
  <2>3. g = [f EXCEPT !.pc = "saveReference",
                      !.pay = [f.pay EXCEPT !.ref = TRUE]]
    BY <1>0 DEF Frame
  <2>4. g \in Frame
    BY <1>0, <2>2, <2>3 DEF Frame, Steps
  <2>5. FrameGood(g, events)
    BY <1>0, <2>1, <2>3 DEF Frame, FrameGood, PaymentRow
  <2>6. UNCHANGED events /\ (Go(w, g) \/ Finish(w))
    BY <1>6 DEF InitializeOpenCheckout
  <2>7. frame' \in [Workers -> Frame] /\ FramesGood'
    BY <2>4, <2>5, <2>6, GoGood, FinishGood
  <2>8. opened' \subseteq Payments
    BY <1>6, <2>1 DEF InitializeOpenCheckout, IInv, TypeOK
  <2> QED
    BY <1>6, <2>7, <2>8
       DEF InitializeOpenCheckout, IInv, TypeOK, RowsGood, RefundsAreOfCharges,
           Charged, clock, history
<1>7. CASE InitializeSaveReference(w)
  <2>1. f.pc = "saveReference" /\ f.p \in Payments
    BY <1>0, <1>7 DEF InitializeSaveReference, At, FrameGood
  <2>2. f.pay \in PaymentRow /\ RowGood(f.pay, f.p, events)
    BY <1>0, <2>1 DEF Frame, FrameGood, RowGood
  <2>3. frame' \in [Workers -> Frame] /\ FramesGood'
    BY <1>7, FinishGood DEF InitializeSaveReference, paystack
  <2> QED
    BY <1>7, <2>1, <2>2, <2>3, PaymentStep DEF InitializeSaveReference
<1> QED
  BY <1>1, <1>2, <1>3, <1>4, <1>5, <1>6, <1>7 DEF Initialize

\* Requests and the cron job start from a row they read themselves.
LEMMA RequestKeeps ==
    ASSUME IInv, NEW w \in Workers, Request(w)
    PROVE  IInv'
<1>1. ASSUME NEW p \in Payments, Webhook(w, p)
      PROVE  IInv'
  <2> DEFINE g1 == [Idle EXCEPT !.op = "chargeSuccess",
                                !.pc = "findForSuccess", !.p = p]
             g2 == [Idle EXCEPT !.op = "chargeFailed",
                                !.pc = "findForFailed", !.p = p]
  <2>1. g1 \in Frame /\ g2 \in Frame /\ FrameGood(g2, events)
    BY IdleGood DEF Idle, Frame, FrameGood, Ops, Steps
  <2>2. "charge.success" \in events[p] => FrameGood(g1, events)
    BY DEF Idle, FrameGood
  <2>3. /\ \/ "charge.success" \in events[p] /\ Go(w, g1)
           \/ Go(w, g2)
        /\ UNCHANGED rows
    BY <1>1 DEF Webhook, rows
  <2> QED
    BY <2>1, <2>2, <2>3, MoveOn
<1>2. ASSUME NEW p \in Payments, RefundStart(w, p)
      PROVE  IInv'
  <2> DEFINE g == [Idle EXCEPT !.op = "refund", !.pc = "callRefund", !.p = p,
                               !.b = payment[p].booking, !.pay = payment[p]]
  <2>1. /\ payment[p].status = "success" /\ Go(w, g)
        /\ UNCHANGED rows
    BY <1>2 DEF RefundStart, rows
  <2>2. /\ payment[p].booking \in Bookings
        /\ "charge.success" \in events[p] /\ payment[p].ref
        /\ payment[p] \in PaymentRow
    BY <2>1, RowHeld DEF RowGood
  <2>3. g \in Frame
    BY <2>2, IdleGood DEF Idle, Frame, Ops, Steps
  <2>4. FrameGood(g, events)
    BY <2>2 DEF Idle, FrameGood
  <2> QED
    BY <2>1, <2>3, <2>4, MoveOn
<1>3. ASSUME NEW b \in Bookings, ConfirmStart(w, b)
      PROVE  IInv'
  <2> DEFINE g == [Idle EXCEPT !.op = "confirm", !.pc = "confirmRead", !.b = b]
  <2>1. g \in Frame /\ FrameGood(g, events)
    BY IdleGood DEF Idle, Frame, FrameGood, Ops, Steps
  <2> QED
    BY <1>3, <2>1, MoveOn DEF ConfirmStart, rows
<1>4. ASSUME NEW b \in Bookings, NEW row \in BookingRow
      PROVE  /\ LET g == [Idle EXCEPT !.op = "complete", !.pc = "completeSave",
                                      !.b = b, !.bk = row]
                IN  g \in Frame /\ FrameGood(g, events)
             /\ LET g == [[Idle EXCEPT !.b = b] EXCEPT
                              !.op = "cancel", !.pc = "cancelSave", !.bk = row]
                IN  g \in Frame /\ FrameGood(g, events)
  BY IdleGood DEF Idle, Frame, FrameGood, Ops, Steps
<1>5. ASSUME NEW b \in Bookings
      PROVE  /\ [booking[b] EXCEPT !.status = "completed"] \in BookingRow
             /\ [booking[b] EXCEPT !.status = "cancelled"] \in BookingRow
  BY BookingHeld DEF BookingRow, BookingStatus
<1>6. ASSUME NEW b \in Bookings, CompleteStart(w, b)
      PROVE  IInv'
  BY <1>4, <1>5, <1>6, MoveOn DEF CompleteStart, rows
<1>7. ASSUME NEW b \in Bookings, NEW u \in Users, CancelStart(w, b, u)
      PROVE  IInv'
  <2>1. booking[[Idle EXCEPT !.b = b].b] = booking[b]
    BY DEF Idle
  <2> QED
    BY <1>4, <1>5, <1>7, <2>1, MoveOn DEF CancelStart, HoldCancelled, rows
<1> QED
  BY <1>1, <1>2, <1>3, <1>6, <1>7 DEF Request

LEMMA ReconcileKeeps ==
    ASSUME IInv, NEW w \in Workers, ReconcileStart(w) \/ ReconcileVerify(w)
    PROVE  IInv'
<1>1. CASE ReconcileStart(w)
  <2>1. Reconcilable \in SUBSET Payments
    BY DEF Reconcilable
  <2> QED
    BY <1>1, <2>1, ReturnGood, FrameStep DEF ReconcileStart, rows, paystack
<1>2. CASE ReconcileVerify(w)
  <2>1. frame[w].batch \in SUBSET Payments
    BY Held DEF Frame
  <2>2. PICK p \in frame[w].batch :
          LET rest == frame[w].batch \ {p}
              f == [Idle EXCEPT !.p = p, !.batch = rest]
          IN  \/ /\ "charge.success" \in events[p]
                 /\ Go(w, [f EXCEPT !.op = "chargeSuccess",
                                    !.pc = "findForSuccess"])
              \/ Go(w, [f EXCEPT !.op = "chargeFailed",
                                 !.pc = "findForFailed"])
              \/ Return(w, rest)
    BY <1>2 DEF ReconcileVerify
  <2> DEFINE rest == frame[w].batch \ {p}
             f == [Idle EXCEPT !.p = p, !.batch = rest]
             g1 == [f EXCEPT !.op = "chargeSuccess", !.pc = "findForSuccess"]
             g2 == [f EXCEPT !.op = "chargeFailed", !.pc = "findForFailed"]
  <2>3. p \in Payments /\ rest \in SUBSET Payments
    BY <2>1
  <2>4. g1 \in Frame /\ g2 \in Frame /\ FrameGood(g2, events)
    BY <2>3, IdleGood DEF Idle, Frame, FrameGood, Ops, Steps
  <2>5. "charge.success" \in events[p] => FrameGood(g1, events)
    BY <2>3 DEF Idle, FrameGood
  <2>6. UNCHANGED rows
    BY <1>2 DEF ReconcileVerify, rows
  <2>7. CASE Return(w, rest)
    BY <2>3, <2>6, <2>7, ReturnGood, FrameStep DEF rows, paystack
  <2> QED
    BY <2>2, <2>4, <2>5, <2>6, <2>7, MoveOn
<1> QED
  BY <1>1, <1>2

\* Charges and confirmations: a copy marked "success" or "failed" was made from
\* a row that still allowed it.
LEMMA OutcomeKeeps ==
    ASSUME IInv, NEW w \in Workers, Outcome(w)
    PROVE  IInv'
<1> DEFINE f == frame[w]
<1>0. f \in Frame /\ FrameGood(f, events)
  BY Held
<1>1. CASE ChargeSuccessFind(w)
  <2>1. /\ f.pc = "findForSuccess" /\ f.p \in Payments
        /\ "charge.success" \in events[f.p]
    BY <1>0, <1>1 DEF ChargeSuccessFind, At, FrameGood
  <2> DEFINE row == payment[f.p]
             copy == [row EXCEPT !.status = "success"]
             g == [f EXCEPT !.pc = "saveSuccess", !.b = row.booking,
                            !.pay = copy]
  <2>2. row \in PaymentRow /\ RowGood(row, f.p, events)
    BY <2>1, RowHeld
  <2>3. copy \in PaymentRow /\ copy.ref = row.ref /\ copy.booking = row.booking
    BY <2>2 DEF PaymentRow, PaymentStatus
  <2>4. row.ref /\ row.status \in {"pending", "failed"} =>
            g \in Frame /\ FrameGood(g, events)
    <3> SUFFICES ASSUME row.ref, row.status \in {"pending", "failed"}
                 PROVE  g \in Frame /\ FrameGood(g, events)
      OBVIOUS
    <3>1. row.booking \in Bookings
      BY <2>2 DEF RowGood
    <3> HIDE DEF row, copy
    <3>2. g \in Frame
      BY <1>0, <2>3, <3>1 DEF Frame, Steps
    <3>3. FrameGood(g, events)
      BY <1>0, <2>1, <2>3, <3>1 DEF Frame, FrameGood
    <3> QED
      BY <3>2, <3>3
  <2>5. \/ row.ref /\ row.status \in {"pending", "failed"} /\ Go(w, g)
        \/ Finish(w)
    BY <1>1 DEF ChargeSuccessFind
  <2>6. UNCHANGED rows
    BY <1>1 DEF ChargeSuccessFind, rows
  <2> QED
    BY <2>4, <2>5, <2>6, MoveOn, Over
<1>2. CASE ChargeSuccessSave(w)
  <2>1. f.pc = "saveSuccess" /\ f.p \in Payments /\ f.b \in Bookings
    BY <1>0, <1>2 DEF ChargeSuccessSave, At, FrameGood
  <2>2. f.pay \in PaymentRow /\ RowGood(f.pay, f.p, events)
    BY <1>0, <2>1 DEF Frame, FrameGood, RowGood
  <2> DEFINE g == [f EXCEPT !.pc = "confirmRead"]
  <2>3. g \in Frame /\ FrameGood(g, events)
    BY <1>0, <2>1 DEF Frame, FrameGood, Steps
  <2>4. frame' \in [Workers -> Frame] /\ FramesGood'
    BY <1>2, <2>3, GoGood DEF ChargeSuccessSave, paystack
  <2> QED
    BY <1>2, <2>1, <2>2, <2>4, PaymentStep DEF ChargeSuccessSave
<1>3. CASE ChargeFailedFind(w)
  <2>1. f.pc = "findForFailed" /\ f.p \in Payments
    BY <1>0, <1>3 DEF ChargeFailedFind, At, FrameGood
  <2> DEFINE row == payment[f.p]
             copy == [row EXCEPT !.status = "failed"]
             g == [f EXCEPT !.pc = "saveFailed", !.pay = copy]
  <2>2. row \in PaymentRow /\ RowGood(row, f.p, events)
    BY <2>1, RowHeld
  <2>3. /\ copy \in PaymentRow /\ copy.status = "failed"
        /\ copy.booking = row.booking
    BY <2>2 DEF PaymentRow, PaymentStatus
  <2>4. row.status = "pending" => g \in Frame /\ FrameGood(g, events)
    <3> SUFFICES ASSUME row.status = "pending"
                 PROVE  g \in Frame /\ FrameGood(g, events)
      OBVIOUS
    <3>1. row.booking \in Bookings
      BY <2>2 DEF RowGood
    <3> HIDE DEF row, copy
    <3>2. g \in Frame
      BY <1>0, <2>3 DEF Frame, Steps
    <3>3. FrameGood(g, events)
      BY <1>0, <2>1, <2>3, <3>1 DEF Frame, FrameGood
    <3> QED
      BY <3>2, <3>3
  <2>5. \/ row.status = "pending" /\ Go(w, g)
        \/ Finish(w)
    BY <1>3 DEF ChargeFailedFind
  <2>6. UNCHANGED rows
    BY <1>3 DEF ChargeFailedFind, rows
  <2> QED
    BY <2>4, <2>5, <2>6, MoveOn, Over
<1>4. CASE ChargeFailedSave(w)
  <2>1. f.pc = "saveFailed" /\ f.p \in Payments
    BY <1>0, <1>4 DEF ChargeFailedSave, At, FrameGood
  <2>2. f.pay \in PaymentRow /\ RowGood(f.pay, f.p, events)
    BY <1>0, <2>1 DEF Frame, FrameGood, RowGood
  <2>3. frame' \in [Workers -> Frame] /\ FramesGood'
    BY <1>4, FinishGood DEF ChargeFailedSave, paystack
  <2> QED
    BY <1>4, <2>1, <2>2, <2>3, PaymentStep DEF ChargeFailedSave
<1>5. CASE ConfirmRead(w)
  <2>1. f.pc = "confirmRead" /\ f.b \in Bookings
    BY <1>0, <1>5 DEF ConfirmRead, At, FrameGood
  <2> DEFINE copy == [booking[f.b] EXCEPT !.status = "confirmed"]
             g == [f EXCEPT !.pc = "confirmSave", !.bk = copy]
  <2>2. copy \in BookingRow
    BY <2>1, BookingHeld DEF BookingRow, BookingStatus
  <2>3. Go(w, g) \/ Finish(w)
    BY <1>5 DEF ConfirmRead
  <2> HIDE DEF copy
  <2>4. g \in Frame /\ FrameGood(g, events)
    BY <1>0, <2>1, <2>2 DEF Frame, FrameGood, Steps
  <2> QED
    BY <1>5, <2>3, <2>4, MoveOn, Over DEF ConfirmRead, rows
<1>6. CASE ConfirmSave(w)
  <2>1. f.pc = "confirmSave" /\ f.b \in Bookings /\ f.bk \in BookingRow
    BY <1>0, <1>6 DEF ConfirmSave, At, FrameGood, Frame
  <2> DEFINE g == [f EXCEPT !.pc = "activate"]
  <2>2. g \in Frame /\ FrameGood(g, events)
    BY <1>0, <2>1 DEF Frame, FrameGood, Steps
  <2>3. frame' \in [Workers -> Frame] /\ FramesGood'
    BY <1>6, <2>2, GoGood DEF ConfirmSave, paystack
  <2>4. booking' \in [Bookings -> BookingRow]
    BY <1>6, <2>1 DEF ConfirmSave, IInv, TypeOK
  <2>5. confirmedBy' \in [Bookings -> Payments \cup {NoPayment, ByAdmin}]
    BY <1>0, <1>6 DEF ConfirmSave, IInv, TypeOK, Frame
  <2> QED
    BY <1>6, <2>3, <2>4, <2>5
       DEF ConfirmSave, IInv, TypeOK, RowsGood, RefundsAreOfCharges, Charged,
           clock, paystack
<1>7. CASE Activate(w)
  <2>1. /\ f.pc = "activate" /\ f.b \in Bookings
        /\ f.op = "chargeSuccess" => f.p \in Payments
    BY <1>0, <1>7 DEF Activate, At, FrameGood
  <2> DEFINE g == [f EXCEPT !.pc = "createEscrow"]
  <2>2. f.op = "chargeSuccess" => g \in Frame /\ FrameGood(g, events)
    BY <1>0, <2>1 DEF Frame, FrameGood, Steps
  <2>3. \/ Finish(w) /\ UNCHANGED invoiceAsked
        \/ f.op = "chargeSuccess" /\ Go(w, g) /\ UNCHANGED invoiceAsked
        \/ /\ f.op = "chargeSuccess" /\ Finish(w)
           /\ invoiceAsked' = invoiceAsked \cup {f.p}
    BY <1>7 DEF Activate, AskInvoice
  <2>4. UNCHANGED events
    BY <1>7 DEF Activate, paystack
  <2>5. frame' \in [Workers -> Frame] /\ FramesGood'
    BY <2>2, <2>3, <2>4, GoGood, FinishGood
  <2>6. member' \subseteq Users
    BY <1>7, <2>1, ParamsAssumption DEF Activate, IInv, TypeOK
  <2>7. invoiceAsked' \subseteq Payments
    BY <2>1, <2>3 DEF IInv, TypeOK
  <2> QED
    BY <1>7, <2>5, <2>6, <2>7
       DEF Activate, IInv, TypeOK, RowsGood, RefundsAreOfCharges, Charged,
           clock, paystack
<1>8. CASE CreateEscrow(w)
  <2>1. /\ f.pc = "createEscrow" /\ f.b \in Bookings /\ f.p \in Payments
        /\ f.op = "chargeSuccess"
    BY <1>0, <1>8 DEF CreateEscrow, At, FrameGood
  <2> DEFINE g == [f EXCEPT !.pc = "linkEscrow"]
  <2>2. g \in Frame /\ FrameGood(g, events)
    BY <1>0, <2>1 DEF Frame, FrameGood, Steps
  <2>3. \/ Go(w, g) /\ UNCHANGED invoiceAsked
        \/ Finish(w) /\ invoiceAsked' = invoiceAsked \cup {f.p}
    BY <1>8 DEF CreateEscrow, AskInvoice
  <2>4. UNCHANGED events
    BY <1>8 DEF CreateEscrow, paystack
  <2>5. frame' \in [Workers -> Frame] /\ FramesGood'
    BY <2>2, <2>3, <2>4, GoGood, FinishGood
  <2>6. onChain' \in [Bookings -> 0..CountCap]
    BY <1>8, <2>1 DEF CreateEscrow, IInv, TypeOK, Bump, CountCap
  <2>7. invoiceAsked' \subseteq Payments
    BY <2>1, <2>3 DEF IInv, TypeOK
  <2> QED
    BY <1>8, <2>5, <2>6, <2>7
       DEF CreateEscrow, IInv, TypeOK, RowsGood, RefundsAreOfCharges, Charged,
           clock, paystack
<1>9. CASE LinkEscrow(w)
  <2>1. f.b \in Bookings /\ f.p \in Payments
    BY <1>0, <1>9 DEF LinkEscrow, At, FrameGood
  <2>2. Finish(w) /\ invoiceAsked' = invoiceAsked \cup {f.p}
    BY <1>9 DEF LinkEscrow, AskInvoice
  <2>3. frame' \in [Workers -> Frame] /\ FramesGood'
    BY <1>9, <2>2, FinishGood DEF LinkEscrow, paystack
  <2>4. [booking[f.b] EXCEPT !.escrowed = TRUE] \in BookingRow
    BY <2>1, BookingHeld DEF BookingRow
  <2>5. booking' \in [Bookings -> BookingRow]
    BY <1>9, <2>1, <2>4 DEF LinkEscrow, IInv, TypeOK
  <2> QED
    BY <1>9, <2>1, <2>2, <2>3, <2>5
       DEF LinkEscrow, IInv, TypeOK, RowsGood, RefundsAreOfCharges, Charged,
           clock, paystack
<1> QED
  BY <1>1, <1>2, <1>3, <1>4, <1>5, <1>6, <1>7, <1>8, <1>9 DEF Outcome

\* Cancellation, completion and refunds: a refund is asked for a copy that was
\* read SUCCESS, and SUCCESS rows were charged.
LEMMA CancelKeeps ==
    ASSUME IInv, NEW w \in Workers, Cancel(w)
    PROVE  IInv'
<1> DEFINE f == frame[w]
           toSeats == [f EXCEPT !.pc = "freeSeats"]
<1>0. f \in Frame /\ FrameGood(f, events)
  BY Held
<1>f. f.b \in Bookings => toSeats \in Frame /\ FrameGood(toSeats, events)
  BY <1>0 DEF Frame, FrameGood, Steps
<1>1. CASE CancelRead(w)
  <2>1. f.b \in Bookings
    BY <1>0, <1>1 DEF CancelRead, At, FrameGood
  <2> DEFINE copy == [booking[f.b] EXCEPT !.status = "cancelled"]
             g == [f EXCEPT !.op = "cancel", !.pc = "cancelSave", !.bk = copy]
  <2>2. copy \in BookingRow
    BY <2>1, BookingHeld DEF BookingRow, BookingStatus
  <2>3. Go(w, g) \/ Finish(w)
    BY <1>1 DEF CancelRead, HoldCancelled
  <2> HIDE DEF copy
  <2>4. g \in Frame
    BY <1>0, <2>2 DEF Frame, Steps, Ops
  <2>5. FrameGood(g, events)
    BY <1>0, <2>1 DEF Frame, FrameGood
  <2> QED
    BY <1>1, <2>3, <2>4, <2>5, MoveOn, Over DEF CancelRead, rows
<1>2. CASE CancelSave(w) \/ CompleteSave(w)
  <2>1. f.b \in Bookings /\ f.bk \in BookingRow
    BY <1>0, <1>2 DEF CancelSave, CompleteSave, At, FrameGood, Frame
  <2> DEFINE g == [f EXCEPT !.pc = "findPaid"]
  <2>2. g \in Frame /\ FrameGood(g, events)
    BY <1>0, <2>1 DEF Frame, FrameGood, Steps
  <2>3. /\ Go(w, g) \/ Go(w, toSeats)
        /\ UNCHANGED events
    BY <1>2 DEF CancelSave, CompleteSave, paystack
  <2>4. frame' \in [Workers -> Frame] /\ FramesGood'
    BY <1>f, <2>1, <2>2, <2>3, GoGood
  <2>5. booking' \in [Bookings -> BookingRow]
    BY <1>2, <2>1 DEF CancelSave, CompleteSave, IInv, TypeOK
  <2> QED
    BY <1>2, <2>4, <2>5
       DEF CancelSave, CompleteSave, IInv, TypeOK, RowsGood,
           RefundsAreOfCharges, Charged, clock, paystack, history
<1>3. CASE CancelFindPaid(w)
  <2>1. f.b \in Bookings
    BY <1>0, <1>3 DEF CancelFindPaid, At, FrameGood
  <2>2. ASSUME NEW p \in PaidFor(f.b),
               Go(w, [f EXCEPT !.pc = "callRefund", !.p = p,
                               !.pay = payment[p]])
        PROVE  IInv'
    <3> DEFINE row == payment[p]
               g == [f EXCEPT !.pc = "callRefund", !.p = p, !.pay = row]
    <3>1. p \in Payments /\ row.status = "success"
      BY DEF PaidFor
    <3>2. /\ row \in PaymentRow /\ row.ref /\ row.booking \in Bookings
          /\ "charge.success" \in events[p]
      BY <3>1, RowHeld DEF RowGood
    <3> HIDE DEF row
    <3>3. g \in Frame
      BY <1>0, <3>1, <3>2 DEF Frame, Steps
    <3>4. FrameGood(g, events)
      BY <1>0, <2>1, <3>1, <3>2 DEF Frame, FrameGood
    <3>5. Go(w, g)
      BY <2>2 DEF row
    <3> QED
      BY <1>3, <3>3, <3>4, <3>5, MoveOn DEF CancelFindPaid, rows
  <2>3. CASE Go(w, toSeats)
    BY <1>3, <1>f, <2>1, <2>3, MoveOn DEF CancelFindPaid, rows
  <2> QED
    BY <1>3, <2>2, <2>3 DEF CancelFindPaid
<1>4. CASE FreeSeats(w)
  <2>1. f.b \in Bookings
    BY <1>0, <1>4 DEF FreeSeats, At, FrameGood
  <2>2. frame' \in [Workers -> Frame] /\ FramesGood'
    BY <1>4, FinishGood DEF FreeSeats, paystack
  <2>3. freed' \in [Bookings -> 0..CountCap]
    BY <1>4, <2>1 DEF FreeSeats, IInv, TypeOK, Bump, CountCap
  <2> QED
    BY <1>4, <2>2, <2>3
       DEF FreeSeats, IInv, TypeOK, RowsGood, RefundsAreOfCharges, Charged,
           clock, paystack
<1>5. CASE CallRefund(w)
  <2>1. /\ f.pc = "callRefund" /\ f.p \in Payments /\ f.b \in Bookings
        /\ "charge.success" \in events[f.p]
        /\ f.pay.ref /\ f.pay.booking \in Bookings
    BY <1>0, <1>5 DEF CallRefund, At, FrameGood
  <2> DEFINE copy == [f.pay EXCEPT !.status = "refunded"]
             g == [f EXCEPT !.pc = "saveRefunded", !.pay = copy]
  <2>2. /\ copy \in PaymentRow
        /\ copy.ref = f.pay.ref /\ copy.booking = f.pay.booking
    BY <1>0 DEF Frame, PaymentRow, PaymentStatus
  <2>3. [f EXCEPT !.pc = "saveRefunded", !.pay.status = "refunded"] = g
    BY <1>0 DEF Frame
  <2>4. Go(w, g) \/ Go(w, toSeats) \/ Finish(w)
    BY <1>5, <2>3 DEF CallRefund
  <2> HIDE DEF copy
  <2>5. g \in Frame /\ FrameGood(g, events)
    BY <1>0, <2>1, <2>2 DEF Frame, FrameGood, Steps
  <2>6. UNCHANGED events
    BY <1>5 DEF CallRefund, paystack
  <2>7. frame' \in [Workers -> Frame] /\ FramesGood'
    BY <1>f, <2>1, <2>4, <2>5, <2>6, GoGood, FinishGood
  <2>8. \E r \in RefundLog : refund' = [refund EXCEPT ![f.p] = r]
    BY <1>5, <2>1 DEF CallRefund, Acked, Unacked, RefundLog
  <2>9. /\ refund' \in [Payments -> RefundLog]
        /\ \A p \in Payments \ {f.p} : refund'[p] = refund[p]
    BY <2>8 DEF IInv, TypeOK
  <2>10. RefundsAreOfCharges'
    BY <2>1, <2>6, <2>9 DEF IInv, RefundsAreOfCharges, Charged
  <2> QED
    BY <1>5, <2>7, <2>9, <2>10
       DEF CallRefund, IInv, TypeOK, RowsGood, clock, paystack, history
<1>6. CASE SaveRefunded(w)
  <2>1. f.pc = "saveRefunded" /\ f.p \in Payments /\ f.b \in Bookings
    BY <1>0, <1>6 DEF SaveRefunded, At, FrameGood
  <2>2. f.pay \in PaymentRow /\ RowGood(f.pay, f.p, events)
    BY <1>0, <2>1 DEF Frame, FrameGood, RowGood
  <2> DEFINE g == [f EXCEPT !.pc = "afterRefund"]
  <2>3. g \in Frame /\ FrameGood(g, events)
    BY <1>0, <2>1 DEF Frame, FrameGood, Steps
  <2>4. /\ Go(w, g) \/ Go(w, toSeats)
        /\ UNCHANGED events
    BY <1>6 DEF SaveRefunded, paystack
  <2>5. frame' \in [Workers -> Frame] /\ FramesGood'
    BY <1>f, <2>1, <2>3, <2>4, GoGood
  <2> QED
    BY <1>6, <2>1, <2>2, <2>5, PaymentStep DEF SaveRefunded
<1>7. CASE RefundThenCancel(w)
  <2>1. f.b \in Bookings
    BY <1>0, <1>7 DEF RefundThenCancel, At, FrameGood
  <2> DEFINE g == [f EXCEPT !.pc = "cancelRead"]
  <2>2. g \in Frame /\ FrameGood(g, events)
    BY <1>0, <2>1 DEF Frame, FrameGood, Steps
  <2> QED
    BY <1>7, <2>2, MoveOn, Over DEF RefundThenCancel, rows
<1> QED
  BY <1>1, <1>2, <1>3, <1>4, <1>5, <1>6, <1>7 DEF Cancel

\* Paystack's events only accumulate; a restart forgets the frames.
LEMMA EnvironmentKeeps ==
    ASSUME IInv, Environment
    PROVE  IInv'
<1>1. ASSUME NEW p \in Payments, CustomerPays(p) \/ CardDeclined(p)
      PROVE  IInv'
  <2>1. /\ events' \in [Payments -> SUBSET EventTypes]
        /\ \A q \in Payments : events[q] \subseteq events'[q]
    BY <1>1 DEF CustomerPays, CardDeclined, IInv, TypeOK, EventTypes
  <2>2. UNCHANGED <<payment, frame, refund>>
    BY <1>1 DEF CustomerPays, CardDeclined
  <2>3. RowsGood' /\ RefundsAreOfCharges'
    BY <2>1, <2>2 DEF IInv, RowsGood, RowGood, RefundsAreOfCharges, Charged
  <2>4. ASSUME NEW w \in Workers
        PROVE  FrameGood(frame'[w], events')
    BY <2>1, <2>2, Held DEF FrameGood
  <2> QED
    BY <1>1, <2>1, <2>3, <2>4
       DEF CustomerPays, CardDeclined, IInv, TypeOK, FramesGood, clock, history
<1>2. ASSUME NEW b \in Bookings, RefundWindowCloses(b)
      PROVE  IInv'
  BY <1>2 DEF RefundWindowCloses, IInv, TypeOK, RowsGood, FramesGood,
              RefundsAreOfCharges, Charged, paystack, history
<1>3. ASSUME NEW p \in Payments, PaymentAges(p)
      PROVE  IInv'
  <2>1. age' \in [Payments -> Ages]
    BY <1>3 DEF PaymentAges, IInv, TypeOK, Ages
  <2> QED
    BY <1>3, <2>1 DEF PaymentAges, IInv, TypeOK, RowsGood, FramesGood,
                      RefundsAreOfCharges, Charged, paystack, history
<1>4. CASE Crash
  <2>1. frame' \in [Workers -> Frame] /\ FramesGood'
    BY <1>4, IdleGood DEF Crash, FramesGood
  <2>2. crashes' \in 0..MaxCrashes
    BY <1>4, ParamsAssumption DEF Crash, IInv, TypeOK
  <2> QED
    BY <1>4, <2>1, <2>2
       DEF Crash, IInv, TypeOK, RowsGood, RefundsAreOfCharges, Charged, clock,
           paystack, history
<1> QED
  BY <1>1, <1>2, <1>3, <1>4 DEF Environment

-----------------------------------------------------------------------------
LEMMA IInvInit == Init => IInv
<1> SUFFICES ASSUME Init PROVE IInv
  OBVIOUS
<1>1. NewBooking \in BookingRow /\ AbsentPayment \in PaymentRow
  BY DEF NewBooking, AbsentPayment, BookingRow, PaymentRow, BookingStatus,
         PaymentStatus
<1>2. /\ booking \in [Bookings -> BookingRow]
      /\ payment \in [Payments -> PaymentRow]
      /\ windowOpen \in [Bookings -> BOOLEAN] /\ age \in [Payments -> Ages]
      /\ events \in [Payments -> SUBSET EventTypes]
      /\ refund \in [Payments -> RefundLog]
      /\ onChain \in [Bookings -> 0..CountCap]
      /\ freed \in [Bookings -> 0..CountCap]
      /\ confirmedBy \in [Bookings -> Payments \cup {NoPayment, ByAdmin}]
  BY <1>1 DEF Init, Ages, RefundLog, CountCap
<1>3. frame \in [Workers -> Frame] /\ FramesGood
  BY IdleGood DEF Init, FramesGood
<1>4. TypeOK
  BY <1>2, <1>3, ParamsAssumption DEF Init, TypeOK
<1>5. RowsGood /\ RefundsAreOfCharges
  BY DEF Init, RowsGood, RowGood, AbsentPayment, RefundsAreOfCharges
<1> QED
  BY <1>3, <1>4, <1>5 DEF IInv

LEMMA IInvNext == IInv /\ [Next]_vars => IInv'
<1> SUFFICES ASSUME IInv, [Next]_vars PROVE IInv'
  OBVIOUS
<1>1. CASE UNCHANGED vars
  BY <1>1 DEF vars, IInv, TypeOK, RowsGood, FramesGood, RefundsAreOfCharges,
              Charged, clock, paystack, history
<1>2. CASE Next
  BY <1>2, InitializeKeeps, RequestKeeps, ReconcileKeeps, OutcomeKeeps,
     CancelKeeps, EnvironmentKeeps DEF Next
<1> QED
  BY <1>1, <1>2

\* Every row, every copy in flight and every log stays well formed.
THEOREM TypeCorrect == Spec => []TypeOK
<1>1. IInv => TypeOK
  BY DEF IInv
<1> QED
  BY <1>1, IInvInit, IInvNext, PTL DEF Spec

\* Whatever stale copies are saved, a SUCCESS or REFUNDED row was charged and
\* carries the reference its money is found under.
THEOREM PaidRowsAreReal == Spec => []PaidRowsWereCharged
<1>1. IInv => PaidRowsWereCharged
  BY DEF IInv, RowsGood, RowGood, PaidRowsWereCharged, Charged
<1> QED
  BY <1>1, IInvInit, IInvNext, PTL DEF Spec

\* Paystack is never asked to give back what it did not take.
THEOREM RefundsAreReal == Spec => []RefundsAreOfCharges
<1>1. IInv => RefundsAreOfCharges
  BY DEF IInv
<1> QED
  BY <1>1, IInvInit, IInvNext, PTL DEF Spec

-----------------------------------------------------------------------------
(***************************************************************************)
(* What the handlers know of the rows while they run concurrently.  Every  *)
(* such fact only grows: a payment keeps its booking and its reference, a  *)
(* booking once confirmed keeps a confirmation, Paystack's events stay.    *)
(* The exception is the row a handler inserted and is about to save again  *)
(* (a checkout is being opened): nobody else can find it, because it has   *)
(* no reference yet, so it is still as it was inserted.                    *)
(***************************************************************************)
Opening == {"openCheckout", "saveReference"}
Paying == {"saveSuccess", "saveFailed", "callRefund", "saveRefunded"}
Confirming == {"confirmRead", "confirmSave", "activate", "createEscrow", "linkEscrow"}
Saving == {"confirmSave", "cancelSave", "completeSave"}

\* Payment p of booking b was charged.
ChargeOf(p, b, pt, ev) ==
    pt[p].status # "absent" /\ pt[p].booking = b /\ "charge.success" \in ev[p]

Funded(b, pt, cb, ev) ==
    /\ b \in LongTerm /\ EscrowEnabled /\ cb[b] # NoPayment
    /\ \E p \in Payments : ChargeOf(p, b, pt, ev)

Knows(f, pt, cb, ev) ==
    /\ f.pc \in Paying =>
           /\ pt[f.p].status # "absent" /\ pt[f.p].ref /\ pt[f.p].booking = f.pay.booking
           /\ f.pay.ref
    /\ f.pc = "saveSuccess" =>
           f.op = "chargeSuccess" /\ f.b = f.pay.booking /\ f.pay.status = "success"
    /\ f.pc = "saveFailed" => f.pay.status = "failed"
    /\ f.pc = "saveRefunded" => f.pay.status = "refunded"
    /\ f.pc \in Confirming =>
           /\ f.op \in {"confirm", "chargeSuccess"}
           /\ f.op = "chargeSuccess" => ChargeOf(f.p, f.b, pt, ev)
    /\ f.pc \in {"activate", "createEscrow", "linkEscrow", "completeSave"} =>
           cb[f.b] # NoPayment
    /\ f.pc \in {"createEscrow", "linkEscrow"} => f.b \in LongTerm /\ EscrowEnabled
    /\ f.pc = "confirmSave" => f.bk.status = "confirmed"
    /\ f.pc = "cancelSave" => f.bk.status = "cancelled"
    /\ f.pc = "completeSave" => f.bk.status = "completed"
    /\ f.pc \in Saving /\ f.bk.escrowed => Funded(f.b, pt, cb, ev)

Fresh(f, pt) ==
    f.pc \in Opening =>
        /\ pt[f.p].status = "pending" /\ ~pt[f.p].ref
        /\ f.pay.booking = pt[f.p].booking /\ f.pay.status = "pending"

Facts ==
    /\ \A b \in Bookings : confirmedBy[b] # NoPayment =>
           \/ confirmedBy[b] = ByAdmin
           \/ confirmedBy[b] \in Payments /\ ChargeOf(confirmedBy[b], b, payment, events)
    /\ \A b \in Bookings : booking[b].status \in {"confirmed", "completed"} =>
           confirmedBy[b] # NoPayment
    /\ \A b \in Bookings : onChain[b] > 0 \/ booking[b].escrowed =>
           Funded(b, payment, confirmedBy, events)
    /\ \A p \in invoiceAsked : \E b \in Bookings :
           ChargeOf(p, b, payment, events) /\ confirmedBy[b] # NoPayment
    /\ \A u \in member : \E b \in Bookings : Owner[b] = u /\ confirmedBy[b] # NoPayment

OpenedOnce ==
    \A v, w \in Workers :
        v # w /\ frame[v].pc \in Opening /\ frame[w].pc \in Opening => frame[v].p # frame[w].p

HInv ==
    /\ IInv
    /\ \A w \in Workers : Knows(frame[w], payment, confirmedBy, events)
    /\ \A w \in Workers : Fresh(frame[w], payment)
    /\ OpenedOnce
    /\ Facts

Grows ==
    /\ \A p \in Payments : payment[p].status # "absent" =>
           /\ payment'[p].status # "absent" /\ payment'[p].booking = payment[p].booking
           /\ payment[p].ref => payment'[p].ref
    /\ \A b \in Bookings : confirmedBy[b] # NoPayment => confirmedBy'[b] # NoPayment
    /\ \A p \in Payments : events[p] \subseteq events'[p]

\* The step of PendingNeverReturns.
StaysSettled ==
    /\ \A p \in Payments : payment'[p].status = "pending" =>
           payment[p].status \in {"absent", "pending"}
    /\ \A b \in Bookings : booking'[b].status = "pending" => booking[b].status = "pending"

LEMMA ChargeGrows ==
    ASSUME Grows, NEW p \in Payments, NEW b, ChargeOf(p, b, payment, events)
    PROVE  ChargeOf(p, b, payment', events')
BY DEF Grows, ChargeOf

LEMMA FundedGrows ==
    ASSUME Grows, NEW b \in Bookings, Funded(b, payment, confirmedBy, events)
    PROVE  Funded(b, payment', confirmedBy', events')
<1>1. PICK p \in Payments : ChargeOf(p, b, payment, events)
  BY DEF Funded
<1>2. ChargeOf(p, b, payment', events')
  BY <1>1, ChargeGrows
<1> QED
  BY <1>2 DEF Funded, Grows

LEMMA KnowsGrows ==
    ASSUME Grows, NEW f \in Frame, FrameGood(f, events),
           Knows(f, payment, confirmedBy, events)
    PROVE  Knows(f, payment', confirmedBy', events')
<1>1. f.pc \in Paying => f.p \in Payments
  BY DEF FrameGood, Paying
<1>2. f.op = "chargeSuccess" => f.p \in Payments
  BY DEF FrameGood
<1>3. f.pc \in Confirming \cup Saving => f.b \in Bookings
  BY DEF FrameGood, Confirming, Saving
<1>4. f.pc \in Paying =>
          payment'[f.p].status # "absent" /\ payment'[f.p].ref
          /\ payment'[f.p].booking = f.pay.booking
  BY <1>1 DEF Grows, Knows
<1>5. f.pc \in Confirming /\ f.op = "chargeSuccess" => ChargeOf(f.p, f.b, payment', events')
  BY <1>2, ChargeGrows DEF Knows
<1>6. f.pc \in {"activate", "createEscrow", "linkEscrow", "completeSave"} =>
          confirmedBy'[f.b] # NoPayment
  BY <1>3 DEF Grows, Knows, Confirming, Saving
<1>7. f.pc \in Saving /\ f.bk.escrowed => Funded(f.b, payment', confirmedBy', events')
  BY <1>3, FundedGrows DEF Knows
<1> QED
  BY <1>4, <1>5, <1>6, <1>7 DEF Knows

LEMMA FactsGrow ==
    ASSUME HInv, Grows, UNCHANGED <<booking, confirmedBy, onChain, invoiceAsked, member>>
    PROVE  Facts'
<1>1. \A b \in Bookings : confirmedBy[b] # NoPayment =>
           \/ confirmedBy[b] = ByAdmin
           \/ confirmedBy[b] \in Payments /\ ChargeOf(confirmedBy[b], b, payment', events')
  BY ChargeGrows DEF HInv, Facts
<1>2. \A b \in Bookings : onChain[b] > 0 \/ booking[b].escrowed =>
           Funded(b, payment', confirmedBy', events')
  BY FundedGrows DEF HInv, Facts
<1>3. \A p \in invoiceAsked : \E b \in Bookings :
           ChargeOf(p, b, payment', events') /\ confirmedBy[b] # NoPayment
  BY ChargeGrows DEF HInv, Facts, IInv, TypeOK
<1> QED
  BY <1>1, <1>2, <1>3 DEF HInv, Facts

\* One worker moves on to frame g while the rows it does not own only grow.
LEMMA WorkerStep ==
    ASSUME HInv, IInv', NEW w \in Workers, NEW g, Go(w, g), Grows, Facts',
           Knows(g, payment', confirmedBy', events'), Fresh(g, payment'),
           \A v \in Workers \ {w} : frame[v].pc \in Opening =>
               /\ payment'[frame[v].p] = payment[frame[v].p]
               /\ g.pc \in Opening => frame[v].p # g.p
    PROVE  HInv'
<1>1. frame'[w] = g /\ \A v \in Workers \ {w} : frame'[v] = frame[v]
  BY DEF Go, HInv, IInv, TypeOK
<1>2. ASSUME NEW v \in Workers
      PROVE  Knows(frame'[v], payment', confirmedBy', events')
  <2>1. CASE v = w
    BY <1>1, <2>1
  <2>2. CASE v # w
    <3>1. frame[v] \in Frame /\ FrameGood(frame[v], events)
          /\ Knows(frame[v], payment, confirmedBy, events)
      BY Held DEF HInv
    <3> QED
      BY <1>1, <2>2, <3>1, KnowsGrows
  <2> QED
    BY <2>1, <2>2
<1>3. ASSUME NEW v \in Workers
      PROVE  Fresh(frame'[v], payment')
  <2>1. CASE v = w
    BY <1>1, <2>1
  <2>2. CASE v # w
    BY <1>1, <2>2 DEF HInv, Fresh
  <2> QED
    BY <2>1, <2>2
<1>4. OpenedOnce'
  BY <1>1 DEF HInv, OpenedOnce
<1> QED
  BY <1>2, <1>3, <1>4 DEF HInv

seen == <<booking, payment, events, confirmedBy, onChain, invoiceAsked, member>>

LEMMA QuietStep ==
    ASSUME HInv, IInv', NEW w \in Workers, NEW g, Go(w, g), UNCHANGED seen,
           Knows(g, payment, confirmedBy, events), Fresh(g, payment),
           g.pc \in Opening => frame[w].pc \in Opening /\ g.p = frame[w].p
    PROVE  HInv' /\ StaysSettled
<1>1. UNCHANGED <<booking, payment, events, confirmedBy, onChain, invoiceAsked, member>>
  BY DEF seen
<1>2. Grows /\ StaysSettled
  BY <1>1 DEF Grows, StaysSettled
<1>3. Facts'
  BY <1>1, <1>2, FactsGrow
<1>4. \A v \in Workers \ {w} : frame[v].pc \in Opening =>
          /\ payment'[frame[v].p] = payment[frame[v].p]
          /\ g.pc \in Opening => frame[v].p # g.p
  BY <1>1 DEF HInv, OpenedOnce
<1>5. HInv'
  BY <1>1, <1>2, <1>3, <1>4, WorkerStep
<1> QED
  BY <1>2, <1>5

\* Steps at which a handler holds nothing it could get wrong.
Dull == {"idle", "verifyNext", "findForSuccess", "findForFailed", "findPending",
         "reopenCheckout", "insertPayment", "findPaid", "afterRefund", "freeSeats",
         "cancelRead"}

LEMMA DullKnows ==
    ASSUME NEW g, g.pc \in Dull
    PROVE  /\ \A pt, cb, ev : Knows(g, pt, cb, ev) /\ Fresh(g, pt)
           /\ g.pc \notin Opening
BY DEF Dull, Knows, Fresh, Opening, Paying, Confirming, Saving

LEMMA ReturnIsDull ==
    ASSUME NEW w \in Workers, NEW batch, Return(w, batch)
    PROVE  \E g : Go(w, g) /\ g.pc \in Dull
<1> DEFINE g == [Idle EXCEPT !.op = "reconcile", !.pc = "verifyNext",
                             !.batch = batch]
<1>1. Idle.pc \in Dull /\ g.pc \in Dull
  BY DEF Idle, Dull
<1>2. Go(w, Idle) \/ Go(w, g)
  BY DEF Return
<1> HIDE DEF g
<1> QED
  BY <1>1, <1>2

LEMMA FinishIsDull ==
    ASSUME NEW w \in Workers, Finish(w)
    PROVE  \E g : Go(w, g) /\ g.pc \in Dull
BY ReturnIsDull DEF Finish

LEMMA DullStep ==
    ASSUME HInv, IInv', NEW w \in Workers, \E g : Go(w, g) /\ g.pc \in Dull, UNCHANGED seen
    PROVE  HInv' /\ StaysSettled
<1>1. PICK g : Go(w, g) /\ g.pc \in Dull
  OBVIOUS
<1> QED
  BY <1>1, DullKnows, QuietStep

\* Replacing one record field leaves the others.
LEMMA DullFrames ==
    ASSUME NEW w \in Workers, NEW f \in Frame, NEW step \in Dull
    PROVE  [f EXCEPT !.pc = step].pc \in Dull
BY DEF Frame

\* A save of payment p by the worker that moves on to g.
LEMMA PaymentSave ==
    ASSUME HInv, IInv', NEW w \in Workers, NEW g, Go(w, g),
           NEW p \in Payments, NEW row, payment' = [payment EXCEPT ![p] = row],
           UNCHANGED <<booking, confirmedBy, events, onChain, invoiceAsked, member>>,
           payment[p].status # "absent" =>
               /\ row.status # "absent" /\ row.booking = payment[p].booking
               /\ payment[p].ref => row.ref,
           row.status = "pending" => payment[p].status \in {"absent", "pending"},
           \A v \in Workers \ {w} : frame[v].pc \in Opening => frame[v].p # p,
           g.pc \in Opening => g.p = p,
           Knows(g, payment', confirmedBy, events), Fresh(g, payment')
    PROVE  HInv' /\ StaysSettled
<1>1. /\ payment'[p] = row
      /\ \A q \in Payments \ {p} : payment'[q] = payment[q]
  BY DEF HInv, IInv, TypeOK
<1>2. Grows /\ StaysSettled
  BY <1>1 DEF Grows, StaysSettled
<1>3. Facts'
  BY <1>2, FactsGrow
<1>4. \A v \in Workers \ {w} : frame[v].pc \in Opening =>
          /\ payment'[frame[v].p] = payment[frame[v].p]
          /\ g.pc \in Opening => frame[v].p # g.p
  <2> SUFFICES ASSUME NEW v \in Workers \ {w}, frame[v].pc \in Opening
               PROVE  /\ payment'[frame[v].p] = payment[frame[v].p]
                      /\ g.pc \in Opening => frame[v].p # g.p
    OBVIOUS
  <2>1. frame[v].p \in Payments
    BY Held DEF HInv, FrameGood, Opening
  <2> QED
    BY <1>1, <2>1
<1>5. HInv'
  BY <1>2, <1>3, <1>4, WorkerStep
<1> QED
  BY <1>2, <1>5

\* A handler about to save a copy of a payment was handed the row by its
\* reference, which a row still being opened has not got.
LEMMA NotOpening ==
    ASSUME HInv, NEW w \in Workers, frame[w].pc \in Paying
    PROVE  \A v \in Workers \ {w} : frame[v].pc \in Opening => frame[v].p # frame[w].p
BY DEF HInv, Knows, Fresh

\* A save of booking b: the step may also record who confirmed it.
LEMMA BookingSave ==
    ASSUME HInv, IInv', NEW w \in Workers, NEW g, Go(w, g), g.pc \notin Opening,
           NEW b \in Bookings, NEW row, booking' = [booking EXCEPT ![b] = row],
           row.status # "pending",
           UNCHANGED <<payment, events, onChain, invoiceAsked, member>>,
           NEW by, by # NoPayment => confirmedBy' = [confirmedBy EXCEPT ![b] = by],
           by = NoPayment => UNCHANGED confirmedBy,
           by # NoPayment =>
               \/ by = ByAdmin
               \/ by \in Payments /\ ChargeOf(by, b, payment, events),
           row.status \in {"confirmed", "completed"} => confirmedBy'[b] # NoPayment,
           row.escrowed => Funded(b, payment, confirmedBy, events),
           Knows(g, payment, confirmedBy', events)
    PROVE  HInv' /\ StaysSettled
<1>1. /\ booking'[b] = row
      /\ \A c \in Bookings \ {b} : booking'[c] = booking[c]
  BY DEF HInv, IInv, TypeOK
<1>2. /\ by # NoPayment => confirmedBy'[b] = by
      /\ by = NoPayment => confirmedBy'[b] = confirmedBy[b]
      /\ \A c \in Bookings \ {b} : confirmedBy'[c] = confirmedBy[c]
  BY DEF HInv, IInv, TypeOK
<1>3. Grows
  BY <1>2 DEF Grows
<1>4. StaysSettled
  BY <1>1 DEF StaysSettled
<1>5. Facts'
  <2>1. ASSUME NEW c \in Bookings, confirmedBy'[c] # NoPayment
        PROVE  \/ confirmedBy'[c] = ByAdmin
               \/ /\ confirmedBy'[c] \in Payments
                  /\ ChargeOf(confirmedBy'[c], c, payment, events)
    BY <1>2, <2>1 DEF HInv, Facts
  <2>2. ASSUME NEW c \in Bookings, booking'[c].status \in {"confirmed", "completed"}
        PROVE  confirmedBy'[c] # NoPayment
    BY <1>1, <1>2, <2>2 DEF HInv, Facts
  <2>3. ASSUME NEW c \in Bookings, onChain[c] > 0 \/ booking'[c].escrowed
        PROVE  Funded(c, payment', confirmedBy', events')
    BY <1>1, <1>3, <2>3, FundedGrows DEF HInv, Facts
  <2>4. ASSUME NEW p \in invoiceAsked
        PROVE  \E c \in Bookings : ChargeOf(p, c, payment, events) /\ confirmedBy'[c] # NoPayment
    BY <1>3 DEF HInv, Facts, Grows
  <2>5. ASSUME NEW u \in member
        PROVE  \E c \in Bookings : Owner[c] = u /\ confirmedBy'[c] # NoPayment
    BY <1>3 DEF HInv, Facts, Grows
  <2> QED
    BY <2>1, <2>2, <2>3, <2>4, <2>5 DEF Facts
<1>6. \A v \in Workers \ {w} : frame[v].pc \in Opening =>
          /\ payment'[frame[v].p] = payment[frame[v].p]
          /\ g.pc \in Opening => frame[v].p # g.p
  OBVIOUS
<1>7. Knows(g, payment', confirmedBy', events') /\ Fresh(g, payment')
  BY DEF Fresh
<1>8. HInv'
  BY <1>3, <1>5, <1>6, <1>7, WorkerStep
<1> QED
  BY <1>4, <1>8

\* A step that records an effect of a confirmed booking: nothing else it
\* touches is one of the rows.
LEMMA EffectStep ==
    ASSUME HInv, IInv', NEW w \in Workers, NEW g, Go(w, g), g.pc \notin Opening,
           UNCHANGED <<payment, events, confirmedBy>>,
           Knows(g, payment, confirmedBy, events),
           \A b \in Bookings : booking'[b].status = booking[b].status,
           \A b \in Bookings : onChain'[b] > 0 \/ booking'[b].escrowed =>
               Funded(b, payment, confirmedBy, events),
           \A p \in invoiceAsked' : \E b \in Bookings :
               ChargeOf(p, b, payment, events) /\ confirmedBy[b] # NoPayment,
           \A u \in member' : \E b \in Bookings : Owner[b] = u /\ confirmedBy[b] # NoPayment
    PROVE  HInv' /\ StaysSettled
<1>1. Grows /\ StaysSettled
  BY DEF Grows, StaysSettled
<1>2. Facts'
  BY DEF HInv, Facts
<1>3. \A v \in Workers \ {w} : frame[v].pc \in Opening =>
          /\ payment'[frame[v].p] = payment[frame[v].p]
          /\ g.pc \in Opening => frame[v].p # g.p
  OBVIOUS
<1>4. Knows(g, payment', confirmedBy', events') /\ Fresh(g, payment')
  BY DEF Fresh
<1>5. HInv'
  BY <1>1, <1>2, <1>3, <1>4, WorkerStep
<1> QED
  BY <1>1, <1>5

\* What a worker holds, unfolded once.
LEMMA Holding ==
    ASSUME HInv, NEW w \in Workers
    PROVE  /\ frame[w] \in Frame /\ FrameGood(frame[w], events)
           /\ Knows(frame[w], payment, confirmedBy, events)
           /\ Fresh(frame[w], payment)
BY Held DEF HInv

LEMMA InitializeHolds ==
    ASSUME HInv, IInv', NEW w \in Workers, Initialize(w)
    PROVE  HInv' /\ StaysSettled
<1> DEFINE f == frame[w]
<1>0. /\ f \in Frame /\ FrameGood(f, events) /\ Fresh(f, payment)
      /\ frame \in [Workers -> Frame]
  BY Holding DEF HInv, IInv, TypeOK
<1>1. ASSUME NEW b \in Bookings, InitializeStart(w, b)
      PROVE  HInv' /\ StaysSettled
  <2> DEFINE g == [Idle EXCEPT !.op = "initialize", !.pc = "findPending", !.b = b]
  <2>1. g.pc \in Dull
    BY DEF Idle, Dull
  <2>2. Go(w, g)
    BY <1>1 DEF InitializeStart
  <2> HIDE DEF g
  <2> QED
    BY <1>1, <2>1, <2>2, DullStep DEF InitializeStart, seen, paystack, history
<1>2. CASE InitializeFindPending(w)
  <2>1. \/ \E p \in Payments : Go(w, [f EXCEPT !.pc = "reopenCheckout", !.p = p])
        \/ Go(w, [f EXCEPT !.pc = "insertPayment"])
    BY <1>2 DEF InitializeFindPending, PendingFor
  <2>2. \E g : Go(w, g) /\ g.pc \in Dull
    <3>1. /\ \A p \in Payments : [f EXCEPT !.pc = "reopenCheckout", !.p = p].pc \in Dull
          /\ [f EXCEPT !.pc = "insertPayment"].pc \in Dull
      BY <1>0 DEF Frame, Dull
    <3> QED
      BY <2>1, <3>1
  <2> QED
    BY <1>2, <2>2, DullStep DEF InitializeFindPending, seen, paystack, history
<1>3. CASE InitializeReopen(w) \/ InitializeNoRow(w)
  <2>1. Finish(w) /\ UNCHANGED seen
    BY <1>3 DEF InitializeReopen, InitializeNoRow, seen, paystack, history
  <2> QED
    BY <2>1, FinishIsDull, DullStep
<1>4. CASE InitializeInsert(w)
  <2> DEFINE row == [booking |-> f.b, status |-> "pending", ref |-> FALSE]
  <2>1. PICK p \in Payments :
          /\ payment[p].status = "absent"
          /\ payment' = [payment EXCEPT ![p] = row]
          /\ Go(w, [f EXCEPT !.pc = "openCheckout", !.p = p, !.pay = row])
    BY <1>4 DEF InitializeInsert
  <2> DEFINE g == [f EXCEPT !.pc = "openCheckout", !.p = p, !.pay = row]
  <2>2. g.pc = "openCheckout" /\ g.p = p /\ g.pay = row
    BY <1>0 DEF Frame
  <2>3. payment'[p] = row
    BY <2>1 DEF HInv, IInv, TypeOK
  <2>4. Knows(g, payment', confirmedBy, events)
    BY <2>2 DEF Knows, Paying, Confirming, Saving
  <2>5. Fresh(g, payment')
    BY <2>2, <2>3 DEF Fresh
  <2>6. \A v \in Workers \ {w} : frame[v].pc \in Opening => frame[v].p # p
    BY <2>1, Holding DEF Fresh
  <2>7. Go(w, g) /\ row.status = "pending"
    BY <2>1
  <2>8. UNCHANGED <<booking, confirmedBy, events, onChain, invoiceAsked, member>>
    BY <1>4 DEF InitializeInsert, paystack, history
  <2> HIDE DEF g, row
  <2> QED
    BY <2>1, <2>2, <2>4, <2>5, <2>6, <2>7, <2>8, PaymentSave
<1>5. CASE InitializeOpenCheckout(w)
  <2>1. f.pc = "openCheckout"
    BY <1>5 DEF InitializeOpenCheckout, At
  <2>2. UNCHANGED seen
    BY <1>5 DEF InitializeOpenCheckout, seen, paystack, history
  <2> DEFINE g == [f EXCEPT !.pc = "saveReference",
                            !.pay = [f.pay EXCEPT !.ref = TRUE]]
  <2>3. [f EXCEPT !.pc = "saveReference", !.pay.ref = TRUE] = g
    BY <1>0 DEF Frame
  <2>4. Go(w, g) \/ Finish(w)
    BY <1>5, <2>3 DEF InitializeOpenCheckout
  <2>5. /\ g.pc = "saveReference" /\ g.p = f.p
        /\ g.pay.booking = f.pay.booking /\ g.pay.status = f.pay.status
    BY <1>0 DEF Frame, PaymentRow
  <2>6. Knows(g, payment, confirmedBy, events) /\ Fresh(g, payment)
    BY <1>0, <2>1, <2>5 DEF Knows, Fresh, Paying, Confirming, Saving, Opening
  <2>7. g.pc \in Opening => f.pc \in Opening /\ g.p = f.p
    BY <2>1, <2>5 DEF Opening
  <2> HIDE DEF g
  <2> QED
    BY <2>2, <2>4, <2>6, <2>7, QuietStep, FinishIsDull, DullStep
<1>6. CASE InitializeSaveReference(w)
  <2>1. /\ f.pc = "saveReference" /\ Finish(w)
        /\ payment' = [payment EXCEPT ![f.p] = f.pay]
        /\ UNCHANGED <<booking, confirmedBy, events, onChain, invoiceAsked, member>>
    BY <1>6 DEF InitializeSaveReference, At, paystack, history
  <2>2. /\ f.p \in Payments /\ payment[f.p].status = "pending" /\ ~payment[f.p].ref
        /\ f.pay.booking = payment[f.p].booking /\ f.pay.status = "pending"
    BY <1>0, <2>1 DEF FrameGood, Fresh, Opening
  <2>3. PICK g : Go(w, g) /\ g.pc \in Dull
    BY <2>1, FinishIsDull
  <2>4. \A v \in Workers \ {w} : frame[v].pc \in Opening => frame[v].p # f.p
    BY <2>1 DEF HInv, OpenedOnce, Opening
  <2>5. Knows(g, payment', confirmedBy, events) /\ Fresh(g, payment') /\ g.pc \notin Opening
    BY <2>3, DullKnows
  <2> QED
    BY <2>1, <2>2, <2>3, <2>4, <2>5, PaymentSave
<1> QED
  BY <1>1, <1>2, <1>3, <1>4, <1>5, <1>6 DEF Initialize

LEMMA RequestHolds ==
    ASSUME HInv, IInv', NEW w \in Workers, Request(w) \/ ReconcileStart(w) \/ ReconcileVerify(w)
    PROVE  HInv' /\ StaysSettled
<1>1. ASSUME NEW p \in Payments, Webhook(w, p)
      PROVE  HInv' /\ StaysSettled
  <2> DEFINE g1 == [Idle EXCEPT !.op = "chargeSuccess",
                                !.pc = "findForSuccess", !.p = p]
             g2 == [Idle EXCEPT !.op = "chargeFailed",
                                !.pc = "findForFailed", !.p = p]
  <2>1. g1.pc \in Dull /\ g2.pc \in Dull
    BY DEF Idle, Dull
  <2>2. Go(w, g1) \/ Go(w, g2)
    BY <1>1 DEF Webhook
  <2> HIDE DEF g1, g2
  <2> QED
    BY <1>1, <2>1, <2>2, DullStep DEF Webhook, seen, paystack, history
<1>2. ASSUME NEW p \in Payments, RefundStart(w, p)
      PROVE  HInv' /\ StaysSettled
  <2> DEFINE g == [Idle EXCEPT !.op = "refund", !.pc = "callRefund", !.p = p,
                               !.b = payment[p].booking, !.pay = payment[p]]
  <2>1. payment[p].status = "success" /\ Go(w, g) /\ UNCHANGED seen
    BY <1>2 DEF RefundStart, seen, paystack, history
  <2>2. payment[p].ref
    BY <2>1, RowHeld DEF HInv, RowGood
  <2>3. g.pc = "callRefund" /\ g.p = p /\ g.pay = payment[p] /\ g.op = "refund"
    BY DEF Idle
  <2>4. Knows(g, payment, confirmedBy, events) /\ Fresh(g, payment) /\ g.pc \notin Opening
    BY <2>1, <2>2, <2>3 DEF Knows, Fresh, Paying, Confirming, Saving, Opening
  <2> HIDE DEF g
  <2> QED
    BY <2>1, <2>4, QuietStep
<1>3. ASSUME NEW b \in Bookings, ConfirmStart(w, b)
      PROVE  HInv' /\ StaysSettled
  <2> DEFINE g == [Idle EXCEPT !.op = "confirm", !.pc = "confirmRead", !.b = b]
  <2>1. Go(w, g) /\ UNCHANGED seen
    BY <1>3 DEF ConfirmStart, seen, paystack, history
  <2>2. g.pc = "confirmRead" /\ g.op = "confirm"
    BY DEF Idle
  <2>3. Knows(g, payment, confirmedBy, events) /\ Fresh(g, payment) /\ g.pc \notin Opening
    BY <2>2 DEF Knows, Fresh, Paying, Confirming, Saving, Opening
  <2> HIDE DEF g
  <2> QED
    BY <2>1, <2>3, QuietStep
<1>4. ASSUME NEW b \in Bookings, CompleteStart(w, b)
      PROVE  HInv' /\ StaysSettled
  <2> DEFINE copy == [booking[b] EXCEPT !.status = "completed"]
             g == [Idle EXCEPT !.op = "complete", !.pc = "completeSave", !.b = b, !.bk = copy]
  <2>1. booking[b].status = "confirmed" /\ Go(w, g) /\ UNCHANGED seen
    BY <1>4 DEF CompleteStart, seen, paystack, history
  <2>2. copy.status = "completed" /\ copy.escrowed = booking[b].escrowed
    BY BookingHeld DEF HInv, BookingRow
  <2>3. g.pc = "completeSave" /\ g.b = b /\ g.bk = copy
    BY DEF Idle
  <2>4. Knows(g, payment, confirmedBy, events) /\ Fresh(g, payment) /\ g.pc \notin Opening
    <3> HIDE DEF copy, g
    <3>1. confirmedBy[b] # NoPayment
      BY <2>1 DEF HInv, Facts
    <3>2. copy.escrowed => Funded(b, payment, confirmedBy, events)
      BY <2>2 DEF HInv, Facts
    <3> QED
      BY <2>2, <2>3, <3>1, <3>2 DEF Knows, Fresh, Paying, Confirming, Saving, Opening
  <2> HIDE DEF g
  <2> QED
    BY <2>1, <2>4, QuietStep
<1>5. ASSUME NEW b \in Bookings, NEW u \in Users, CancelStart(w, b, u)
      PROVE  HInv' /\ StaysSettled
  <2> DEFINE copy == [booking[b] EXCEPT !.status = "cancelled"]
             g == [[Idle EXCEPT !.b = b] EXCEPT !.op = "cancel", !.pc = "cancelSave", !.bk = copy]
  <2>1. Go(w, g) /\ UNCHANGED seen
    BY <1>5 DEF CancelStart, HoldCancelled, Idle, seen, paystack, history
  <2>2. copy.status = "cancelled" /\ copy.escrowed = booking[b].escrowed
    BY BookingHeld DEF HInv, BookingRow
  <2>3. g.pc = "cancelSave" /\ g.b = b /\ g.bk = copy
    BY DEF Idle
  <2>4. Knows(g, payment, confirmedBy, events) /\ Fresh(g, payment) /\ g.pc \notin Opening
    <3> HIDE DEF copy, g
    <3>2. copy.escrowed => Funded(b, payment, confirmedBy, events)
      BY <2>2 DEF HInv, Facts
    <3> QED
      BY <2>2, <2>3, <3>2 DEF Knows, Fresh, Paying, Confirming, Saving, Opening
  <2> HIDE DEF g
  <2> QED
    BY <2>1, <2>4, QuietStep
<1>6. CASE ReconcileStart(w)
  <2>1. Return(w, Reconcilable) /\ UNCHANGED seen
    BY <1>6 DEF ReconcileStart, seen, paystack, history
  <2> QED
    BY <2>1, ReturnIsDull, DullStep
<1>7. CASE ReconcileVerify(w)
  <2>1. PICK p \in frame[w].batch :
          LET rest == frame[w].batch \ {p}
              g == [Idle EXCEPT !.p = p, !.batch = rest]
          IN  \/ Go(w, [g EXCEPT !.op = "chargeSuccess", !.pc = "findForSuccess"])
              \/ Go(w, [g EXCEPT !.op = "chargeFailed", !.pc = "findForFailed"])
              \/ Return(w, rest)
    BY <1>7 DEF ReconcileVerify
  <2>2. \E g : Go(w, g) /\ g.pc \in Dull
    <3> DEFINE rest == frame[w].batch \ {p}
               g == [Idle EXCEPT !.p = p, !.batch = rest]
               g1 == [g EXCEPT !.op = "chargeSuccess", !.pc = "findForSuccess"]
               g2 == [g EXCEPT !.op = "chargeFailed", !.pc = "findForFailed"]
    <3>1. g1.pc \in Dull /\ g2.pc \in Dull
      BY DEF Idle, Dull
    <3>2. Go(w, g1) \/ Go(w, g2) \/ Return(w, rest)
      BY <2>1
    <3> HIDE DEF rest, g1, g2
    <3> QED
      BY <3>1, <3>2, ReturnIsDull
  <2> QED
    BY <1>7, <2>2, DullStep DEF ReconcileVerify, seen, paystack, history
<1> QED
  BY <1>1, <1>2, <1>3, <1>4, <1>5, <1>6, <1>7 DEF Request

LEMMA OutcomeHolds ==
    ASSUME HInv, IInv', NEW w \in Workers, Outcome(w)
    PROVE  HInv' /\ StaysSettled
<1> DEFINE f == frame[w]
<1>0. /\ f \in Frame /\ FrameGood(f, events)
      /\ Knows(f, payment, confirmedBy, events)
  BY Holding
<1>1. CASE ChargeSuccessFind(w)
  <2>1. f.pc = "findForSuccess" /\ f.p \in Payments /\ UNCHANGED seen
    BY <1>0, <1>1 DEF ChargeSuccessFind, At, FrameGood, seen, paystack, history
  <2> DEFINE row == payment[f.p]
             copy == [row EXCEPT !.status = "success"]
             g == [f EXCEPT !.pc = "saveSuccess", !.b = row.booking, !.pay = copy]
  <2>2. \/ row.ref /\ row.status \in {"pending", "failed"} /\ Go(w, g)
        \/ Finish(w)
    BY <1>1 DEF ChargeSuccessFind
  <2>3. copy.status = "success" /\ copy.booking = row.booking /\ copy.ref = row.ref
    BY <2>1, RowHeld DEF HInv, PaymentRow
  <2>4. g.pc = "saveSuccess" /\ g.op = f.op /\ g.p = f.p /\ g.b = row.booking /\ g.pay = copy
    BY <1>0 DEF Frame
  <2>5. row.ref /\ row.status \in {"pending", "failed"}
        => Knows(g, payment, confirmedBy, events)
    <3> HIDE DEF copy, g
    <3> QED
      BY <2>1, <2>3, <2>4, <1>0 DEF FrameGood, Knows, Paying, Confirming, Saving
  <2>6. Fresh(g, payment) /\ g.pc \notin Opening
    BY <2>4 DEF Fresh, Opening
  <2> HIDE DEF g
  <2> QED
    BY <2>1, <2>2, <2>5, <2>6, QuietStep, FinishIsDull, DullStep
<1>2. CASE ChargeSuccessSave(w)
  <2> DEFINE g == [f EXCEPT !.pc = "confirmRead"]
  <2>1. /\ f.pc = "saveSuccess" /\ Go(w, g)
        /\ payment' = [payment EXCEPT ![f.p] = f.pay]
        /\ UNCHANGED <<booking, confirmedBy, events, onChain, invoiceAsked, member>>
    BY <1>2 DEF ChargeSuccessSave, At, paystack, history
  <2>2. /\ f.p \in Payments /\ payment[f.p].booking = f.pay.booking /\ f.pay.ref
        /\ f.pay.status = "success" /\ f.b = f.pay.booking /\ f.op = "chargeSuccess"
        /\ "charge.success" \in events[f.p]
    BY <1>0, <2>1 DEF FrameGood, Knows, Paying
  <2>3. g.pc = "confirmRead" /\ g.op = f.op /\ g.p = f.p /\ g.b = f.b
    BY <1>0 DEF Frame
  <2>4. payment'[f.p] = f.pay
    BY <2>1, <2>2 DEF HInv, IInv, TypeOK
  <2>5. ChargeOf(f.p, f.b, payment', events)
    BY <2>2, <2>4 DEF ChargeOf
  <2>6. Knows(g, payment', confirmedBy, events) /\ Fresh(g, payment') /\ g.pc \notin Opening
    <3> HIDE DEF g
    <3> QED
      BY <2>2, <2>3, <2>5 DEF Knows, Fresh, Paying, Confirming, Saving, Opening
  <2>7. \A v \in Workers \ {w} : frame[v].pc \in Opening => frame[v].p # f.p
    BY <2>1, NotOpening DEF Paying
  <2> HIDE DEF g
  <2> QED
    BY <2>1, <2>2, <2>6, <2>7, PaymentSave
<1>3. CASE ChargeFailedFind(w)
  <2>1. f.pc = "findForFailed" /\ f.p \in Payments /\ UNCHANGED seen
    BY <1>0, <1>3 DEF ChargeFailedFind, At, FrameGood, seen, paystack, history
  <2> DEFINE row == payment[f.p]
             copy == [row EXCEPT !.status = "failed"]
             g == [f EXCEPT !.pc = "saveFailed", !.pay = copy]
  <2>2. \/ row.ref /\ row.status = "pending" /\ Go(w, g)
        \/ Finish(w)
    BY <1>3 DEF ChargeFailedFind
  <2>3. copy.status = "failed" /\ copy.booking = row.booking /\ copy.ref = row.ref
    BY <2>1, RowHeld DEF HInv, PaymentRow
  <2>4. g.pc = "saveFailed" /\ g.p = f.p /\ g.pay = copy
    BY <1>0 DEF Frame
  <2>5. row.ref /\ row.status = "pending" => Knows(g, payment, confirmedBy, events)
    <3> HIDE DEF copy, g
    <3> QED
      BY <2>3, <2>4 DEF Knows, Paying, Confirming, Saving
  <2>6. Fresh(g, payment) /\ g.pc \notin Opening
    BY <2>4 DEF Fresh, Opening
  <2> HIDE DEF g
  <2> QED
    BY <2>1, <2>2, <2>5, <2>6, QuietStep, FinishIsDull, DullStep
<1>4. CASE ChargeFailedSave(w)
  <2>1. /\ f.pc = "saveFailed" /\ Finish(w)
        /\ payment' = [payment EXCEPT ![f.p] = f.pay]
        /\ UNCHANGED <<booking, confirmedBy, events, onChain, invoiceAsked, member>>
    BY <1>4 DEF ChargeFailedSave, At, paystack, history
  <2>2. /\ f.p \in Payments /\ payment[f.p].booking = f.pay.booking /\ f.pay.ref
        /\ f.pay.status = "failed"
    BY <1>0, <2>1 DEF FrameGood, Knows, Paying
  <2>3. PICK g : Go(w, g) /\ g.pc \in Dull
    BY <2>1, FinishIsDull
  <2>4. Knows(g, payment', confirmedBy, events) /\ Fresh(g, payment') /\ g.pc \notin Opening
    BY <2>3, DullKnows
  <2>5. \A v \in Workers \ {w} : frame[v].pc \in Opening => frame[v].p # f.p
    BY <2>1, NotOpening DEF Paying
  <2> QED
    BY <2>1, <2>2, <2>3, <2>4, <2>5, PaymentSave
<1>5. CASE ConfirmRead(w)
  <2>1. f.pc = "confirmRead" /\ f.b \in Bookings /\ UNCHANGED seen
    BY <1>0, <1>5 DEF ConfirmRead, At, FrameGood, seen, paystack, history
  <2> DEFINE copy == [booking[f.b] EXCEPT !.status = "confirmed"]
             g == [f EXCEPT !.pc = "confirmSave", !.bk = copy]
  <2>2. Go(w, g) \/ Finish(w)
    BY <1>5 DEF ConfirmRead
  <2>3. copy.status = "confirmed" /\ copy.escrowed = booking[f.b].escrowed
    BY <2>1, BookingHeld DEF HInv, BookingRow
  <2>4. g.pc = "confirmSave" /\ g.op = f.op /\ g.p = f.p /\ g.b = f.b /\ g.bk = copy
    BY <1>0 DEF Frame
  <2>5. copy.escrowed => Funded(f.b, payment, confirmedBy, events)
    BY <2>1, <2>3 DEF HInv, Facts
  <2>6. Knows(g, payment, confirmedBy, events) /\ Fresh(g, payment) /\ g.pc \notin Opening
    <3> HIDE DEF copy, g
    <3> QED
      BY <1>0, <2>1, <2>3, <2>4, <2>5
         DEF Knows, Fresh, Paying, Confirming, Saving, Opening
  <2> HIDE DEF g
  <2> QED
    BY <2>1, <2>2, <2>6, QuietStep, FinishIsDull, DullStep
<1>6. CASE ConfirmSave(w)
  <2> DEFINE by == IF f.op = "confirm" THEN ByAdmin ELSE f.p
             g == [f EXCEPT !.pc = "activate"]
  <2>1. /\ f.pc = "confirmSave" /\ Go(w, g)
        /\ booking' = [booking EXCEPT ![f.b] = f.bk]
        /\ confirmedBy' = [confirmedBy EXCEPT ![f.b] = by]
        /\ UNCHANGED <<payment, events, onChain, invoiceAsked, member>>
    BY <1>6 DEF ConfirmSave, At, paystack
  <2>2. /\ f.b \in Bookings /\ f.bk.status = "confirmed"
        /\ f.op \in {"confirm", "chargeSuccess"}
        /\ f.op = "chargeSuccess" => f.p \in Payments /\ ChargeOf(f.p, f.b, payment, events)
        /\ f.bk.escrowed => Funded(f.b, payment, confirmedBy, events)
    BY <1>0, <2>1 DEF FrameGood, Knows, Confirming, Saving
  <2>3. /\ by # NoPayment
        /\ \/ by = ByAdmin
           \/ by \in Payments /\ ChargeOf(by, f.b, payment, events)
    BY <2>2, ParamsAssumption
  <2>4. g.pc = "activate" /\ g.op = f.op /\ g.p = f.p /\ g.b = f.b
    BY <1>0 DEF Frame
  <2>5. confirmedBy'[f.b] # NoPayment
    BY <2>1, <2>2, <2>3 DEF HInv, IInv, TypeOK
  <2>6. Knows(g, payment, confirmedBy', events) /\ g.pc \notin Opening
    <3> HIDE DEF g
    <3> QED
      BY <2>2, <2>4, <2>5 DEF Knows, Paying, Confirming, Saving, Opening
  <2> HIDE DEF g, by
  <2> QED
    BY <2>1, <2>2, <2>3, <2>5, <2>6, BookingSave
<1>7. CASE Activate(w)
  <2> DEFINE g == [f EXCEPT !.pc = "createEscrow"]
  <2>1. /\ f.pc = "activate"
        /\ member' = member \cup {Owner[f.b]}
        /\ UNCHANGED <<booking, payment, events, confirmedBy, onChain>>
        /\ \/ Finish(w) /\ UNCHANGED invoiceAsked
           \/ /\ f.op = "chargeSuccess" /\ Go(w, g) /\ UNCHANGED invoiceAsked
              /\ f.b \in LongTerm /\ EscrowEnabled
           \/ /\ f.op = "chargeSuccess" /\ Finish(w)
              /\ invoiceAsked' = invoiceAsked \cup {f.p}
    BY <1>7 DEF Activate, At, AskInvoice, paystack
  <2>2. /\ f.b \in Bookings /\ confirmedBy[f.b] # NoPayment
        /\ f.op = "chargeSuccess" => ChargeOf(f.p, f.b, payment, events)
    BY <1>0, <2>1 DEF FrameGood, Knows, Confirming
  <2>3. g.pc = "createEscrow" /\ g.op = f.op /\ g.p = f.p /\ g.b = f.b
    BY <1>0 DEF Frame
  <2>4. Go(w, g) /\ f.op = "chargeSuccess" /\ f.b \in LongTerm /\ EscrowEnabled
        => Knows(g, payment, confirmedBy, events) /\ g.pc \notin Opening
    <3> HIDE DEF g
    <3> QED
      BY <2>2, <2>3 DEF Knows, Paying, Confirming, Saving, Opening
  <2>5. \E h : /\ Go(w, h) /\ h.pc \notin Opening /\ Knows(h, payment, confirmedBy, events)
    <3>1. CASE Finish(w)
      BY <3>1, FinishIsDull, DullKnows
    <3>2. CASE ~Finish(w)
      <4> HIDE DEF g
      <4> QED
        BY <2>1, <2>4, <3>2
    <3> QED
      BY <3>1, <3>2
  <2>6. \A p \in invoiceAsked' : \E b \in Bookings :
            ChargeOf(p, b, payment, events) /\ confirmedBy[b] # NoPayment
    BY <2>1, <2>2 DEF HInv, Facts
  <2>7. \A u \in member' : \E b \in Bookings : Owner[b] = u /\ confirmedBy[b] # NoPayment
    BY <2>1, <2>2 DEF HInv, Facts
  <2>8. \A b \in Bookings : onChain'[b] > 0 \/ booking'[b].escrowed =>
            Funded(b, payment, confirmedBy, events)
    BY <2>1 DEF HInv, Facts
  <2> QED
    BY <2>1, <2>5, <2>6, <2>7, <2>8, EffectStep
<1>8. CASE CreateEscrow(w) \/ LinkEscrow(w)
  <2>1. f.pc \in {"createEscrow", "linkEscrow"} /\ UNCHANGED <<payment, events, confirmedBy, member>>
    BY <1>8 DEF CreateEscrow, LinkEscrow, At, paystack
  <2>2. /\ f.b \in Bookings /\ Funded(f.b, payment, confirmedBy, events)
        /\ f.p \in Payments /\ ChargeOf(f.p, f.b, payment, events)
        /\ confirmedBy[f.b] # NoPayment /\ f.op = "chargeSuccess"
        /\ f.b \in LongTerm /\ EscrowEnabled
    BY <1>0, <2>1 DEF FrameGood, Knows, Confirming, Funded
  <2> DEFINE g == [f EXCEPT !.pc = "linkEscrow"]
  <2>3. g.pc = "linkEscrow" /\ g.op = f.op /\ g.p = f.p /\ g.b = f.b
    BY <1>0 DEF Frame
  <2>4. Knows(g, payment, confirmedBy, events) /\ g.pc \notin Opening
    <3> HIDE DEF g
    <3> QED
      BY <2>2, <2>3 DEF Knows, Paying, Confirming, Saving, Opening
  <2>5. \/ Go(w, g) /\ UNCHANGED invoiceAsked
        \/ Finish(w) /\ invoiceAsked' = invoiceAsked \cup {f.p}
    BY <1>8 DEF CreateEscrow, LinkEscrow, AskInvoice
  <2> HIDE DEF g
  <2>6. \E h : Go(w, h) /\ h.pc \notin Opening /\ Knows(h, payment, confirmedBy, events)
    BY <2>4, <2>5, FinishIsDull, DullKnows
  <2>7. \A p \in invoiceAsked' : \E b \in Bookings :
            ChargeOf(p, b, payment, events) /\ confirmedBy[b] # NoPayment
    BY <2>2, <2>5 DEF HInv, Facts
  <2>8. /\ \A b \in Bookings \ {f.b} : onChain'[b] = onChain[b] /\ booking'[b] = booking[b]
        /\ booking'[f.b].status = booking[f.b].status
    <3>1. booking \in [Bookings -> BookingRow] /\ onChain \in [Bookings -> 0..CountCap]
      BY DEF HInv, IInv, TypeOK
    <3>2. booking[f.b] \in BookingRow
      BY <2>2, <3>1
    <3>3. CASE CreateEscrow(w)
      BY <2>2, <3>1, <3>3 DEF CreateEscrow
    <3>4. CASE LinkEscrow(w)
      <4> DEFINE row == [booking[f.b] EXCEPT !.escrowed = TRUE]
      <4>1. booking' = [booking EXCEPT ![f.b] = row] /\ UNCHANGED onChain
        BY <3>4 DEF LinkEscrow
      <4>2. row.status = booking[f.b].status
        BY <3>2 DEF BookingRow
      <4> HIDE DEF row
      <4> QED
        BY <2>2, <3>1, <4>1, <4>2
    <3> QED
      BY <1>8, <3>3, <3>4
  <2>9. \A b \in Bookings : onChain'[b] > 0 \/ booking'[b].escrowed =>
            Funded(b, payment, confirmedBy, events)
    BY <2>2, <2>8 DEF HInv, Facts
  <2>10. /\ \A b \in Bookings : booking'[b].status = booking[b].status
         /\ \A u \in member' : \E b \in Bookings : Owner[b] = u /\ confirmedBy[b] # NoPayment
    BY <2>1, <2>8 DEF HInv, Facts
  <2> QED
    BY <2>1, <2>6, <2>7, <2>9, <2>10, EffectStep
<1> QED
  BY <1>1, <1>2, <1>3, <1>4, <1>5, <1>6, <1>7, <1>8 DEF Outcome

LEMMA CancelHolds ==
    ASSUME HInv, IInv', NEW w \in Workers, Cancel(w)
    PROVE  HInv' /\ StaysSettled
<1> DEFINE f == frame[w]
           toSeats == [f EXCEPT !.pc = "freeSeats"]
<1>0. /\ f \in Frame /\ FrameGood(f, events)
      /\ Knows(f, payment, confirmedBy, events)
  BY Holding
<1>f. toSeats.pc \in Dull /\ [f EXCEPT !.pc = "findPaid"].pc \in Dull
      /\ [f EXCEPT !.pc = "afterRefund"].pc \in Dull /\ [f EXCEPT !.pc = "cancelRead"].pc \in Dull
  BY <1>0 DEF Frame, Dull
<1>1. CASE CancelRead(w)
  <2>1. f.b \in Bookings /\ UNCHANGED seen
    BY <1>0, <1>1 DEF CancelRead, At, FrameGood, seen, paystack, history
  <2> DEFINE copy == [booking[f.b] EXCEPT !.status = "cancelled"]
             g == [f EXCEPT !.op = "cancel", !.pc = "cancelSave", !.bk = copy]
  <2>2. Go(w, g) \/ Finish(w)
    BY <1>1 DEF CancelRead, HoldCancelled
  <2>3. copy.status = "cancelled" /\ copy.escrowed = booking[f.b].escrowed
    BY <2>1, BookingHeld DEF HInv, BookingRow
  <2>4. g.pc = "cancelSave" /\ g.b = f.b /\ g.bk = copy
    BY <1>0 DEF Frame
  <2>5. copy.escrowed => Funded(f.b, payment, confirmedBy, events)
    BY <2>1, <2>3 DEF HInv, Facts
  <2>6. Knows(g, payment, confirmedBy, events) /\ Fresh(g, payment) /\ g.pc \notin Opening
    <3> HIDE DEF copy, g
    <3> QED
      BY <2>3, <2>4, <2>5 DEF Knows, Fresh, Paying, Confirming, Saving, Opening
  <2> HIDE DEF g
  <2> QED
    BY <2>1, <2>2, <2>6, QuietStep, FinishIsDull, DullStep
<1>2. CASE CancelSave(w) \/ CompleteSave(w)
  <2>1. /\ f.pc \in {"cancelSave", "completeSave"} /\ f.b \in Bookings
        /\ booking' = [booking EXCEPT ![f.b] = f.bk]
        /\ UNCHANGED <<payment, events, confirmedBy, onChain, invoiceAsked, member>>
    BY <1>0, <1>2 DEF CancelSave, CompleteSave, At, FrameGood, paystack, history
  <2>2. PICK g : Go(w, g) /\ g.pc \in Dull
    BY <1>2, <1>f DEF CancelSave, CompleteSave
  <2>3. /\ f.bk.status \in {"cancelled", "completed"}
        /\ f.bk.status = "completed" => confirmedBy[f.b] # NoPayment
        /\ f.bk.escrowed => Funded(f.b, payment, confirmedBy, events)
    BY <1>0, <2>1 DEF Knows, Saving
  <2>4. Knows(g, payment, confirmedBy', events) /\ g.pc \notin Opening
    BY <2>2, DullKnows
  <2> QED
    BY <2>1, <2>2, <2>3, <2>4, BookingSave
<1>3. CASE CancelFindPaid(w)
  <2>1. UNCHANGED seen
    BY <1>3 DEF CancelFindPaid, seen, paystack, history
  <2>2. ASSUME NEW p \in PaidFor(f.b),
               Go(w, [f EXCEPT !.pc = "callRefund", !.p = p, !.pay = payment[p]])
        PROVE  HInv' /\ StaysSettled
    <3> DEFINE g == [f EXCEPT !.pc = "callRefund", !.p = p, !.pay = payment[p]]
    <3>1. p \in Payments /\ payment[p].status = "success" /\ payment[p].ref
      BY RowHeld DEF PaidFor, HInv, RowGood
    <3>2. g.pc = "callRefund" /\ g.p = p /\ g.pay = payment[p]
      BY <1>0 DEF Frame
    <3>3. Knows(g, payment, confirmedBy, events) /\ Fresh(g, payment) /\ g.pc \notin Opening
      <4> HIDE DEF g
      <4> QED
        BY <3>1, <3>2 DEF Knows, Fresh, Paying, Confirming, Saving, Opening
    <3>4. Go(w, g)
      BY <2>2
    <3> HIDE DEF g
    <3> QED
      BY <2>1, <3>3, <3>4, QuietStep
  <2>3. CASE Go(w, toSeats)
    BY <1>f, <2>1, <2>3, DullStep
  <2> QED
    BY <1>3, <2>2, <2>3 DEF CancelFindPaid
<1>4. CASE FreeSeats(w) \/ RefundThenCancel(w)
  <2>1. UNCHANGED seen
    BY <1>4 DEF FreeSeats, RefundThenCancel, seen, paystack, history
  <2>2. Finish(w) \/ Go(w, [f EXCEPT !.pc = "cancelRead"])
    BY <1>4 DEF FreeSeats, RefundThenCancel
  <2> QED
    BY <1>f, <2>1, <2>2, FinishIsDull, DullStep
<1>5. CASE CallRefund(w)
  <2>1. f.pc = "callRefund" /\ UNCHANGED seen
    BY <1>5 DEF CallRefund, At, seen, paystack, history
  <2> DEFINE copy == [f.pay EXCEPT !.status = "refunded"]
             g == [f EXCEPT !.pc = "saveRefunded", !.pay = copy]
  <2>2. [f EXCEPT !.pc = "saveRefunded", !.pay.status = "refunded"] = g
    BY <1>0 DEF Frame
  <2>3. Go(w, g) \/ Go(w, toSeats) \/ Finish(w)
    BY <1>5, <2>2 DEF CallRefund
  <2>4. copy.status = "refunded" /\ copy.booking = f.pay.booking /\ copy.ref = f.pay.ref
    BY <1>0 DEF Frame, PaymentRow
  <2>5. g.pc = "saveRefunded" /\ g.p = f.p /\ g.pay = copy
    BY <1>0 DEF Frame
  <2>6. Knows(g, payment, confirmedBy, events) /\ Fresh(g, payment) /\ g.pc \notin Opening
    <3> HIDE DEF copy, g
    <3> QED
      BY <1>0, <2>1, <2>4, <2>5 DEF Knows, Fresh, Paying, Confirming, Saving, Opening
  <2> HIDE DEF g
  <2> QED
    BY <1>f, <2>1, <2>3, <2>6, QuietStep, FinishIsDull, DullStep
<1>6. CASE SaveRefunded(w)
  <2>1. /\ f.pc = "saveRefunded"
        /\ payment' = [payment EXCEPT ![f.p] = f.pay]
        /\ UNCHANGED <<booking, confirmedBy, events, onChain, invoiceAsked, member>>
    BY <1>6 DEF SaveRefunded, At, paystack, history
  <2>2. /\ f.p \in Payments /\ payment[f.p].booking = f.pay.booking /\ f.pay.ref
        /\ f.pay.status = "refunded"
    BY <1>0, <2>1 DEF FrameGood, Knows, Paying
  <2>3. PICK g : Go(w, g) /\ g.pc \in Dull
    BY <1>6, <1>f DEF SaveRefunded
  <2>4. Knows(g, payment', confirmedBy, events) /\ Fresh(g, payment') /\ g.pc \notin Opening
    BY <2>3, DullKnows
  <2>5. \A v \in Workers \ {w} : frame[v].pc \in Opening => frame[v].p # f.p
    BY <2>1, NotOpening DEF Paying
  <2> QED
    BY <2>1, <2>2, <2>3, <2>4, <2>5, PaymentSave
<1> QED
  BY <1>1, <1>2, <1>3, <1>4, <1>5, <1>6 DEF Cancel

LEMMA EnvironmentHolds ==
    ASSUME HInv, IInv', Environment
    PROVE  HInv' /\ StaysSettled
<1>1. /\ UNCHANGED <<booking, payment, confirmedBy, onChain, invoiceAsked, member>>
      /\ \A p \in Payments : events[p] \subseteq events'[p]
  BY DEF Environment, CustomerPays, CardDeclined, PaymentAges, RefundWindowCloses,
         Crash, paystack, clock, history, HInv, IInv, TypeOK
<1>2. Grows /\ StaysSettled
  BY <1>1 DEF Grows, StaysSettled
<1>3. Facts'
  BY <1>1, <1>2, FactsGrow
<1>4. \A w \in Workers : frame'[w] = frame[w] \/ frame'[w].pc \in Dull
  BY DEF Environment, CustomerPays, CardDeclined, PaymentAges, RefundWindowCloses,
         Crash, Idle, Dull
<1>5. ASSUME NEW w \in Workers
      PROVE  Knows(frame'[w], payment', confirmedBy', events') /\ Fresh(frame'[w], payment')
  <2>1. CASE frame'[w] = frame[w]
    <3>1. /\ frame[w] \in Frame /\ FrameGood(frame[w], events)
          /\ Knows(frame[w], payment, confirmedBy, events) /\ Fresh(frame[w], payment)
      BY Holding
    <3> QED
      BY <1>1, <1>2, <2>1, <3>1, KnowsGrows
  <2>2. CASE frame'[w].pc \in Dull
    BY <2>2, DullKnows
  <2> QED
    BY <1>4, <2>1, <2>2
<1>6. OpenedOnce'
  BY <1>4, DullKnows DEF HInv, OpenedOnce
<1> QED
  BY <1>2, <1>3, <1>5, <1>6 DEF HInv

LEMMA HInvInit == Init => HInv
<1> SUFFICES ASSUME Init PROVE HInv
  OBVIOUS
<1>1. \A w \in Workers : frame[w].pc \in Dull
  BY DEF Init, Idle, Dull
<1>2. \A w \in Workers : Knows(frame[w], payment, confirmedBy, events) /\ Fresh(frame[w], payment)
  BY <1>1, DullKnows
<1>3. OpenedOnce
  BY <1>1, DullKnows DEF OpenedOnce
<1>4. Facts
  BY DEF Init, NewBooking, Facts
<1> QED
  BY <1>2, <1>3, <1>4, IInvInit DEF HInv

LEMMA HInvNext == HInv /\ [Next]_vars => HInv' /\ StaysSettled
<1> SUFFICES ASSUME HInv, [Next]_vars PROVE HInv' /\ StaysSettled
  OBVIOUS
<1>1. IInv'
  BY IInvNext DEF HInv
<1>2. CASE UNCHANGED vars
  <2>1. UNCHANGED <<booking, payment, member, frame, events, onChain, confirmedBy, invoiceAsked>>
    BY <1>2 DEF vars, paystack, history
  <2>2. Grows /\ StaysSettled
    BY <2>1 DEF Grows, StaysSettled
  <2>3. Facts' /\ OpenedOnce'
    BY <2>1, <2>2, FactsGrow DEF HInv, OpenedOnce
  <2> QED
    BY <1>1, <2>1, <2>2, <2>3 DEF HInv
<1>3. CASE Next
  BY <1>1, <1>3, InitializeHolds, RequestHolds, OutcomeHolds, CancelHolds, EnvironmentHolds
     DEF Next
<1> QED
  BY <1>2, <1>3

\* However stale the copies saved, a CONFIRMED or COMPLETED booking was
\* confirmed by an admin or by a charged payment that is still its own.
THEOREM ConfirmationsHaveACause == Spec => []ConfirmationHasCause
<1>1. HInv => ConfirmationHasCause
  BY DEF HInv, Facts, ChargeOf, ConfirmationHasCause, Charged
<1> QED
  BY <1>1, HInvInit, HInvNext, PTL DEF Spec

\* Escrow transactions, invoices and activated customers trace back to a
\* charge or a confirmation, whatever ran at the same time.
THEOREM EffectsHaveACharge == Spec => []EffectsFollowCharges
<1>1. HInv => EffectsFollowCharges
  <2> SUFFICES ASSUME HInv PROVE EffectsFollowCharges
    OBVIOUS
  <2>1. \A b \in Bookings : onChain[b] > 0 \/ booking[b].escrowed =>
            /\ b \in LongTerm /\ EscrowEnabled /\ confirmedBy[b] # NoPayment
            /\ \E p \in Payments : payment[p].booking = b /\ Charged(p)
    BY DEF HInv, Facts, Funded, ChargeOf, Charged
  <2>2. ASSUME NEW p \in invoiceAsked
        PROVE  /\ Charged(p) /\ payment[p].booking # NoBooking
               /\ confirmedBy[payment[p].booking] # NoPayment
    BY ParamsAssumption DEF HInv, Facts, ChargeOf, Charged
  <2> QED
    BY <2>1, <2>2 DEF HInv, Facts, EffectsFollowCharges
<1> QED
  BY <1>1, HInvInit, HInvNext, PTL DEF Spec

\* No save of a stale copy makes a settled payment or booking PENDING again:
\* the only PENDING copy ever saved is that of a row nobody else can find.
THEOREM SettledStaysSettled == Spec => PendingNeverReturns
<1>1. HInv /\ [Next]_vars => [StaysSettled]_vars
  BY HInvNext
<1>2. [StaysSettled]_vars =>
        [/\ \A p \in Payments : payment'[p].status = "pending" =>
                                  payment[p].status \in {"absent", "pending"}
         /\ \A b \in Bookings : booking'[b].status = "pending" =>
                                  booking[b].status = "pending"]_vars
  BY DEF StaysSettled
<1> QED
  BY <1>1, <1>2, HInvInit, HInvNext, PTL DEF Spec, PendingNeverReturns

-----------------------------------------------------------------------------
(***************************************************************************)
(* One handler at a time.  Then the copy a handler holds is never stale    *)
(* and what it still has to do after its first save is owed by it alone:   *)
(* to free the seats of the booking it ended, to confirm the booking its   *)
(* charge paid for, to ask for the invoice, to save the refund Paystack    *)
(* acknowledged.  With two handlers in flight none of this holds.          *)
(***************************************************************************)
OneAtATime == \E w : Workers = {w}

Ended(b) == booking[b].status \in {"cancelled", "completed"}

\* Frames that owe the release of seats, a confirmation, or an invoice.
OwesSeats(f) ==
    \/ f.pc \in {"findPaid", "freeSeats"}
    \/ f.pc \in {"callRefund", "saveRefunded"} /\ f.op = "cancel"
OwesConfirm(f) == f.pc \in {"confirmRead", "confirmSave"}
OwesInvoice(f) ==
    f.pc \in {"activate", "createEscrow", "linkEscrow"} /\ f.op = "chargeSuccess"

\* The copy about to be saved is of the row as it is.
CopyCurrent(f) ==
    /\ f.pc = "saveSuccess" => payment[f.p].status \in {"pending", "failed"}
    /\ f.pc = "saveFailed" => payment[f.p].status = "pending"
    /\ f.pc \in {"callRefund", "saveRefunded"} =>
           payment[f.p].status = "success" /\ f.op \in {"cancel", "refund"}
    /\ f.pc \in {"cancelSave", "findPaid"} => f.op = "cancel"
    /\ f.pc = "confirmSave" => booking[f.b].status = "pending"
    /\ f.pc = "cancelSave" => booking[f.b].status \in Cancellable
    /\ f.pc = "completeSave" => booking[f.b].status = "confirmed"

SeatsOwed(f) ==
    /\ \A b \in Bookings : freed[b] = 0 \/ (freed[b] = 1 /\ Ended(b))
    /\ OwesSeats(f) => Ended(f.b) /\ freed[f.b] = 0
    /\ \A b \in Bookings : crashes = 0 /\ Ended(b) /\ freed[b] = 0 =>
           OwesSeats(f) /\ f.b = b

EscrowOwed(f) ==
    /\ \A b \in Bookings : onChain[b] <= 1
    /\ \A b \in Bookings : booking[b].status = "pending" => onChain[b] = 0
    /\ f.pc \in {"activate", "createEscrow"} =>
           onChain[f.b] = 0 /\ booking[f.b].status # "pending"

RefundOwed(f) ==
    \A p \in Payments : crashes = 0 /\ refund[p] \in {"acked", "again"} =>
        /\ refund[p] = "acked"
        /\ \/ payment[p].status = "refunded"
           \/ f.pc = "saveRefunded" /\ f.p = p

ConfirmOwed(f) ==
    \A p \in Payments :
        LET b == payment[p].booking
        IN  crashes = 0 /\ payment[p].status = "success" /\ booking[b].status = "pending"
            => OwesConfirm(f) /\ f.b = b

InvoiceOwed(f) ==
    \A b \in Bookings : \A p \in Payments :
        crashes = 0 /\ confirmedBy[b] = p /\ p \notin invoiceAsked =>
            OwesInvoice(f) /\ f.p = p

SInv ==
    /\ HInv
    /\ \A w \in Workers :
        /\ CopyCurrent(frame[w]) /\ SeatsOwed(frame[w]) /\ EscrowOwed(frame[w])
        /\ RefundOwed(frame[w]) /\ ConfirmOwed(frame[w]) /\ InvoiceOwed(frame[w])

seqrows == <<booking, payment, freed, onChain, refund, confirmedBy, invoiceAsked, crashes>>

\* The step of FinalStatusStays.
FinalStays ==
    /\ \A b \in Bookings : booking[b].status \in {"cancelled", "completed"}
                             => booking'[b].status = booking[b].status
    /\ \A p \in Payments : payment[p].status = "refunded"
                             => payment'[p].status = "refunded"

\* A frame that owes nothing, and steps at which it holds no copy either.
Plain(f) ==
    /\ ~OwesSeats(f) /\ ~OwesConfirm(f)
    /\ f.pc \notin {"activate", "createEscrow", "linkEscrow", "saveRefunded"}
Light == {"idle", "verifyNext", "findForSuccess", "findForFailed", "findPending",
          "reopenCheckout", "insertPayment", "openCheckout", "saveReference",
          "cancelRead", "afterRefund"}

LEMMA Alone ==
    ASSUME OneAtATime, SInv, NEW w \in Workers
    PROVE  /\ \A v \in Workers : v = w
           /\ CopyCurrent(frame[w]) /\ SeatsOwed(frame[w]) /\ EscrowOwed(frame[w])
           /\ RefundOwed(frame[w]) /\ ConfirmOwed(frame[w]) /\ InvoiceOwed(frame[w])
           /\ frame[w] \in Frame /\ FrameGood(frame[w], events)
           /\ Knows(frame[w], payment, confirmedBy, events) /\ Fresh(frame[w], payment)
           /\ booking \in [Bookings -> BookingRow] /\ payment \in [Payments -> PaymentRow]
           /\ frame \in [Workers -> Frame]
           /\ freed \in [Bookings -> 0..CountCap] /\ onChain \in [Bookings -> 0..CountCap]
           /\ refund \in [Payments -> RefundLog]
           /\ confirmedBy \in [Bookings -> Payments \cup {NoPayment, ByAdmin}]
<1>1. HInv
  BY DEF SInv
<1>2. frame[w] \in Frame /\ FrameGood(frame[w], events)
      /\ Knows(frame[w], payment, confirmedBy, events) /\ Fresh(frame[w], payment)
  BY <1>1, Holding
<1>3. TypeOK
  BY <1>1 DEF HInv, IInv
<1> QED
  BY <1>2, <1>3 DEF SInv, OneAtATime, TypeOK

LEMMA Together ==
    ASSUME OneAtATime, NEW w \in Workers, HInv',
           CopyCurrent(frame[w])', SeatsOwed(frame[w])', EscrowOwed(frame[w])',
           RefundOwed(frame[w])', ConfirmOwed(frame[w])', InvoiceOwed(frame[w])'
    PROVE  SInv'
<1>1. \A v \in Workers : v = w
  BY DEF OneAtATime
<1> QED
  BY <1>1 DEF SInv

LEMMA LightIsPlain ==
    ASSUME NEW w \in Workers, frame'[w].pc \in Light
    PROVE  Plain(frame'[w]) /\ CopyCurrent(frame[w])'
BY DEF Light, Plain, OwesSeats, OwesConfirm, CopyCurrent

LEMMA MovesTo ==
    ASSUME OneAtATime, SInv, NEW w \in Workers, NEW g, Go(w, g)
    PROVE  frame'[w] = g
BY Alone DEF Go

LEMMA ReturnIsLight ==
    ASSUME OneAtATime, SInv, NEW w \in Workers, NEW batch, Return(w, batch)
    PROVE  frame'[w].pc \in Light
<1> DEFINE g == [Idle EXCEPT !.op = "reconcile", !.pc = "verifyNext",
                             !.batch = batch]
<1>1. Idle.pc \in Light /\ g.pc \in Light
  BY DEF Idle, Light
<1>2. Go(w, Idle) \/ Go(w, g)
  BY DEF Return
<1> HIDE DEF g
<1> QED
  BY <1>1, <1>2, MovesTo

LEMMA FinishIsLight ==
    ASSUME OneAtATime, SInv, NEW w \in Workers, Finish(w)
    PROVE  frame'[w].pc \in Light
BY ReturnIsLight DEF Finish

\* A handler that owes nothing moves on and changes none of the rows.
LEMMA PlainStep ==
    ASSUME OneAtATime, SInv, HInv', NEW w \in Workers, Plain(frame[w]),
           Plain(frame'[w]), CopyCurrent(frame[w])', UNCHANGED seqrows
    PROVE  SInv' /\ FinalStays
<1>0. UNCHANGED <<booking, payment, freed, onChain, refund, confirmedBy, invoiceAsked, crashes>>
  BY DEF seqrows
<1>1. SeatsOwed(frame[w])'
  BY <1>0, Alone DEF SeatsOwed, Plain, Ended
<1>2. EscrowOwed(frame[w])'
  BY <1>0, Alone DEF EscrowOwed, Plain
<1>3. RefundOwed(frame[w])'
  BY <1>0, Alone DEF RefundOwed, Plain
<1>4. ConfirmOwed(frame[w])'
  BY <1>0, Alone DEF ConfirmOwed, Plain
<1>5. InvoiceOwed(frame[w])'
  BY <1>0, Alone DEF InvoiceOwed, Plain, OwesInvoice
<1>6. FinalStays
  BY <1>0 DEF FinalStays
<1> QED
  BY <1>1, <1>2, <1>3, <1>4, <1>5, <1>6, Together

LEMMA LightStep ==
    ASSUME OneAtATime, SInv, HInv', NEW w \in Workers, Plain(frame[w]),
           frame'[w].pc \in Light, UNCHANGED seqrows
    PROVE  SInv' /\ FinalStays
BY LightIsPlain, PlainStep

\* Such a handler saves a payment that was not refunded, as not yet paid.
LEMMA PlainSave ==
    ASSUME OneAtATime, SInv, HInv', NEW w \in Workers, Plain(frame[w]),
           frame'[w].pc \in Light, NEW p \in Payments, NEW row,
           payment' = [payment EXCEPT ![p] = row],
           UNCHANGED <<booking, freed, onChain, refund, confirmedBy, invoiceAsked, crashes>>,
           payment[p].status # "refunded", row.status # "success"
    PROVE  SInv' /\ FinalStays
<1>0. /\ payment'[p] = row
      /\ \A q \in Payments \ {p} : payment'[q] = payment[q]
  BY Alone
<1>p. Plain(frame'[w]) /\ CopyCurrent(frame[w])'
  BY LightIsPlain
<1>1. SeatsOwed(frame[w])'
  BY <1>p, Alone DEF SeatsOwed, Plain, Ended
<1>2. EscrowOwed(frame[w])'
  BY <1>p, Alone DEF EscrowOwed, Plain
<1>3. RefundOwed(frame[w])'
  BY <1>0, <1>p, Alone DEF RefundOwed, Plain
<1>4. ConfirmOwed(frame[w])'
  BY <1>0, <1>p, Alone DEF ConfirmOwed, Plain
<1>5. InvoiceOwed(frame[w])'
  BY <1>p, Alone DEF InvoiceOwed, Plain, OwesInvoice
<1>6. FinalStays
  BY <1>0 DEF FinalStays
<1> QED
  BY <1>p, <1>1, <1>2, <1>3, <1>4, <1>5, <1>6, Together

\* A copy just read is current; a handler that owes nothing keeps owing nothing.
LEMMA CopyStep ==
    ASSUME OneAtATime, SInv, HInv', NEW w \in Workers, Plain(frame[w]), UNCHANGED seqrows,
           \/ /\ frame'[w].pc = "saveSuccess"
              /\ payment[frame'[w].p].status \in {"pending", "failed"}
           \/ frame'[w].pc = "saveFailed" /\ payment[frame'[w].p].status = "pending"
           \/ /\ frame'[w].pc = "callRefund" /\ frame'[w].op = "refund"
              /\ payment[frame'[w].p].status = "success"
           \/ /\ frame'[w].pc = "cancelSave" /\ frame'[w].op = "cancel"
              /\ booking[frame'[w].b].status \in Cancellable
           \/ frame'[w].pc = "completeSave" /\ booking[frame'[w].b].status = "confirmed"
    PROVE  SInv' /\ FinalStays
<1>1. Plain(frame'[w])
  BY DEF Plain, OwesSeats, OwesConfirm
<1>2. CopyCurrent(frame[w])'
  BY DEF CopyCurrent, seqrows
<1> QED
  BY <1>1, <1>2, PlainStep

LEMMA InitializeAlone ==
    ASSUME OneAtATime, SInv, HInv', NEW w \in Workers, Initialize(w)
    PROVE  SInv' /\ FinalStays
<1> DEFINE f == frame[w]
<1>0. f \in Frame /\ FrameGood(f, events) /\ Fresh(f, payment)
  BY Alone
<1>p. ASSUME f.pc \in {"idle", "findPending", "reopenCheckout", "insertPayment",
                       "openCheckout", "saveReference"}
      PROVE  Plain(f)
  BY <1>p DEF Plain, OwesSeats, OwesConfirm
<1>1. ASSUME NEW b \in Bookings, InitializeStart(w, b)
      PROVE  SInv' /\ FinalStays
  <2> DEFINE g == [Idle EXCEPT !.op = "initialize", !.pc = "findPending", !.b = b]
  <2>1. g.pc \in Light
    BY DEF Idle, Light
  <2>2. Go(w, g) /\ f.pc = "idle" /\ UNCHANGED seqrows
    BY <1>1 DEF InitializeStart, Free, Idle, seqrows, history
  <2> HIDE DEF g
  <2> QED
    BY <1>p, <2>1, <2>2, MovesTo, LightStep
<1>2. CASE InitializeFindPending(w)
  <2>1. \/ \E p \in Payments : Go(w, [f EXCEPT !.pc = "reopenCheckout", !.p = p])
        \/ Go(w, [f EXCEPT !.pc = "insertPayment"])
    BY <1>2 DEF InitializeFindPending, PendingFor
  <2>2. /\ \A p \in Payments : [f EXCEPT !.pc = "reopenCheckout", !.p = p].pc \in Light
        /\ [f EXCEPT !.pc = "insertPayment"].pc \in Light
    BY <1>0 DEF Frame, Light
  <2>3. frame'[w].pc \in Light
    BY <2>1, <2>2, MovesTo
  <2>4. f.pc = "findPending" /\ UNCHANGED seqrows
    BY <1>2 DEF InitializeFindPending, At, seqrows, history
  <2> QED
    BY <1>p, <2>3, <2>4, LightStep
<1>3. CASE InitializeReopen(w) \/ InitializeNoRow(w)
  <2>1. /\ f.pc \in {"reopenCheckout", "insertPayment"}
        /\ Finish(w) /\ UNCHANGED seqrows
    BY <1>3 DEF InitializeReopen, InitializeNoRow, At, seqrows, history
  <2> QED
    BY <1>p, <2>1, FinishIsLight, LightStep
<1>4. CASE InitializeInsert(w)
  <2> DEFINE row == [booking |-> f.b, status |-> "pending", ref |-> FALSE]
  <2>1. PICK p \in Payments :
          /\ payment[p].status = "absent"
          /\ payment' = [payment EXCEPT ![p] = row]
          /\ Go(w, [f EXCEPT !.pc = "openCheckout", !.p = p, !.pay = row])
    BY <1>4 DEF InitializeInsert
  <2> DEFINE g == [f EXCEPT !.pc = "openCheckout", !.p = p, !.pay = row]
  <2>2. g.pc \in Light
    BY <1>0 DEF Frame, Light
  <2>3. Go(w, g) /\ row.status = "pending"
    BY <2>1
  <2>4. /\ f.pc = "insertPayment"
        /\ UNCHANGED <<booking, freed, onChain, refund, confirmedBy, invoiceAsked, crashes>>
    BY <1>4 DEF InitializeInsert, At, history
  <2> HIDE DEF g, row
  <2>5. frame'[w].pc \in Light
    BY <2>2, <2>3, MovesTo
  <2> QED
    BY <1>p, <2>1, <2>3, <2>4, <2>5, PlainSave
<1>5. CASE InitializeOpenCheckout(w)
  <2> DEFINE g == [f EXCEPT !.pc = "saveReference",
                            !.pay = [f.pay EXCEPT !.ref = TRUE]]
  <2>1. [f EXCEPT !.pc = "saveReference", !.pay.ref = TRUE] = g /\ g.pc \in Light
    BY <1>0 DEF Frame, Light
  <2>2. Go(w, g) \/ Finish(w)
    BY <1>5, <2>1 DEF InitializeOpenCheckout
  <2>3. f.pc = "openCheckout" /\ UNCHANGED seqrows
    BY <1>5 DEF InitializeOpenCheckout, At, seqrows, history
  <2> HIDE DEF g
  <2> QED
    BY <1>p, <2>1, <2>2, <2>3, MovesTo, FinishIsLight, LightStep
<1>6. CASE InitializeSaveReference(w)
  <2>1. /\ f.pc = "saveReference" /\ Finish(w)
        /\ payment' = [payment EXCEPT ![f.p] = f.pay]
        /\ UNCHANGED <<booking, freed, onChain, refund, confirmedBy, invoiceAsked, crashes>>
    BY <1>6 DEF InitializeSaveReference, At, history
  <2>2. f.p \in Payments /\ payment[f.p].status = "pending" /\ f.pay.status = "pending"
    BY <1>0, <2>1 DEF FrameGood, Fresh, Opening
  <2> QED
    BY <1>p, <2>1, <2>2, FinishIsLight, PlainSave
<1> QED
  BY <1>1, <1>2, <1>3, <1>4, <1>5, <1>6 DEF Initialize

LEMMA RequestAlone ==
    ASSUME OneAtATime, SInv, HInv', NEW w \in Workers,
           Request(w) \/ ReconcileStart(w) \/ ReconcileVerify(w)
    PROVE  SInv' /\ FinalStays
<1> DEFINE f == frame[w]
<1>p. ASSUME f.pc \in {"idle", "verifyNext"}
      PROVE  Plain(f)
  BY <1>p DEF Plain, OwesSeats, OwesConfirm
<1>f. Free(w) => Plain(f)
  BY <1>p DEF Free, Idle
<1>1. ASSUME NEW p \in Payments, Webhook(w, p)
      PROVE  SInv' /\ FinalStays
  <2> DEFINE g1 == [Idle EXCEPT !.op = "chargeSuccess",
                                !.pc = "findForSuccess", !.p = p]
             g2 == [Idle EXCEPT !.op = "chargeFailed",
                                !.pc = "findForFailed", !.p = p]
  <2>1. g1.pc \in Light /\ g2.pc \in Light
    BY DEF Idle, Light
  <2>2. (Go(w, g1) \/ Go(w, g2)) /\ Free(w) /\ UNCHANGED seqrows
    BY <1>1 DEF Webhook, seqrows, history
  <2> HIDE DEF g1, g2
  <2> QED
    BY <1>f, <2>1, <2>2, MovesTo, LightStep
<1>2. ASSUME NEW p \in Payments, RefundStart(w, p)
      PROVE  SInv' /\ FinalStays
  <2> DEFINE g == [Idle EXCEPT !.op = "refund", !.pc = "callRefund", !.p = p,
                               !.b = payment[p].booking, !.pay = payment[p]]
  <2>1. payment[p].status = "success" /\ Go(w, g) /\ Free(w) /\ UNCHANGED seqrows
    BY <1>2 DEF RefundStart, seqrows, history
  <2>2. g.pc = "callRefund" /\ g.p = p /\ g.op = "refund"
    BY DEF Idle
  <2> HIDE DEF g
  <2>3. frame'[w] = g
    BY <2>1, MovesTo
  <2> QED
    BY <1>f, <2>1, <2>2, <2>3, CopyStep
<1>3. ASSUME NEW b \in Bookings, ConfirmStart(w, b)
      PROVE  SInv' /\ FinalStays
  <2> DEFINE g == [Idle EXCEPT !.op = "confirm", !.pc = "confirmRead", !.b = b]
  <2>1. /\ Go(w, g) /\ Free(w)
        /\ UNCHANGED <<booking, payment, freed, onChain, refund, confirmedBy, invoiceAsked, crashes>>
    BY <1>3 DEF ConfirmStart, history
  <2>2. g.pc = "confirmRead" /\ g.op = "confirm"
    BY DEF Idle
  <2> HIDE DEF g
  <2>3. frame'[w].pc = "confirmRead"
    BY <2>1, <2>2, MovesTo
  <2>4. Plain(f)
    BY <1>f, <2>1
  <2>5. SeatsOwed(frame[w])'
    BY <2>1, <2>3, <2>4, Alone DEF SeatsOwed, Plain, Ended, OwesSeats
  <2>6. EscrowOwed(frame[w])'
    BY <2>1, <2>3, Alone DEF EscrowOwed
  <2>7. RefundOwed(frame[w])' /\ ConfirmOwed(frame[w])' /\ InvoiceOwed(frame[w])'
    BY <2>1, <2>4, Alone DEF RefundOwed, ConfirmOwed, InvoiceOwed, Plain, OwesInvoice
  <2>8. CopyCurrent(frame[w])' /\ FinalStays
    BY <2>1, <2>3 DEF CopyCurrent, FinalStays
  <2> QED
    BY <2>5, <2>6, <2>7, <2>8, Together
<1>4. ASSUME NEW b \in Bookings, CompleteStart(w, b)
      PROVE  SInv' /\ FinalStays
  <2> DEFINE g == [Idle EXCEPT !.op = "complete", !.pc = "completeSave", !.b = b,
                               !.bk = [booking[b] EXCEPT !.status = "completed"]]
  <2>1. booking[b].status = "confirmed" /\ Go(w, g) /\ Free(w) /\ UNCHANGED seqrows
    BY <1>4 DEF CompleteStart, seqrows, history
  <2>2. g.pc = "completeSave" /\ g.b = b
    BY DEF Idle
  <2> HIDE DEF g
  <2>3. frame'[w] = g
    BY <2>1, MovesTo
  <2> QED
    BY <1>f, <2>1, <2>2, <2>3, CopyStep
<1>5. ASSUME NEW b \in Bookings, NEW u \in Users, CancelStart(w, b, u)
      PROVE  SInv' /\ FinalStays
  <2> DEFINE g == [[Idle EXCEPT !.b = b] EXCEPT !.op = "cancel", !.pc = "cancelSave",
                       !.bk = [booking[b] EXCEPT !.status = "cancelled"]]
  <2>1. booking[b].status \in Cancellable /\ Go(w, g) /\ Free(w) /\ UNCHANGED seqrows
    BY <1>5 DEF CancelStart, HoldCancelled, Idle, seqrows, history
  <2>2. g.pc = "cancelSave" /\ g.b = b /\ g.op = "cancel"
    BY DEF Idle
  <2> HIDE DEF g
  <2>3. frame'[w] = g
    BY <2>1, MovesTo
  <2> QED
    BY <1>f, <2>1, <2>2, <2>3, CopyStep
<1>6. CASE ReconcileStart(w)
  <2>1. Return(w, Reconcilable) /\ Free(w) /\ UNCHANGED seqrows
    BY <1>6 DEF ReconcileStart, seqrows, history
  <2> QED
    BY <1>f, <2>1, ReturnIsLight, LightStep
<1>7. CASE ReconcileVerify(w)
  <2>1. PICK p \in frame[w].batch :
          LET rest == frame[w].batch \ {p}
              g == [Idle EXCEPT !.p = p, !.batch = rest]
          IN  \/ Go(w, [g EXCEPT !.op = "chargeSuccess", !.pc = "findForSuccess"])
              \/ Go(w, [g EXCEPT !.op = "chargeFailed", !.pc = "findForFailed"])
              \/ Return(w, rest)
    BY <1>7 DEF ReconcileVerify
  <2> DEFINE rest == frame[w].batch \ {p}
             g == [Idle EXCEPT !.p = p, !.batch = rest]
             g1 == [g EXCEPT !.op = "chargeSuccess", !.pc = "findForSuccess"]
             g2 == [g EXCEPT !.op = "chargeFailed", !.pc = "findForFailed"]
  <2>2. g1.pc \in Light /\ g2.pc \in Light
    BY DEF Idle, Light
  <2>3. Go(w, g1) \/ Go(w, g2) \/ Return(w, rest)
    BY <2>1
  <2>4. f.pc = "verifyNext" /\ UNCHANGED seqrows
    BY <1>7 DEF ReconcileVerify, At, seqrows, history
  <2> HIDE DEF rest, g1, g2
  <2> QED
    BY <1>p, <2>2, <2>3, <2>4, MovesTo, ReturnIsLight, LightStep
<1> QED
  BY <1>1, <1>2, <1>3, <1>4, <1>5, <1>6, <1>7 DEF Request

LEMMA OutcomeAlone ==
    ASSUME OneAtATime, SInv, HInv', NEW w \in Workers, Outcome(w)
    PROVE  SInv' /\ FinalStays
<1> DEFINE f == frame[w]
           h == frame'[w]
<1>0. /\ f \in Frame /\ FrameGood(f, events)
      /\ Knows(f, payment, confirmedBy, events) /\ CopyCurrent(f)
  BY Alone
<1>l. ASSUME h.pc \in Light
      PROVE  /\ ~OwesSeats(h) /\ ~OwesConfirm(h) /\ ~OwesInvoice(h)
             /\ h.pc \notin {"activate", "createEscrow"} /\ CopyCurrent(frame[w])'
  BY <1>l, LightIsPlain DEF Plain, OwesInvoice
<1>1. CASE ChargeSuccessFind(w) \/ ChargeFailedFind(w)
  <2>1. /\ f.pc \in {"findForSuccess", "findForFailed"}
        /\ UNCHANGED seqrows
    BY <1>1 DEF ChargeSuccessFind, ChargeFailedFind, At, seqrows, history
  <2>2. Plain(f)
    BY <2>1 DEF Plain, OwesSeats, OwesConfirm
  <2> DEFINE row == payment[f.p]
             g1 == [f EXCEPT !.pc = "saveSuccess", !.b = row.booking,
                             !.pay = [row EXCEPT !.status = "success"]]
             g2 == [f EXCEPT !.pc = "saveFailed", !.pay = [row EXCEPT !.status = "failed"]]
  <2>3. \/ row.status \in {"pending", "failed"} /\ Go(w, g1)
        \/ row.status = "pending" /\ Go(w, g2)
        \/ Finish(w)
    BY <1>1 DEF ChargeSuccessFind, ChargeFailedFind
  <2>4. g1.pc = "saveSuccess" /\ g1.p = f.p /\ g2.pc = "saveFailed" /\ g2.p = f.p
    BY <1>0 DEF Frame
  <2> HIDE DEF g1, g2
  <2>5. CASE row.status \in {"pending", "failed"} /\ Go(w, g1)
    <3>1. h = g1
      BY <2>5, MovesTo
    <3> QED
      BY <2>1, <2>2, <2>4, <2>5, <3>1, CopyStep
  <2>6. CASE row.status = "pending" /\ Go(w, g2)
    <3>1. h = g2
      BY <2>6, MovesTo
    <3> QED
      BY <2>1, <2>2, <2>4, <2>6, <3>1, CopyStep
  <2>7. CASE Finish(w)
    BY <2>1, <2>2, <2>7, FinishIsLight, LightStep
  <2> QED
    BY <2>3, <2>5, <2>6, <2>7
<1>2. CASE ChargeSuccessSave(w)
  <2> DEFINE g == [f EXCEPT !.pc = "confirmRead"]
  <2>1. /\ f.pc = "saveSuccess" /\ Go(w, g)
        /\ payment' = [payment EXCEPT ![f.p] = f.pay]
        /\ UNCHANGED <<booking, freed, onChain, refund, confirmedBy, invoiceAsked, crashes>>
    BY <1>2 DEF ChargeSuccessSave, At, history
  <2>2. g.pc = "confirmRead" /\ g.b = f.b /\ g.p = f.p /\ g.op = f.op
    BY <1>0 DEF Frame
  <2> HIDE DEF g
  <2>3. h.pc = "confirmRead" /\ h.b = f.b
    BY <2>1, <2>2, MovesTo
  <2>4. /\ f.p \in Payments /\ f.b = f.pay.booking /\ f.pay.status = "success"
        /\ payment[f.p].status \in {"pending", "failed"}
    BY <1>0, <2>1 DEF FrameGood, Knows, CopyCurrent
  <2>5. payment'[f.p] = f.pay /\ \A q \in Payments \ {f.p} : payment'[q] = payment[q]
    BY <2>1, <2>4, Alone
  <2>6. SeatsOwed(frame[w])'
    BY <2>1, <2>3, Alone DEF SeatsOwed, Ended, OwesSeats
  <2>7. EscrowOwed(frame[w])'
    BY <2>1, <2>3, Alone DEF EscrowOwed
  <2>8. RefundOwed(frame[w])'
    BY <2>1, <2>4, <2>5, Alone DEF RefundOwed
  <2>9. ConfirmOwed(frame[w])'
    BY <2>1, <2>3, <2>4, <2>5, Alone DEF ConfirmOwed, OwesConfirm
  <2>10. InvoiceOwed(frame[w])'
    BY <2>1, Alone DEF InvoiceOwed, OwesInvoice
  <2>11. CopyCurrent(frame[w])' /\ FinalStays
    BY <2>1, <2>3, <2>4, <2>5 DEF CopyCurrent, FinalStays
  <2> QED
    BY <2>6, <2>7, <2>8, <2>9, <2>10, <2>11, Together
<1>3. CASE ChargeFailedSave(w)
  <2>1. /\ f.pc = "saveFailed" /\ Finish(w)
        /\ payment' = [payment EXCEPT ![f.p] = f.pay]
        /\ UNCHANGED <<booking, freed, onChain, refund, confirmedBy, invoiceAsked, crashes>>
    BY <1>3 DEF ChargeFailedSave, At, history
  <2>2. f.p \in Payments /\ f.pay.status = "failed" /\ payment[f.p].status = "pending"
    BY <1>0, <2>1 DEF FrameGood, Knows, CopyCurrent
  <2>3. Plain(f)
    BY <2>1 DEF Plain, OwesSeats, OwesConfirm
  <2> QED
    BY <2>1, <2>2, <2>3, FinishIsLight, PlainSave
<1>4. CASE ConfirmRead(w)
  <2> DEFINE g == [f EXCEPT !.pc = "confirmSave",
                            !.bk = [booking[f.b] EXCEPT !.status = "confirmed"]]
  <2>1. /\ f.pc = "confirmRead" /\ f.b \in Bookings
        /\ \/ booking[f.b].status = "pending" /\ Go(w, g)
           \/ booking[f.b].status # "pending" /\ Finish(w)
        /\ UNCHANGED <<booking, payment, freed, onChain, refund, confirmedBy, invoiceAsked, crashes>>
    BY <1>0, <1>4 DEF ConfirmRead, At, FrameGood, history
  <2>2. g.pc = "confirmSave" /\ g.b = f.b
    BY <1>0 DEF Frame
  <2> HIDE DEF g
  <2>3. \/ h.pc = "confirmSave" /\ h.b = f.b /\ booking[f.b].status = "pending"
        \/ h.pc \in Light /\ booking[f.b].status # "pending"
    BY <2>1, <2>2, MovesTo, FinishIsLight
  <2>4. ~OwesSeats(h) /\ ~OwesInvoice(h) /\ h.pc \notin {"activate", "createEscrow"}
    BY <2>3, <1>l DEF OwesSeats, OwesInvoice
  <2>5. SeatsOwed(frame[w])'
    BY <2>1, <2>4, Alone DEF SeatsOwed, Ended, OwesSeats
  <2>6. EscrowOwed(frame[w])'
    BY <2>1, <2>4, Alone DEF EscrowOwed
  <2>7. RefundOwed(frame[w])' /\ InvoiceOwed(frame[w])'
    BY <2>1, Alone DEF RefundOwed, InvoiceOwed, OwesInvoice
  <2>8. ConfirmOwed(frame[w])'
    BY <2>1, <2>3, Alone DEF ConfirmOwed, OwesConfirm
  <2>9. CopyCurrent(frame[w])'
    BY <2>1, <2>3, <1>l DEF CopyCurrent
  <2>10. FinalStays
    BY <2>1 DEF FinalStays
  <2> QED
    BY <2>5, <2>6, <2>7, <2>8, <2>9, <2>10, Together
<1>5. CASE ConfirmSave(w)
  <2> DEFINE by == IF f.op = "confirm" THEN ByAdmin ELSE f.p
             g == [f EXCEPT !.pc = "activate"]
  <2>1. /\ f.pc = "confirmSave" /\ Go(w, g)
        /\ booking' = [booking EXCEPT ![f.b] = f.bk]
        /\ confirmedBy' = [confirmedBy EXCEPT ![f.b] = by]
        /\ UNCHANGED <<payment, freed, onChain, refund, invoiceAsked, crashes>>
    BY <1>5 DEF ConfirmSave, At
  <2>2. g.pc = "activate" /\ g.b = f.b /\ g.p = f.p /\ g.op = f.op
    BY <1>0 DEF Frame
  <2>3. /\ f.b \in Bookings /\ f.bk.status = "confirmed" /\ booking[f.b].status = "pending"
        /\ f.op \in {"confirm", "chargeSuccess"}
    BY <1>0, <2>1 DEF FrameGood, Knows, Confirming, CopyCurrent
  <2> HIDE DEF g, by
  <2>4. h.pc = "activate" /\ h.b = f.b /\ h.p = f.p /\ h.op = f.op
    BY <2>1, <2>2, MovesTo
  <2>5. /\ booking'[f.b].status = "confirmed"
        /\ \A b \in Bookings \ {f.b} : booking'[b] = booking[b]
    BY <2>1, <2>3, Alone
  <2>6. /\ confirmedBy'[f.b] = by
        /\ \A b \in Bookings \ {f.b} : confirmedBy'[b] = confirmedBy[b]
    BY <2>1, <2>3, Alone
  <2>7. by \in Payments => f.op = "chargeSuccess" /\ by = f.p
    BY <2>3, ParamsAssumption DEF by
  <2>8. SeatsOwed(frame[w])'
    BY <2>1, <2>3, <2>4, <2>5, Alone DEF SeatsOwed, Ended, OwesSeats
  <2>9. EscrowOwed(frame[w])'
    BY <2>1, <2>3, <2>4, <2>5, Alone DEF EscrowOwed
  <2>10. RefundOwed(frame[w])'
    BY <2>1, Alone DEF RefundOwed
  <2>11. ConfirmOwed(frame[w])'
    <3> SUFFICES ASSUME NEW p \in Payments, crashes' = 0, payment'[p].status = "success",
                        booking'[payment'[p].booking].status = "pending"
                 PROVE  FALSE
      BY DEF ConfirmOwed
    <3>1. payment[p].booking \in Bookings
      BY <2>1, RowHeld DEF RowGood, SInv, HInv
    <3> QED
      BY <2>1, <2>5, <3>1, Alone DEF ConfirmOwed
  <2>12. InvoiceOwed(frame[w])'
    BY <2>1, <2>4, <2>6, <2>7, Alone DEF InvoiceOwed, OwesInvoice
  <2>13. CopyCurrent(frame[w])' /\ FinalStays
    BY <2>1, <2>3, <2>4, <2>5 DEF CopyCurrent, FinalStays
  <2> QED
    BY <2>8, <2>9, <2>10, <2>11, <2>12, <2>13, Together
<1>6. CASE Activate(w) \/ CreateEscrow(w) \/ LinkEscrow(w)
  <2> DEFINE g1 == [f EXCEPT !.pc = "createEscrow"]
             g2 == [f EXCEPT !.pc = "linkEscrow"]
  <2>1. /\ f.pc \in {"activate", "createEscrow", "linkEscrow"}
        /\ UNCHANGED <<payment, freed, refund, confirmedBy, crashes>>
    BY <1>6 DEF Activate, CreateEscrow, LinkEscrow, At
  <2>2. /\ f.b \in Bookings /\ f.op \in {"confirm", "chargeSuccess"}
        /\ f.pc # "activate" => f.op = "chargeSuccess"
    BY <1>0, <2>1 DEF FrameGood, Knows, Confirming
  <2>3. \/ Finish(w) /\ UNCHANGED invoiceAsked /\ f.op = "confirm"
        \/ /\ f.op = "chargeSuccess" /\ UNCHANGED invoiceAsked
           /\ (f.pc = "activate" /\ Go(w, g1)) \/ (f.pc = "createEscrow" /\ Go(w, g2))
        \/ Finish(w) /\ invoiceAsked' = invoiceAsked \cup {f.p} /\ f.op = "chargeSuccess"
    BY <1>6, <2>2 DEF Activate, CreateEscrow, LinkEscrow, AskInvoice, At
  <2>4. /\ g1.pc = "createEscrow" /\ g1.b = f.b /\ g1.p = f.p /\ g1.op = f.op
        /\ g2.pc = "linkEscrow" /\ g2.b = f.b /\ g2.p = f.p /\ g2.op = f.op
    BY <1>0 DEF Frame
  <2> HIDE DEF g1, g2
  <2>5. \/ h.pc \in Light /\ UNCHANGED invoiceAsked /\ f.op = "confirm"
        \/ /\ f.op = "chargeSuccess" /\ UNCHANGED invoiceAsked
           /\ h.b = f.b /\ h.p = f.p /\ h.op = f.op
           /\ \/ f.pc = "activate" /\ h.pc = "createEscrow"
              \/ f.pc = "createEscrow" /\ h.pc = "linkEscrow"
        \/ h.pc \in Light /\ invoiceAsked' = invoiceAsked \cup {f.p} /\ f.op = "chargeSuccess"
    BY <2>3, <2>4, MovesTo, FinishIsLight
  <2>6. ~OwesSeats(h) /\ ~OwesConfirm(h) /\ CopyCurrent(frame[w])'
    BY <2>5, <1>l DEF OwesSeats, OwesConfirm, CopyCurrent
  <2>7. \A b \in Bookings : booking'[b].status = booking[b].status
    <3>1. CASE LinkEscrow(w)
      <4> DEFINE row == [booking[f.b] EXCEPT !.escrowed = TRUE]
      <4>1. booking' = [booking EXCEPT ![f.b] = row]
        BY <3>1 DEF LinkEscrow
      <4>2. row.status = booking[f.b].status
        BY <2>2, Alone DEF BookingRow
      <4> HIDE DEF row
      <4> QED
        BY <2>2, <4>1, <4>2, Alone
    <3>2. CASE ~LinkEscrow(w)
      BY <1>6, <3>2 DEF Activate, CreateEscrow
    <3> QED
      BY <3>1, <3>2
  <2>8. \/ UNCHANGED onChain
        \/ /\ f.pc = "createEscrow" /\ onChain'[f.b] = Bump(onChain[f.b])
           /\ \A b \in Bookings \ {f.b} : onChain'[b] = onChain[b]
    BY <1>6, <2>2, Alone DEF Activate, CreateEscrow, LinkEscrow, At
  <2>9. SeatsOwed(frame[w])'
    BY <2>1, <2>6, <2>7, Alone DEF SeatsOwed, Ended, OwesSeats
  <2>10. EscrowOwed(frame[w])'
    <3>1. h.pc \in {"activate", "createEscrow"} => f.pc = "activate" /\ h.b = f.b
      BY <2>5, <1>l
    <3>2. f.pc = "createEscrow" => onChain'[f.b] <= 1
      BY <2>2, <2>8, Alone DEF EscrowOwed, Bump, CountCap
    <3> QED
      BY <2>1, <2>2, <2>7, <2>8, <3>1, <3>2, Alone DEF EscrowOwed
  <2>11. RefundOwed(frame[w])'
    BY <2>1, Alone DEF RefundOwed
  <2>12. ConfirmOwed(frame[w])'
    <3> SUFFICES ASSUME NEW p \in Payments, crashes' = 0, payment'[p].status = "success",
                        booking'[payment'[p].booking].status = "pending"
                 PROVE  FALSE
      BY DEF ConfirmOwed
    <3>1. payment[p].booking \in Bookings
      BY <2>1, RowHeld DEF RowGood, SInv, HInv
    <3> QED
      BY <2>1, <2>7, <3>1, Alone DEF ConfirmOwed, OwesConfirm
  <2>13. InvoiceOwed(frame[w])'
    BY <2>1, <2>5, Alone DEF InvoiceOwed, OwesInvoice
  <2>14. FinalStays
    BY <2>1, <2>7 DEF FinalStays
  <2> QED
    BY <2>6, <2>9, <2>10, <2>11, <2>12, <2>13, <2>14, Together
<1> QED
  BY <1>1, <1>2, <1>3, <1>4, <1>5, <1>6 DEF Outcome

LEMMA CancelAlone ==
    ASSUME OneAtATime, SInv, HInv', NEW w \in Workers, Cancel(w)
    PROVE  SInv' /\ FinalStays
<1> DEFINE f == frame[w]
           h == frame'[w]
           toSeats == [f EXCEPT !.pc = "freeSeats"]
<1>0. /\ f \in Frame /\ FrameGood(f, events)
      /\ Knows(f, payment, confirmedBy, events) /\ CopyCurrent(f)
  BY Alone
<1>s. toSeats.pc = "freeSeats" /\ toSeats.b = f.b /\ toSeats.p = f.p
  BY <1>0 DEF Frame
<1>l. ASSUME h.pc \in Light
      PROVE  /\ ~OwesSeats(h) /\ ~OwesConfirm(h) /\ ~OwesInvoice(h)
             /\ h.pc \notin {"activate", "createEscrow"} /\ CopyCurrent(frame[w])'
  BY <1>l, LightIsPlain DEF Plain, OwesInvoice
<1> HIDE DEF toSeats
<1>1. CASE CancelRead(w) \/ RefundThenCancel(w)
  <2> DEFINE g1 == [f EXCEPT !.op = "cancel", !.pc = "cancelSave",
                             !.bk = [booking[f.b] EXCEPT !.status = "cancelled"]]
             g2 == [f EXCEPT !.pc = "cancelRead"]
  <2>1. /\ f.pc \in {"cancelRead", "afterRefund"} /\ UNCHANGED seqrows
        /\ \/ booking[f.b].status \in Cancellable /\ Go(w, g1)
           \/ Go(w, g2)
           \/ Finish(w)
    BY <1>1 DEF CancelRead, RefundThenCancel, HoldCancelled, At, seqrows, history
  <2>2. g1.pc = "cancelSave" /\ g1.op = "cancel" /\ g1.b = f.b /\ g2.pc \in Light
    BY <1>0 DEF Frame, Light
  <2>3. Plain(f)
    BY <2>1 DEF Plain, OwesSeats, OwesConfirm
  <2> HIDE DEF g1, g2
  <2>4. CASE booking[f.b].status \in Cancellable /\ Go(w, g1)
    <3>1. h = g1
      BY <2>4, MovesTo
    <3> QED
      BY <2>1, <2>2, <2>3, <2>4, <3>1, CopyStep
  <2>5. CASE Go(w, g2) \/ Finish(w)
    <3>1. h.pc \in Light
      BY <2>2, <2>5, MovesTo, FinishIsLight
    <3> QED
      BY <2>1, <2>3, <3>1, LightStep
  <2> QED
    BY <2>1, <2>4, <2>5
<1>2. CASE CancelSave(w) \/ CompleteSave(w)
  <2> DEFINE g == [f EXCEPT !.pc = "findPaid"]
  <2>1. /\ \/ f.pc = "cancelSave" /\ Go(w, g)
           \/ f.pc = "completeSave" /\ Go(w, toSeats)
        /\ booking' = [booking EXCEPT ![f.b] = f.bk]
        /\ UNCHANGED <<payment, freed, onChain, refund, confirmedBy, invoiceAsked, crashes>>
    BY <1>2 DEF CancelSave, CompleteSave, At, history, toSeats
  <2>2. g.pc = "findPaid" /\ g.b = f.b /\ g.op = f.op
    BY <1>0 DEF Frame
  <2> HIDE DEF g
  <2>3. /\ h.pc \in {"findPaid", "freeSeats"} /\ h.b = f.b
        /\ h.pc = "findPaid" => h.op = "cancel"
    BY <1>0, <1>s, <2>1, <2>2, MovesTo DEF CopyCurrent
  <2>4. /\ f.b \in Bookings /\ f.bk.status \in {"cancelled", "completed"}
        /\ booking[f.b].status \in {"pending", "confirmed"}
    BY <1>0, <2>1 DEF FrameGood, Knows, CopyCurrent, Cancellable
  <2>5. /\ booking'[f.b] = f.bk
        /\ \A b \in Bookings \ {f.b} : booking'[b] = booking[b]
    BY <2>1, <2>4, Alone
  <2>6. SeatsOwed(frame[w])'
    BY <2>1, <2>3, <2>4, <2>5, Alone DEF SeatsOwed, Ended, OwesSeats
  <2>7. EscrowOwed(frame[w])'
    BY <2>1, <2>3, <2>4, <2>5, Alone DEF EscrowOwed
  <2>8. RefundOwed(frame[w])' /\ InvoiceOwed(frame[w])'
    BY <2>1, Alone DEF RefundOwed, InvoiceOwed, OwesInvoice
  <2>9. ConfirmOwed(frame[w])'
    <3> SUFFICES ASSUME NEW p \in Payments, crashes' = 0, payment'[p].status = "success",
                        booking'[payment'[p].booking].status = "pending"
                 PROVE  FALSE
      BY DEF ConfirmOwed
    <3>1. payment[p].booking \in Bookings
      BY <2>1, RowHeld DEF RowGood, SInv, HInv
    <3> QED
      BY <2>1, <2>4, <2>5, <3>1, Alone DEF ConfirmOwed, OwesConfirm
  <2>10. CopyCurrent(frame[w])' /\ FinalStays
    BY <2>1, <2>3, <2>4, <2>5 DEF CopyCurrent, FinalStays
  <2> QED
    BY <2>6, <2>7, <2>8, <2>9, <2>10, Together
<1>3. CASE CancelFindPaid(w)
  <2>1. /\ f.pc = "findPaid" /\ f.b \in Bookings
        /\ UNCHANGED <<booking, payment, freed, onChain, refund, confirmedBy, invoiceAsked, crashes>>
    BY <1>0, <1>3 DEF CancelFindPaid, At, FrameGood, history
  <2>o. f.op = "cancel"
    BY <1>0, <2>1 DEF CopyCurrent
  <2>2. \/ h.pc = "freeSeats" /\ h.b = f.b
        \/ /\ h.pc = "callRefund" /\ h.op = "cancel" /\ h.b = f.b
           /\ payment[h.p].status = "success"
    <3>1. ASSUME NEW p \in PaidFor(f.b),
                 Go(w, [f EXCEPT !.pc = "callRefund", !.p = p, !.pay = payment[p]])
          PROVE  /\ h.pc = "callRefund" /\ h.op = "cancel" /\ h.b = f.b
                 /\ payment[h.p].status = "success"
      <4> DEFINE g == [f EXCEPT !.pc = "callRefund", !.p = p, !.pay = payment[p]]
      <4>1. g.pc = "callRefund" /\ g.p = p /\ g.b = f.b /\ g.op = f.op
        BY <1>0 DEF Frame
      <4>2. h = g
        BY <3>1, MovesTo
      <4> HIDE DEF g
      <4> QED
        BY <2>o, <4>1, <4>2 DEF PaidFor
    <3>2. CASE Go(w, toSeats)
      BY <1>s, <3>2, MovesTo
    <3> QED
      BY <1>3, <3>1, <3>2 DEF CancelFindPaid, toSeats
  <2>3. SeatsOwed(frame[w])'
    BY <2>1, <2>2, Alone DEF SeatsOwed, Ended, OwesSeats
  <2>4. EscrowOwed(frame[w])'
    BY <2>1, <2>2, Alone DEF EscrowOwed
  <2>5. RefundOwed(frame[w])' /\ InvoiceOwed(frame[w])' /\ ConfirmOwed(frame[w])'
    BY <2>1, Alone DEF RefundOwed, InvoiceOwed, OwesInvoice, ConfirmOwed, OwesConfirm
  <2>6. CopyCurrent(frame[w])' /\ FinalStays
    BY <2>1, <2>2 DEF CopyCurrent, FinalStays
  <2> QED
    BY <2>3, <2>4, <2>5, <2>6, Together
<1>4. CASE FreeSeats(w)
  <2>1. /\ f.pc = "freeSeats" /\ f.b \in Bookings
        /\ freed' = [freed EXCEPT ![f.b] = Bump(freed[f.b])]
        /\ UNCHANGED <<booking, payment, onChain, refund, confirmedBy, invoiceAsked, crashes>>
    BY <1>0, <1>4 DEF FreeSeats, At, FrameGood
  <2>2. h.pc \in Light
    BY <1>4, FinishIsLight DEF FreeSeats
  <2>3. /\ freed'[f.b] = Bump(freed[f.b])
        /\ \A b \in Bookings \ {f.b} : freed'[b] = freed[b]
    BY <2>1, Alone
  <2>4. Ended(f.b) /\ freed'[f.b] = 1
    BY <2>1, <2>3, Alone DEF SeatsOwed, OwesSeats, Bump, CountCap
  <2>5. SeatsOwed(frame[w])'
    BY <2>1, <2>2, <2>3, <2>4, <1>l, Alone DEF SeatsOwed, Ended, OwesSeats
  <2>6. EscrowOwed(frame[w])'
    BY <2>1, <2>2, <1>l, Alone DEF EscrowOwed
  <2>7. RefundOwed(frame[w])' /\ InvoiceOwed(frame[w])' /\ ConfirmOwed(frame[w])'
    BY <2>1, Alone DEF RefundOwed, InvoiceOwed, OwesInvoice, ConfirmOwed, OwesConfirm
  <2>8. CopyCurrent(frame[w])' /\ FinalStays
    BY <2>1, <2>2, <1>l DEF FinalStays
  <2> QED
    BY <2>5, <2>6, <2>7, <2>8, Together
<1>5. CASE CallRefund(w)
  <2> DEFINE g == [f EXCEPT !.pc = "saveRefunded",
                            !.pay = [f.pay EXCEPT !.status = "refunded"]]
  <2>1. /\ f.pc = "callRefund" /\ f.p \in Payments /\ f.b \in Bookings
        /\ UNCHANGED <<booking, payment, freed, onChain, confirmedBy, invoiceAsked, crashes>>
        /\ payment[f.p].status = "success" /\ f.op \in {"cancel", "refund"}
    BY <1>0, <1>5 DEF CallRefund, At, FrameGood, history, CopyCurrent
  <2>2. g.pc = "saveRefunded" /\ g.p = f.p /\ g.b = f.b /\ g.op = f.op
        /\ [f EXCEPT !.pc = "saveRefunded", !.pay.status = "refunded"] = g
    BY <1>0 DEF Frame
  <2>3. /\ \/ Go(w, g) /\ refund' = [refund EXCEPT ![f.p] = Acked(@)]
           \/ /\ f.op = "cancel" /\ Go(w, toSeats)
              /\ refund' = [refund EXCEPT ![f.p] = Unacked(@)]
           \/ /\ f.op = "refund" /\ Finish(w)
              /\ refund' = [refund EXCEPT ![f.p] = Unacked(@)]
    BY <1>5, <2>2 DEF CallRefund, toSeats
  <2> HIDE DEF g
  <2>4. /\ \/ /\ h.pc = "saveRefunded" /\ h.p = f.p /\ h.b = f.b /\ h.op = f.op
              /\ refund'[f.p] = Acked(refund[f.p])
           \/ /\ f.op = "cancel" /\ h.pc = "freeSeats" /\ h.b = f.b
              /\ refund'[f.p] = Unacked(refund[f.p])
           \/ /\ f.op = "refund" /\ h.pc \in Light
              /\ refund'[f.p] = Unacked(refund[f.p])
        /\ \A p \in Payments \ {f.p} : refund'[p] = refund[p]
    <3>1. refund \in [Payments -> RefundLog]
      BY Alone
    <3> QED
      BY <1>s, <2>1, <2>2, <2>3, <3>1, MovesTo, FinishIsLight
  <2>5. crashes = 0 => refund[f.p] \in {"none", "asked"}
    BY <2>1, Alone DEF RefundOwed, RefundLog
  <2>6. /\ f.op = "cancel" <=> OwesSeats(h)
        /\ OwesSeats(h) => h.b = f.b
        /\ h.pc \notin {"activate", "createEscrow"}
    BY <2>1, <2>4, <1>l DEF OwesSeats
  <2>7. SeatsOwed(frame[w])'
    BY <2>1, <2>6, Alone DEF SeatsOwed, Ended, OwesSeats
  <2>8. EscrowOwed(frame[w])'
    BY <2>1, <2>6, Alone DEF EscrowOwed
  <2>9. RefundOwed(frame[w])'
    BY <2>1, <2>4, <2>5, Alone DEF RefundOwed, Acked, Unacked
  <2>10. InvoiceOwed(frame[w])' /\ ConfirmOwed(frame[w])'
    BY <2>1, Alone DEF InvoiceOwed, OwesInvoice, ConfirmOwed, OwesConfirm
  <2>11. CopyCurrent(frame[w])'
    BY <2>1, <2>4, <1>l DEF CopyCurrent
  <2>12. FinalStays
    BY <2>1 DEF FinalStays
  <2> QED
    BY <2>7, <2>8, <2>9, <2>10, <2>11, <2>12, Together
<1>6. CASE SaveRefunded(w)
  <2> DEFINE g == [f EXCEPT !.pc = "afterRefund"]
  <2>1. /\ f.pc = "saveRefunded" /\ f.p \in Payments /\ f.b \in Bookings
        /\ payment' = [payment EXCEPT ![f.p] = f.pay]
        /\ UNCHANGED <<booking, freed, onChain, refund, confirmedBy, invoiceAsked, crashes>>
        /\ \/ f.op = "cancel" /\ Go(w, toSeats)
           \/ f.op = "refund" /\ Go(w, g)
    BY <1>0, <1>6 DEF SaveRefunded, At, FrameGood, history, toSeats
  <2>2. g.pc \in Light
    BY <1>0 DEF Frame, Light
  <2> HIDE DEF g
  <2>3. \/ f.op = "cancel" /\ h.pc = "freeSeats" /\ h.b = f.b
        \/ f.op = "refund" /\ h.pc \in Light
    BY <1>s, <2>1, <2>2, MovesTo
  <2>4. f.pay.status = "refunded"
    BY <1>0, <2>1 DEF Knows
  <2>5. payment'[f.p] = f.pay /\ \A q \in Payments \ {f.p} : payment'[q] = payment[q]
    BY <2>1, Alone
  <2>6. /\ f.op = "cancel" <=> OwesSeats(h)
        /\ OwesSeats(h) => h.b = f.b
        /\ h.pc \notin {"activate", "createEscrow"} /\ CopyCurrent(frame[w])'
    BY <2>1, <2>3, <1>l DEF OwesSeats, CopyCurrent
  <2>7. SeatsOwed(frame[w])'
    BY <2>1, <2>6, Alone DEF SeatsOwed, Ended, OwesSeats
  <2>8. EscrowOwed(frame[w])'
    BY <2>1, <2>6, Alone DEF EscrowOwed
  <2>9. RefundOwed(frame[w])'
    BY <2>1, <2>4, <2>5, Alone DEF RefundOwed
  <2>10. InvoiceOwed(frame[w])'
    BY <2>1, Alone DEF InvoiceOwed, OwesInvoice
  <2>11. ConfirmOwed(frame[w])'
    BY <2>1, <2>4, <2>5, Alone DEF ConfirmOwed, OwesConfirm
  <2>12. FinalStays
    BY <2>1, <2>4, <2>5 DEF FinalStays
  <2> QED
    BY <2>6, <2>7, <2>8, <2>9, <2>10, <2>11, <2>12, Together
<1> QED
  BY <1>1, <1>2, <1>3, <1>4, <1>5, <1>6 DEF Cancel

\* A restart ends the handler: what it owed is lost, which is what the
\* properties that say crashes = 0 leave open.
LEMMA EnvironmentAlone ==
    ASSUME OneAtATime, SInv, HInv', Environment
    PROVE  SInv' /\ FinalStays
<1> PICK w : Workers = {w}
  BY DEF OneAtATime
<1>1. UNCHANGED <<booking, payment, freed, onChain, refund, confirmedBy, invoiceAsked>>
  BY DEF Environment, CustomerPays, CardDeclined, PaymentAges, RefundWindowCloses,
         Crash, history
<1>2. FinalStays
  BY <1>1 DEF FinalStays
<1>3. CASE Crash
  <2>1. crashes' # 0
    BY <1>3 DEF Crash, SInv, HInv, IInv, TypeOK
  <2>2. frame'[w].pc \in Light
    BY <1>3 DEF Crash, Idle, Light
  <2>3. /\ ~OwesSeats(frame'[w]) /\ CopyCurrent(frame[w])'
        /\ frame'[w].pc \notin {"activate", "createEscrow"}
    BY <2>2, LightIsPlain DEF Plain
  <2>4. SeatsOwed(frame[w])' /\ EscrowOwed(frame[w])'
    BY <1>1, <2>1, <2>3, Alone DEF SeatsOwed, EscrowOwed, Ended
  <2>5. RefundOwed(frame[w])' /\ ConfirmOwed(frame[w])' /\ InvoiceOwed(frame[w])'
    BY <2>1 DEF RefundOwed, ConfirmOwed, InvoiceOwed
  <2> QED
    BY <1>2, <2>3, <2>4, <2>5, Together
<1>4. CASE ~Crash
  <2>1. UNCHANGED <<frame, crashes>>
    BY <1>4 DEF Environment, CustomerPays, CardDeclined, PaymentAges, RefundWindowCloses
  <2>2. CopyCurrent(frame[w])' /\ SeatsOwed(frame[w])' /\ EscrowOwed(frame[w])'
    BY <1>1, <2>1, Alone DEF CopyCurrent, SeatsOwed, EscrowOwed, Ended
  <2>3. RefundOwed(frame[w])' /\ ConfirmOwed(frame[w])' /\ InvoiceOwed(frame[w])'
    BY <1>1, <2>1, Alone DEF RefundOwed, ConfirmOwed, InvoiceOwed
  <2> QED
    BY <1>2, <2>2, <2>3, Together
<1> QED
  BY <1>3, <1>4

LEMMA SInvInit == Init => SInv
<1> SUFFICES ASSUME Init PROVE SInv
  OBVIOUS
<1>1. ASSUME NEW w \in Workers
      PROVE  /\ CopyCurrent(frame[w]) /\ SeatsOwed(frame[w]) /\ EscrowOwed(frame[w])
             /\ RefundOwed(frame[w]) /\ ConfirmOwed(frame[w]) /\ InvoiceOwed(frame[w])
  <2>1. /\ frame[w].pc = "idle"
        /\ \A b \in Bookings : /\ booking[b].status = "pending" /\ freed[b] = 0
                               /\ onChain[b] = 0 /\ confirmedBy[b] = NoPayment
        /\ \A p \in Payments : payment[p].status = "absent" /\ refund[p] = "none"
    BY DEF Init, Idle, NewBooking, AbsentPayment
  <2> QED
    BY <2>1, ParamsAssumption
       DEF CopyCurrent, SeatsOwed, EscrowOwed, RefundOwed, ConfirmOwed, InvoiceOwed,
           OwesSeats, Ended
<1> QED
  BY <1>1, HInvInit DEF SInv

LEMMA SInvNext ==
    ASSUME OneAtATime
    PROVE  SInv /\ [Next]_vars => SInv' /\ [FinalStays]_vars
<1> SUFFICES ASSUME SInv, [Next]_vars PROVE SInv' /\ [FinalStays]_vars
  OBVIOUS
<1>1. HInv'
  BY HInvNext DEF SInv
<1>2. CASE UNCHANGED vars
  <2>1. UNCHANGED <<frame, booking, payment, freed, onChain, refund, confirmedBy, invoiceAsked,
                    crashes>>
    BY <1>2 DEF vars, history
  <2> QED
    BY <1>1, <1>2, <2>1
       DEF SInv, CopyCurrent, SeatsOwed, EscrowOwed, RefundOwed, ConfirmOwed, InvoiceOwed, Ended
<1>3. CASE Next
  BY <1>1, <1>3, InitializeAlone, RequestAlone, OutcomeAlone, CancelAlone, EnvironmentAlone
     DEF Next
<1> QED
  BY <1>2, <1>3

\* One handler at a time: a refund Paystack acknowledged is not asked for again
\* unless the process restarted before saving it.
THEOREM NeverRefundedTwice ==
    ASSUME OneAtATime
    PROVE  Spec => []RefundedOnce
<1>1. SInv => RefundedOnce
  BY DEF SInv, RefundOwed, RefundedOnce, OneAtATime
<1> QED
  BY <1>1, SInvInit, SInvNext, PTL DEF Spec

\* One handler at a time: the seats of a booking are given back once, when it
\* ends, restarts or not, and without one they are.
THEOREM SeatsAreFreedOnce ==
    ASSUME OneAtATime
    PROVE  Spec => []SeatsFreedOnce
<1>1. SInv => SeatsFreedOnce
  <2> SUFFICES ASSUME SInv PROVE SeatsFreedOnce
    OBVIOUS
  <2>1. PICK w \in Workers : \A v \in Workers : v = w
    BY DEF OneAtATime
  <2>2. SeatsOwed(frame[w])
    BY DEF SInv
  <2>3. Free(w) => ~OwesSeats(frame[w])
    BY DEF Free, Idle, OwesSeats
  <2> QED
    BY <2>2, <2>3 DEF SeatsOwed, SeatsFreedOnce, AtRest, Ended
<1> QED
  BY <1>1, SInvInit, SInvNext, PTL DEF Spec

\* One handler at a time: once it is done, and without a restart, every booking
\* with a recorded charge is settled and its confirming charge has its invoice.
THEOREM ChargesSettle ==
    ASSUME OneAtATime
    PROVE  Spec => []ChargeSettlesBooking
<1>1. SInv => ChargeSettlesBooking
  <2> SUFFICES ASSUME SInv, AtRest, crashes = 0, NEW p \in Payments,
                      payment[p].status = "success"
               PROVE  LET b == payment[p].booking
                      IN  /\ booking[b].status # "pending"
                          /\ confirmedBy[b] = p => p \in invoiceAsked
    BY DEF ChargeSettlesBooking
  <2>1. PICK w \in Workers : Free(w)
    BY DEF AtRest, OneAtATime
  <2>2. ~OwesConfirm(frame[w]) /\ ~OwesInvoice(frame[w])
    BY <2>1 DEF Free, Idle, OwesConfirm, OwesInvoice
  <2>3. payment[p].booking \in Bookings
    BY RowHeld DEF RowGood, SInv, HInv
  <2> QED
    BY <2>2, <2>3 DEF SInv, ConfirmOwed, InvoiceOwed
<1> QED
  BY <1>1, SInvInit, SInvNext, PTL DEF Spec

\* One handler at a time: a booking gets one escrow transaction at most, even
\* over restarts, because only its confirmation leads to one.
THEOREM OneEscrowEach ==
    ASSUME OneAtATime
    PROVE  Spec => []EscrowedOnce
<1>1. SInv => EscrowedOnce
  BY DEF SInv, EscrowOwed, EscrowedOnce, OneAtATime
<1> QED
  BY <1>1, SInvInit, SInvNext, PTL DEF Spec

\* One handler at a time: CANCELLED, COMPLETED and REFUNDED are final.
THEOREM FinalIsFinal ==
    ASSUME OneAtATime
    PROVE  Spec => FinalStatusStays
<1>1. [FinalStays]_vars =>
        [/\ \A b \in Bookings : booking[b].status \in {"cancelled", "completed"}
                                  => booking'[b].status = booking[b].status
         /\ \A p \in Payments : payment[p].status = "refunded"
                                  => payment'[p].status = "refunded"]_vars
  BY DEF FinalStays
<1> QED
  BY <1>1, SInvInit, SInvNext, PTL DEF Spec, FinalStatusStays
=============================================================================

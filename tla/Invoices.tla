------------------------------- MODULE Invoices -------------------------------
(***************************************************************************)
(* Invoices for payments (invoices/providers/generate-invoice.provider.ts, *)
(* called without being awaited when a payment succeeds, and again when    *)
(* its success is reported again).  The e-mail with the invoice is a row's *)
(* sent flag here: the code means to record it in a column the entity does *)
(* not have, so it never learns of it, and retryFailedInvoiceEmails has no *)
(* caller.                                                                 *)
(***************************************************************************)
EXTENDS Requests

CONSTANTS
    Payments,
    Guests,        \* payments of guests: they have no user
    MaxNumber      \* bound: numbers drawn from the sequence

ASSUME InvoicesAssumption == Guests \subseteq Payments /\ MaxNumber \in Nat

VARIABLES
    invoice,     \* the rows of invoices, by the order of their inserts
    sequence,    \* invoice_number_seq
    mailed       \* numbers of the invoices an e-mail went out for

IV_rows == <<invoice, sequence, mailed>>
invoiceVars == <<requests, IV_rows>>

Numbers == 1..MaxNumber

InvoicesInit ==
    /\ invoice = << >>
    /\ sequence = 0
    /\ mailed = {}

InvoicesType ==
    /\ \A i \in DOMAIN invoice : invoice[i] \in [number : Numbers, payment : Payments]
    /\ Len(invoice) <= MaxNumber
    /\ sequence \in 0..MaxNumber
    /\ mailed \subseteq Numbers

HasInvoice(p) == \E i \in DOMAIN invoice : invoice[i].payment = p

\* Mutant: the payment's invoice is not looked for.
Mut_GenerateForPayment(w, p) ==
    /\ Start(w, [op |-> "number", payment |-> p])
    /\ UNCHANGED IV_rows

\* generateForPayment: with no invoice for the payment, it goes on.
GenerateForPayment(w, p) ==
    /\ ~HasInvoice(p)
    /\ Start(w, [op |-> "number", payment |-> p])
    /\ UNCHANGED IV_rows

\* nextInvoiceNumber: a number drawn is not given back.
NextInvoiceNumber(w) ==
    /\ Doing(w, "number") /\ sequence < MaxNumber
    /\ sequence' = sequence + 1
    /\ Goes(w, [op |-> "insert", payment |-> frame[w].payment, number |-> sequence'])
    /\ UNCHANGED <<invoice, mailed>>

\* The insert: userId may not be null, and only invoiceNumber is unique.
InvoiceInserted(w) ==
    /\ Doing(w, "insert") /\ frame[w].payment \notin Guests
    /\ \A i \in DOMAIN invoice : invoice[i].number # frame[w].number
    /\ invoice' = Append(invoice, [number |-> frame[w].number,
                                   payment |-> frame[w].payment])
    /\ Goes(w, [frame[w] EXCEPT !.op = "mail"])
    /\ UNCHANGED <<sequence, mailed>>

\* sendInvoiceEmailAndRecordOutcome: the e-mail goes out, then recording it fails.
InvoiceMailed(w) ==
    /\ Doing(w, "mail")
    /\ mailed' = mailed \cup {frame[w].number}
    /\ Ends(w)
    /\ UNCHANGED <<invoice, sequence>>

InvoicesNext ==
    \E w \in Workers \ {Cron} :
       \/ \E p \in Payments : GenerateForPayment(w, p)
       \/ NextInvoiceNumber(w) \/ InvoiceInserted(w) \/ InvoiceMailed(w)
       \/ Fails(w) /\ UNCHANGED IV_rows

InvoicesSpec == RequestsInit /\ InvoicesInit /\ [][InvoicesNext]_invoiceVars

-----------------------------------------------------------------------------

\* A payment has one invoice, however often its success is reported, as the comments
\* of generateForPayment have it (generate-invoice.provider.ts:46, :114).
InvoicedOnce ==
    \A i, j \in DOMAIN invoice : invoice[i].payment = invoice[j].payment => i = j

\* No two invoices have one number, also when drawing it and the insert are not one
\* step; an invoice mailed is on record; a guest's payment never gets one.
NumbersDistinct ==
    /\ \A i, j \in DOMAIN invoice : invoice[i].number = invoice[j].number => i = j
    /\ mailed \subseteq {invoice[i].number : i \in DOMAIN invoice}
    /\ \A i \in DOMAIN invoice : invoice[i].number <= sequence

\* Numbers are given in the order of the rows.
NumbersInOrder ==
    \A i, j \in DOMAIN invoice : i < j => invoice[i].number < invoice[j].number

\* What invoices promise: one for a payment and in order when requests do not overlap,
\* numbers of their own always.
InvoicesKept == NumbersDistinct /\ (~overlap => InvoicedOnce /\ NumbersInOrder)
=============================================================================

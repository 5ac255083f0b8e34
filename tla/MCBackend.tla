------------------------------ MODULE MCBackend ------------------------------
(***************************************************************************)
(* The backend's smaller services on small instances.  Each has tables of  *)
(* its own and none calls another, so one behaviour serves one of them     *)
(* ("serving"), chosen at the start, and the others' tables stay empty.    *)
(***************************************************************************)
EXTENDS Accounts, CheckIns, Invoices, Parking, MembershipPlans, Visitors, Newsletter,
        Leads

VARIABLE serving

all == <<requests, serving, AC_rows, CI_rows, IV_rows, PK_rows, MP_rows, VS_rows,
         NL_rows, LD_rows>>

Services == {"accounts", "checkIns", "invoices", "parking", "plans", "visitors",
             "newsletter", "leads"}

\* Services that promise nothing of requests that overlap, and are the largest.
PromiseNothing == {"accounts", "plans"}

PlanRows == [active : {TRUE}, price : Prices]
First == CHOOSE w \in Workers : w # Cron

MCInit ==
    /\ serving \in Services
    /\ RequestsInit
    /\ AccountsInit /\ CheckInsInit /\ InvoicesInit /\ ParkingInit
    /\ MembershipPlansInit /\ VisitorsInit /\ NewsletterInit /\ LeadsInit
    /\ overlap => serving \notin PromiseNothing
    /\ serving # "plans" => plan = [p \in Plans |-> CHOOSE row \in PlanRows : TRUE]

\* One request at a time needs one worker.
Serves == ~overlap => \A w \in Workers \ {First, Cron} : frame'[w] = Idle

\* One code of an account lapses at most.
AccountsCalls == AccountsNext /\ Cardinality(lapsed') <= 1

Rest(service) ==
    /\ UNCHANGED serving /\ Serves
    /\ IF service = "accounts" THEN TRUE ELSE UNCHANGED AC_rows
    /\ IF service = "checkIns" THEN TRUE ELSE UNCHANGED CI_rows
    /\ IF service = "invoices" THEN TRUE ELSE UNCHANGED IV_rows
    /\ IF service = "parking" THEN TRUE ELSE UNCHANGED PK_rows
    /\ IF service = "plans" THEN TRUE ELSE UNCHANGED MP_rows
    /\ IF service = "visitors" THEN TRUE ELSE UNCHANGED VS_rows
    /\ IF service = "newsletter" THEN TRUE ELSE UNCHANGED NL_rows
    /\ IF service = "leads" THEN TRUE ELSE UNCHANGED LD_rows

MCNext ==
    \/ serving = "accounts" /\ AccountsCalls /\ Rest("accounts")
    \/ serving = "checkIns" /\ CheckInsNext /\ Rest("checkIns")
    \/ serving = "invoices" /\ InvoicesNext /\ Rest("invoices")
    \/ serving = "parking" /\ ParkingNext /\ Rest("parking")
    \/ serving = "plans" /\ MembershipPlansNext /\ Rest("plans")
    \/ serving = "visitors" /\ VisitorsNext /\ Rest("visitors")
    \/ serving = "newsletter" /\ NewsletterNext /\ Rest("newsletter")
    \/ serving = "leads" /\ LeadsNext /\ Rest("leads")

BackendSpec == MCInit /\ [][MCNext]_all /\ CheckInsFairness

\* Every table holds rows of its entity.
BackendTypeOK ==
    /\ AccountsType /\ CheckInsType /\ InvoicesType /\ ParkingType
    /\ MembershipPlansType /\ VisitorsType /\ NewsletterType /\ LeadsType

\* The records of what was used and what was paid are right.
RecordsKept == CheckInsKept /\ InvoicesKept

\* What members, hosts and readers are told and sent agrees with the tables.
DeskKept == ParkingKept /\ MembershipPlansKept /\ VisitorsKept /\ NewsletterKept /\ LeadsKept
=============================================================================

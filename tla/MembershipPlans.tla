---------------------------- MODULE MembershipPlans ----------------------------
(***************************************************************************)
(* Plans and their subscribers                                             *)
(* (membership-plans/membership-plans.service.ts).                         *)
(***************************************************************************)
EXTENDS Requests

CONSTANTS
    Plans, Prices, Customers,
    MaxRecords       \* bound: subscriptions on record

ASSUME MembershipPlansAssumption == MaxRecords \in Nat

VARIABLES
    plan,        \* a plan's row
    membership,  \* the rows of user_memberships, in the order of their inserts
    agreed       \* history: the plan's price when the customer subscribed

MP_rows == <<plan, membership, agreed>>
planVars == <<requests, MP_rows>>

MembershipPlansInit ==
    /\ plan \in [Plans -> [active : {TRUE}, price : Prices]]
    /\ membership = << >>
    /\ agreed = << >>

MembershipPlansType ==
    /\ plan \in [Plans -> [active : BOOLEAN, price : Prices]]
    /\ \A i \in DOMAIN membership :
          membership[i] \in [user : Customers, plan : Plans,
                             status : {"ACTIVE", "CANCELLED"}]
    /\ DOMAIN agreed = DOMAIN membership

ActiveRecords == {i \in DOMAIN membership : membership[i].status = "ACTIVE"}
ActiveOf(c) == {i \in ActiveRecords : membership[i].user = c}
SubscribersOf(p) == {i \in ActiveRecords : membership[i].plan = p}

\* Mutant: the price may change under active subscribers.
Mut_updatePlan(w, p, active, price) ==
    /\ Start(w, [op |-> "plan", plan |-> p, row |-> [active |-> active, price |-> price]])
    /\ UNCHANGED MP_rows

updatePlan(w, p, active, price) ==
    /\ price # plan[p].price => SubscribersOf(p) = {}
    /\ Start(w, [op |-> "plan", plan |-> p, row |-> [active |-> active, price |-> price]])
    /\ UNCHANGED MP_rows

PlanSaved(w) ==
    /\ Doing(w, "plan")
    /\ plan' = [plan EXCEPT ![frame[w].plan] = frame[w].row]
    /\ Ends(w)
    /\ UNCHANGED <<membership, agreed>>

\* subscribe: an active subscription is cancelled first, whatever plan it is for.
subscribe(w, c, p) ==
    /\ plan[p].active
    /\ \/ /\ ActiveOf(c) = {}
          /\ Start(w, [op |-> "join", user |-> c, plan |-> p, price |-> plan[p].price])
       \/ \E i \in ActiveOf(c) :
            Start(w, [op |-> "leave", record |-> i, user |-> c, plan |-> p,
                      price |-> plan[p].price, joins |-> TRUE])
    /\ UNCHANGED MP_rows

cancelMySubscription(w, c) ==
    /\ \E i \in ActiveOf(c) :
          Start(w, [op |-> "leave", record |-> i, user |-> c,
                    plan |-> membership[i].plan, price |-> agreed[i], joins |-> FALSE])
    /\ UNCHANGED MP_rows

RecordCancelled(w) ==
    LET f == frame[w] IN
    /\ Doing(w, "leave")
    /\ membership' = [membership EXCEPT ![f.record].status = "CANCELLED"]
    /\ IF f.joins
       THEN Goes(w, [op |-> "join", user |-> f.user, plan |-> f.plan, price |-> f.price])
       ELSE Ends(w)
    /\ UNCHANGED <<plan, agreed>>

RecordInserted(w) ==
    LET f == frame[w] IN
    /\ Doing(w, "join") /\ Len(membership) < MaxRecords
    /\ membership' = Append(membership,
          [user |-> f.user, plan |-> f.plan, status |-> "ACTIVE"])
    /\ agreed' = Append(agreed, f.price)
    /\ Ends(w)
    /\ UNCHANGED plan

MembershipPlansNext ==
    \E w \in Workers \ {Cron} :
       \/ \E p \in Plans, active \in BOOLEAN, price \in Prices :
             updatePlan(w, p, active, price)
       \/ \E c \in Customers : \/ \E p \in Plans : subscribe(w, c, p)
                               \/ cancelMySubscription(w, c)
       \/ PlanSaved(w) \/ RecordCancelled(w) \/ RecordInserted(w)
       \/ Fails(w) /\ UNCHANGED MP_rows

MembershipPlansSpec == RequestsInit /\ MembershipPlansInit /\ [][MembershipPlansNext]_planVars

-----------------------------------------------------------------------------

\* A customer has one active subscription, also after one that failed half-way.
OneMembership == \A c \in Customers : Cardinality(ActiveOf(c)) <= 1

\* The plan of an active subscription has the price it had when the customer chose it.
AgreedPrices == \A i \in ActiveRecords : plan[membership[i].plan].price = agreed[i]

\* What plans promise when requests do not overlap (membership-plans.service.ts:78,
\* :54).
MembershipPlansKept == ~overlap => OneMembership /\ AgreedPrices
=============================================================================

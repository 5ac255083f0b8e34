------------------------------ MODULE HubTiers ------------------------------
(***************************************************************************)
(* Subscription tiers of the hub: tiers and their subscriber counts,       *)
(* promotions, and requests to change tier (subscription.rs).  Prices and  *)
(* features are left out: a price that is refused only disables a call.    *)
(***************************************************************************)
EXTENDS HubSubscriptions, Sequences

CONSTANTS
    Tiers, NoTier,
    Rank,        \* level of a tier
    Promos,      \* promotion ids
    PromoTerms,  \* [tier, from, until, max] of a promotion (all of one code)
    Cycle        \* seconds a billing cycle lasts

NoPromo == "no promotion"

ASSUME TierAssumption ==
    /\ NoTier \notin Tiers
    /\ NoPromo \notin Promos
    /\ Rank \in [Tiers -> Nat]
    /\ PromoTerms \subseteq [tier : Tiers, from : Nat, until : Nat, max : Nat]
    /\ Cycle \in Nat

VARIABLES
    tiers,      \* Tier(id) and the active_subscribers of TierAnalytics(id)
    tierOf,     \* tier_id of a subscription; NoTier of one created without
    promo,      \* TierPromotion(id): its terms and redemptions
    promoList,  \* TierPromotionList
    redeemed,   \* history: the promotion a subscription was created with
    request     \* TierChangeRequest(id); the id is the second it was made

HR_state == <<tiers, tierOf, promo, promoList, redeemed, request>>
HR_vars == <<HS_vars, HR_state>>

Unset == [tier |-> NoTier, from |-> 0, until |-> 0, max |-> 0, used |-> 0]
NoRequest == [user |-> NoAccount, from |-> NoTier, to |-> NoTier,
              kind |-> "lateral", status |-> "none"]

HR_Init ==
    /\ tiers = [i \in Tiers |-> [known |-> FALSE, active |-> FALSE, subscribers |-> 0]]
    /\ tierOf = [s \in Subs |-> NoTier]
    /\ promo = [p \in Promos |-> Unset]
    /\ promoList = << >>
    /\ redeemed = [s \in Subs |-> NoPromo]
    /\ request = [i \in Times |-> NoRequest]

HR_Type ==
    /\ tiers \in [Tiers -> [known : BOOLEAN, active : BOOLEAN, subscribers : Nat]]
    /\ tierOf \in [Subs -> Tiers \cup {NoTier}]
    /\ promo \in [Promos -> [tier : Tiers \cup {NoTier}, from : Nat, until : Nat,
                             max : Nat, used : Nat]]
    /\ promoList \in Seq(Promos)
    /\ redeemed \in [Subs -> Promos \cup {NoPromo}]
    /\ request \in [Times -> [user : Accounts \cup {NoAccount},
                     from : Tiers \cup {NoTier}, to : Tiers \cup {NoTier},
                     kind : {"upgrade", "downgrade", "lateral"},
                     status : {"none", "pending", "completed", "cancelled"}]]

\* create_tier, update_tier and deactivate_tier ask for the signature of whoever
\* says to be the administrator, and for no more.
create_tier(i) ==
    /\ ~tiers[i].known
    /\ tiers' = [tiers EXCEPT ![i].known = TRUE, ![i].active = TRUE]
    /\ UNCHANGED <<HS_vars, tierOf, promo, promoList, redeemed, request>>

update_tier(i, active) ==
    /\ tiers[i].known
    /\ tiers' = [tiers EXCEPT ![i].active = active]
    /\ UNCHANGED <<HS_vars, tierOf, promo, promoList, redeemed, request>>

create_promotion(p, terms) ==
    /\ tiers[terms.tier].known /\ terms.from < terms.until
    /\ promo[p] = Unset
    /\ promo' = [promo EXCEPT ![p] = [tier |-> terms.tier, from |-> terms.from,
                     until |-> terms.until, max |-> terms.max, used |-> 0]]
    /\ promoList' = Append(promoList, p)
    /\ UNCHANGED <<HS_vars, tiers, tierOf, redeemed, request>>

\* The first promotion of the list for the tier and code decides, also when it is
\* over or used up.
apply_promotion(i, p) ==
    LET matching == SelectSeq(promoList, LAMBDA q : promo[q].tier = i)
    IN /\ matching # << >> /\ p = Head(matching)
       /\ now \in promo[p].from..promo[p].until
       /\ promo[p].max > 0 => promo[p].used < promo[p].max
       /\ promo' = [promo EXCEPT ![p].used = @ + 1]

\* update_tier_analytics_on_subscribe
Subscribed(i) == tiers' = [tiers EXCEPT ![i].subscribers = @ + 1]

create_subscription_with_tier(s, user, i, p) ==
    /\ tiers[i].known /\ tiers[i].active
    /\ Created(s, user, Cycle)
    /\ IF p = NoPromo THEN UNCHANGED promo ELSE apply_promotion(i, p)
    /\ tierOf' = [tierOf EXCEPT ![s] = i]
    /\ redeemed' = [redeemed EXCEPT ![s] = p]
    /\ Subscribed(i)
    /\ UNCHANGED <<hub, pausing, payable, served, lossless, promoList, request>>

\* A renewal counts the subscriber once more; a cancellation does not count it out.
RenewedWithTier(s) ==
    /\ renew_subscription(s, Cycle)
    /\ IF tierOf[s] = NoTier THEN UNCHANGED tiers ELSE Subscribed(tierOf[s])
    /\ UNCHANGED <<tierOf, promo, promoList, redeemed, request>>

determine_change_type(from, to) ==
    CASE Rank[to] > Rank[from] -> "upgrade"
      [] Rank[to] < Rank[from] -> "downgrade"
      [] OTHER -> "lateral"

\* Two requests made in the same second have one id: the later replaces the other.
request_tier_change(user, s, to) ==
    /\ NotPaused
    /\ sub[s].user = user /\ tierOf[s] # NoTier
    /\ tiers[to].known /\ tiers[to].active
    /\ request' = [request EXCEPT ![now] =
            [user |-> user, from |-> tierOf[s], to |-> to, status |-> "pending",
             kind |-> determine_change_type(tierOf[s], to)]]
    /\ UNCHANGED <<HS_vars, tiers, tierOf, promo, promoList, redeemed>>

\* update_tier_analytics_on_change: out of one tier (saturating), into the other.
Moved(from, to) ==
    LET left == IF from = NoTier THEN tiers
                ELSE [tiers EXCEPT ![from].subscribers = Positive(@ - 1)]
    IN tiers' = [left EXCEPT ![to].subscribers = @ + 1]

Processed(caller, id, s) ==
    /\ NotPaused
    /\ request[id].status = "pending"
    /\ caller \in {request[id].user, admin}
    /\ sub[s].status # "absent"
    /\ tierOf' = [tierOf EXCEPT ![s] = request[id].to]
    /\ request' = [request EXCEPT ![id].status = "completed"]
    /\ UNCHANGED <<HS_vars, promo, promoList, redeemed>>

\* Mutant: the subscriber is counted out of the tier it had when it asked.
Mut_process_tier_change(caller, id, s) ==
    /\ Processed(caller, id, s)
    /\ Moved(request[id].from, request[id].to)

\* The caller names the subscription: the request does not say which it is for.
process_tier_change(caller, id, s) ==
    /\ Processed(caller, id, s)
    /\ Moved(tierOf[s], request[id].to)

cancel_tier_change(user, id) ==
    /\ NotPaused
    /\ request[id].status = "pending" /\ request[id].user = user
    /\ request' = [request EXCEPT ![id].status = "cancelled"]
    /\ UNCHANGED <<HS_vars, tiers, tierOf, promo, promoList, redeemed>>

HR_Call(user) ==
    \/ \E s \in Subs, i \in Tiers :
          \/ \E p \in Promos \cup {NoPromo} : create_subscription_with_tier(s, user, i, p)
          \/ request_tier_change(user, s, i)
    \/ \E id \in Times : \/ \E s \in Subs : process_tier_change(user, id, s)
                        \/ cancel_tier_change(user, id)

HR_Next ==
    \/ \E user \in Accounts : HR_Call(user)
    \/ \E i \in Tiers : \/ create_tier(i)
                        \/ \E active \in BOOLEAN : update_tier(i, active)
    \/ \E p \in Promos, terms \in PromoTerms : create_promotion(p, terms)
    \/ \E s \in Subs : \/ RenewedWithTier(s)
                       \/ cancel_subscription(s) /\ UNCHANGED HR_state
    \/ \E s \in Subs, user \in Accounts :
          create_subscription(s, user, Cycle) /\ UNCHANGED HR_state
    \/ (set_usdc_contract \/ HS_Tick) /\ UNCHANGED HR_state
    \/ HubGovernance /\ UNCHANGED <<HS_state, HR_state>>

HR_Spec == HubInit /\ HS_Init /\ HR_Init /\ [][HR_Next]_HR_vars

-----------------------------------------------------------------------------

\* The subscriber count of a tier never falls below the subscriptions that have it,
\* whatever changes, stale requests and cancellations come in whatever order (it
\* may exceed them: a renewal counts again).
CountsCoverSubscribers ==
    \A i \in Tiers : tiers[i].subscribers >= Cardinality({s \in Subs : tierOf[s] = i})

\* A promotion's redemptions are the subscriptions created with it, within its
\* limit; a code two promotions of a tier share never redeems the wrong one's.
PromotionsCounted ==
    \A p \in Promos :
        /\ promo[p].used = Cardinality({s \in Subs : redeemed[s] = p})
        /\ promo[p].max > 0 => promo[p].used <= promo[p].max

\* Counters of tiers and promotions agree with the subscriptions they count.
SubscribersCounted == CountsCoverSubscribers /\ PromotionsCounted
=============================================================================

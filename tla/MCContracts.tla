----------------------------- MODULE MCContracts -----------------------------
(***************************************************************************)
(* The contracts on small instances.  They share nothing but the ledger,   *)
(* so one behaviour exercises one of them ("under") and the others stay in *)
(* their initial state; which one is chosen at the start.                  *)
(***************************************************************************)
EXTENDS WorkspaceBooking, ResourceCredits, BeaconPay, MCAccessControl

CONSTANTS alice, bob, usd, xlm, gold, flex, free, pro

VARIABLE under   \* the contract that is called

Contracts == {"booking", "credits", "staking", "governance", "tokens", "metadata",
              "memberships", "subscriptions", "tiers", "access"}

TestFunds == [c \in Coins |-> [a \in Accounts |->
                IF c = xlm THEN 1 ELSE IF a = alice THEN 3 ELSE 0]]

StakingConfig(coin, rewards, enabled, penalty) ==
    [coin |-> coin, rewards |-> rewards, enabled |-> enabled, penalty |-> penalty]
TestStakingConfigs == {StakingConfig(usd, xlm, TRUE, 1),
                       StakingConfig(usd, usd, FALSE, 2),
                       StakingConfig(xlm, usd, TRUE, 1)}
TestStakingTiers ==
    [t \in StakingTiers |->
        IF t = gold THEN [min |-> 2, lock |-> 1, rate |-> 2, multiplier |-> 4]
        ELSE [min |-> 1, lock |-> 0, rate |-> 1, multiplier |-> 2]]

TestSplits == {[total |-> 4, min |-> 2], [total |-> 3, min |-> 1]}

TestRenewalConfigs == {[grace |-> 1, notice |-> 1, enabled |-> TRUE],
                       [grace |-> 0, notice |-> 2, enabled |-> FALSE]}
TestUpgradeConfigs == {[enabled |-> TRUE, adminOnly |-> FALSE, max |-> 0],
                       [enabled |-> FALSE, adminOnly |-> TRUE, max |-> 1]}

TestPauseConfigs == {[max |-> 1, count |-> 1, active |-> 1],
                     [max |-> 2, count |-> 2, active |-> 0]}
TestRank == [i \in Tiers |-> IF i = free THEN 0 ELSE 1]
TestTerms == {[tier |-> pro, from |-> 0, until |-> 1, max |-> 1],
              [tier |-> pro, from |-> 0, until |-> 0, max |-> 0]}

hubs == <<transfer, halt>>
all == <<ledger, under, WB_state, RC_state, SK_state, hubs, tokens, HD_state, HM_state,
         HS_state, HR_state, AC_state>>

\* A contract that is not called has one initial state.
MCInit ==
    /\ under \in Contracts
    /\ HubInit
    /\ WB_Init /\ RC_Init /\ SK_Init
    /\ HT_Init /\ HD_Init /\ HM_Init /\ HS_Init /\ HR_Init /\ AC_Init
    /\ under # "memberships" => renewals = CHOOSE c \in RenewalConfigs : TRUE
    /\ under # "subscriptions" => pausing = CHOOSE c \in PauseConfigs : TRUE

\* All that is called is what "moving" names.
Others(moving) ==
    /\ UNCHANGED under
    /\ IF "booking" \in moving THEN TRUE ELSE UNCHANGED WB_state
    /\ IF "credits" \in moving THEN TRUE ELSE UNCHANGED RC_state
    /\ IF "staking" \in moving THEN TRUE ELSE UNCHANGED SK_state
    /\ IF "hub" \in moving THEN TRUE ELSE UNCHANGED hubs
    /\ IF "tokens" \in moving THEN TRUE ELSE UNCHANGED tokens
    /\ IF "metadata" \in moving THEN TRUE ELSE UNCHANGED HD_state
    /\ IF "memberships" \in moving THEN TRUE ELSE UNCHANGED HM_state
    /\ IF "subscriptions" \in moving THEN TRUE ELSE UNCHANGED HS_state
    /\ IF "tiers" \in moving THEN TRUE ELSE UNCHANGED HR_state
    /\ IF "access" \in moving THEN TRUE ELSE UNCHANGED AC_state

\* Bounds that keep one contract's part small; an action they cut off is one more
\* call of a kind the part already has.
ByBob == admin' \in {NoAccount, bob}

BookingCalls == WB_Next /\ ByBob /\ now' <= 1 /\ workspace'["w2"].rate # 3
CreditsCalls == RC_Next /\ ByBob /\ now' <= 2 /\ supply' <= 3
StakingCalls == SK_Next /\ ByBob /\ now' <= 2
GovernanceCalls == HubNext /\ now' <= 3
TokenOwnersCalls ==
    /\ HT_Next /\ ByBob /\ now' <= 1
    /\ token'["t2"] = NoToken
    /\ \A a, s \in Accounts : allowance'["t1"][a][s].expires <= 1
    /\ tokenPaused'["t1"] => ~halt'.paused
TokenMetadataCalls ==
    HD_Next /\ now' <= 1 /\ \A t \in Tokens : token'[t].user \in {alice, NoAccount}
MembershipsCalls ==
    /\ HM_Next /\ ByBob /\ now' <= 2 /\ ~Issued("t2")'
    /\ member'["t1"].user = bob => upgrades' = NoUpgrades
    /\ halt'.paused => now' <= 1
SubscriptionsCalls ==
    /\ HS_Next /\ ByBob
    /\ sub'["s1"].user \in {alice, NoAccount} /\ sub'["s2"] = NoSub
SubscriptionTiersCalls ==
    /\ HR_Next /\ ByBob /\ now' <= 1 /\ halt' = Running
    /\ \A s \in Subs : sub'[s].user \in {alice, NoAccount}
    /\ bought'["s1"] <= 2 * Cycle /\ bought'["s2"] <= Cycle
    /\ \/ promoList' = << >> /\ request' = [i \in Times |-> NoRequest]
       \/ /\ promoList' = << >> \/ request' = [i \in Times |-> NoRequest]
          /\ \A i \in Tiers : tiers'[i].known => tiers'[i].active
          /\ bought'["s1"] <= Cycle
    /\ payable' \/ \A i \in Tiers : ~tiers'[i].known
AccessCalls ==
    /\ AC_Next /\ UNCHANGED <<wallet, admin>>
    /\ IF Multisig
       THEN /\ now' <= 2 /\ blacklisted' = {}
            /\ \A o \in {ann, ben} : roles'[o] = roles[o]
            /\ Len(proposals') = 2 =>
                  proposals'[2].action.kind \in {"RemoveAdmin", "SetRole", "Unpause"}
       ELSE /\ now' <= 1 /\ blacklisted' \subseteq {ann} /\ board'.admins[cas] = 0
            /\ roles'[cas] = "guest" /\ ~access'.membersOnly
            /\ handover' # NoHandover => blacklisted' = {} /\ ~access'.paused

MCNext ==
    \/ under = "booking" /\ BookingCalls /\ Others({"booking"})
    \/ under = "credits" /\ CreditsCalls /\ Others({"credits"})
    \/ under = "staking" /\ StakingCalls /\ Others({"staking"})
    \/ under = "governance" /\ GovernanceCalls /\ Others({"hub"})
    \/ under = "tokens" /\ TokenOwnersCalls /\ Others({"hub", "tokens"})
    \/ under = "metadata" /\ TokenMetadataCalls /\ Others({"hub", "tokens", "metadata"})
    \/ under = "memberships" /\ MembershipsCalls /\ Others({"hub", "memberships"})
    \/ under = "subscriptions" /\ SubscriptionsCalls /\ Others({"hub", "subscriptions"})
    \/ under = "tiers" /\ SubscriptionTiersCalls /\ Others({"hub", "subscriptions", "tiers"})
    \/ under = "access" /\ AccessCalls /\ Others({"access"})

ContractsSpec == MCInit /\ [][MCNext]_all

\* Every contract's state is what its part says it is.
ContractsTypeOK ==
    /\ WB_TypeOK /\ RC_TypeOK /\ SK_TypeOK
    /\ HT_TypeOK /\ HD_Type /\ HM_Type /\ HS_Type /\ HR_Type /\ AC_Type
=============================================================================

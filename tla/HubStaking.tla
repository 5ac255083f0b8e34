----------------------------- MODULE HubStaking -----------------------------
(***************************************************************************)
(* Staking in the BeaconPay hub (staking.rs, rewards.rs): a staker locks   *)
(* coins for a tier's lock period; the configuration, which names the      *)
(* staking coin and the coin rewards are paid in, can be replaced at any   *)
(* time.  Basis points are parts of Bps (10000), a year is Year seconds.   *)
(* The hub's pause only disables calls here and is left out.               *)
(***************************************************************************)
EXTENDS Ledger

CONSTANTS
    StakingConfigs,  \* [coin, rewards : Coins, enabled : BOOLEAN, penalty : Nat]
    StakingTiers,    \* tier ids
    TierOf,          \* their terms: [min, lock, rate, multiplier : Nat]
    StakeAmounts,    \* amounts in requests
    Bps, Year,
    MaxStake         \* bound: a staker's total stake

ASSUME StakingAssumption ==
    /\ Bps \in Nat \ {0} /\ Year \in Nat \ {0} /\ MaxStake \in Nat
    /\ StakeAmounts \subseteq Nat
    /\ StakingConfigs \subseteq [coin : Coins, rewards : Coins,
                                 enabled : BOOLEAN, penalty : Nat]
    /\ TierOf \in [StakingTiers -> [min : Nat, lock : Nat, rate : Nat,
                                    multiplier : Nat]]

VARIABLES
    config,  \* Config; NoConfig before it is set
    stakingTiers,   \* ids of the tiers created
    stake,   \* Stake(address)
    mixed    \* history: rewards were payable in the staking coin, or another
             \* coin was configured while a stake was open

SK_state == <<config, stakingTiers, stake, mixed>>
SK_vars == <<ledger, SK_state>>

NoConfig == [coin |-> "none"]
NoStake == [amount |-> 0, tier |-> "none", staked_at |-> 0, unlock_at |-> 0]
StakeInfo == [amount : Nat, tier : StakingTiers \cup {"none"},
              staked_at : Times, unlock_at : Nat]

Staking(a) == stake[a].amount # 0

SK_Init ==
    /\ config = NoConfig
    /\ stakingTiers = {}
    /\ stake = [a \in Accounts |-> NoStake]
    /\ mixed = FALSE

set_staking_config(caller, c) ==
    /\ caller = admin
    /\ c.penalty <= Bps
    /\ config' = c
    /\ mixed' = \/ mixed \/ c.coin = c.rewards
                \/ /\ config # NoConfig
                   /\ config.coin # c.coin
                   /\ \E a \in Accounts : Staking(a)
    /\ UNCHANGED <<ledger, stakingTiers, stake>>

create_staking_tier(caller, t) ==
    /\ caller = admin
    /\ TierOf[t].min > 0 /\ TierOf[t].multiplier # 0
    /\ TierOf[t].rate \in 1..Bps
    /\ t \notin stakingTiers
    /\ stakingTiers' = stakingTiers \cup {t}
    /\ UNCHANGED <<ledger, config, stake, mixed>>

\* A second stake adds to the first: the tier must be the same, the lock starts
\* anew and staked_at stays.
stake_tokens(a, t, amount) ==
    /\ config # NoConfig /\ config.enabled
    /\ t \in stakingTiers
    /\ amount >= TierOf[t].min
    /\ stake[a].amount + amount <= MaxStake       \* bound of the model
    /\ Staking(a) => stake[a].tier = t
    /\ Transfer(config.coin, a, Vault, amount)
    /\ stake' = [stake EXCEPT ![a] =
           [amount |-> @.amount + amount, tier |-> t,
            staked_at |-> IF Staking(a) THEN @.staked_at ELSE now,
            unlock_at |-> now + TierOf[t].lock]]
    /\ UNCHANGED <<now, admin, config, stakingTiers, mixed>>

\* calculate_pending_rewards; claimed_rewards is never raised above 0.
Rewards(s) ==
    LET gross == s.amount * TierOf[s.tier].rate * (now - s.staked_at)
                     * TierOf[s.tier].multiplier
    IN  (gross \div (Bps * Year)) \div Bps

\* The coins move: principal and, when there are any, rewards.
Pays(a, principal, rewards) ==
    /\ principal <= wallet[config.coin][Vault]
    /\ LET w == [wallet EXCEPT ![config.coin][Vault] = @ - principal,
                               ![config.coin][a] = @ + principal]
       IN  /\ rewards <= w[config.rewards][Vault]
           /\ wallet' = [w EXCEPT ![config.rewards][Vault] = @ - rewards,
                                  ![config.rewards][a] = @ + rewards]

Closes(a) ==
    /\ stake' = [stake EXCEPT ![a] = NoStake]
    /\ UNCHANGED <<now, admin, config, stakingTiers, mixed>>

unstake_tokens(a) ==
    /\ config # NoConfig /\ Staking(a)
    /\ now >= stake[a].unlock_at
    /\ Pays(a, stake[a].amount, Rewards(stake[a]))
    /\ Closes(a)

\* Mutant: the stake stays on record.
Mut_emergency_unstake(a) ==
    /\ config # NoConfig /\ Staking(a)
    /\ Pays(a, stake[a].amount - ((stake[a].amount * config.penalty) \div Bps), 0)
    /\ UNCHANGED <<now, admin, SK_state>>

emergency_unstake(a) ==
    /\ config # NoConfig /\ Staking(a)
    /\ Pays(a, stake[a].amount - ((stake[a].amount * config.penalty) \div Bps), 0)
    /\ Closes(a)

\* Anyone may send coins to the contract: the rewards it pays come from there.
Donate(a, coin, amount) ==
    /\ Transfer(coin, a, Vault, amount)
    /\ UNCHANGED <<now, admin, SK_state>>

SK_Call(caller) ==
    \/ SetAdmin(caller) /\ UNCHANGED SK_state
    \/ \E c \in StakingConfigs : set_staking_config(caller, c)
    \/ \E t \in StakingTiers :
         \/ create_staking_tier(caller, t)
         \/ \E amount \in StakeAmounts : stake_tokens(caller, t, amount)
    \/ unstake_tokens(caller) \/ emergency_unstake(caller)
    \/ \E coin \in Coins : Donate(caller, coin, 1)

SK_Next ==
    \/ \E caller \in Accounts : SK_Call(caller)
    \/ LedgerCloses /\ UNCHANGED SK_state

SK_Spec == LedgerInit /\ SK_Init /\ [][SK_Next]_SK_vars

-----------------------------------------------------------------------------
SK_TypeOK ==
    /\ LedgerType
    /\ config \in StakingConfigs \cup {NoConfig}
    /\ stakingTiers \subseteq StakingTiers
    /\ stake \in [Accounts -> StakeInfo]
    /\ mixed \in BOOLEAN

\* Principal is never spent on somebody else: through top-ups, rewards, penalties
\* and reconfigurations the vault holds every open stake in the staking coin, as
\* long as rewards are paid in another coin and the staking coin does not change
\* under an open stake.
Stakes == [a \in Accounts |-> stake[a].amount]

StakesBacked ==
    config # NoConfig /\ ~mixed =>
        SumFunctionOnSet(Stakes, Accounts) <= wallet[config.coin][Vault]
=============================================================================

----------------------------- MODULE HubTokens -----------------------------
(***************************************************************************)
(* Who owns a membership token of the hub: issue, transfer, delegated      *)
(* transfer (allowance.rs), the pause of one token, and fractions          *)
(* (fractionalization.rs).  What happens to its expiry, tier and version   *)
(* is HubMemberships; here those calls only change the status.             *)
(***************************************************************************)
EXTENDS Hub

CONSTANTS
    Splits,          \* [total, min : Nat] of fractionalize requests
    ShareAmounts, AllowanceAmounts, Dividends,
    MaxDividends     \* bound: rewards distributed per token

ASSUME TokensAssumption ==
    /\ Splits \subseteq [total : Nat, min : Nat]
    /\ ShareAmounts \subseteq Nat /\ AllowanceAmounts \subseteq Nat
    /\ Dividends \subseteq Nat /\ MaxDividends \in Nat

VARIABLES
    token,        \* Token(id): owner and status
    tokenPaused,  \* TokenPaused(id)
    allowance,    \* Allowance(id, owner, spender)
    split,        \* FractionInfo(id)
    shares,       \* FractionShares(id)
    pending,      \* PendingRewards(id)
    distributed   \* history: rewards distributed since the token was split

owners == <<token, allowance, split, shares, pending>>
HT_vars == <<hub, owners, tokenPaused, distributed>>

Statuses == {"absent", "active", "grace", "other"}
NoToken == [user |-> NoAccount, status |-> "absent"]
NoAllowance == [amount |-> 0, expires |-> NoTime]
Whole == [total |-> 0, min |-> 0]
Nobody == [a \in Accounts |-> 0]

HT_Init ==
    /\ token = [t \in Tokens |-> NoToken]
    /\ tokenPaused = [t \in Tokens |-> FALSE]
    /\ allowance = [t \in Tokens |-> [a \in Accounts |->
                       [s \in Accounts |-> NoAllowance]]]
    /\ split = [t \in Tokens |-> Whole]
    /\ shares = [t \in Tokens |-> Nobody]
    /\ pending = [t \in Tokens |-> Nobody]
    /\ distributed = [t \in Tokens |-> 0]

Exists(t) == token[t].status # "absent"
Fractionalized(t) == split[t] # Whole
Transferable(t) ==
    /\ NotPaused /\ ~tokenPaused[t]
    /\ ~Fractionalized(t)
    /\ token[t].status = "active"

issue_token(t, user) ==
    /\ NotPaused /\ admin # NoAccount
    /\ ~Exists(t)
    /\ token' = [token EXCEPT ![t] = [user |-> user, status |-> "active"]]
    /\ UNCHANGED <<hub, tokenPaused, allowance, split, shares, pending, distributed>>

\* Renewals, grace periods, upgrades and rollbacks, paused or not.
StatusChanges(t, status) ==
    /\ Exists(t)
    /\ token' = [token EXCEPT ![t].status = status]
    /\ UNCHANGED <<hub, tokenPaused, allowance, split, shares, pending, distributed>>

SetTokenPaused(caller, t, flag) ==
    /\ caller = admin /\ Exists(t)
    /\ tokenPaused' = [tokenPaused EXCEPT ![t] = flag]
    /\ UNCHANGED <<hub, owners, distributed>>

\* transfer_token, also with royalty (events only) and in a batch.
transfer_token(caller, t, to) ==
    /\ Transferable(t)
    /\ caller = token[t].user
    /\ token' = [token EXCEPT ![t].user = to]
    /\ UNCHANGED <<hub, tokenPaused, allowance, split, shares, pending, distributed>>

approve(caller, t, spender, amount, expires) ==
    /\ Transferable(t)
    /\ caller = token[t].user /\ caller # spender
    /\ amount > 0
    /\ expires = NoTime \/ now < expires
    /\ allowance' = [allowance EXCEPT ![t][caller][spender] =
                        [amount |-> amount, expires |-> expires]]
    /\ UNCHANGED <<hub, token, tokenPaused, split, shares, pending, distributed>>

revoke_allowance(caller, t, spender) ==
    /\ NotPaused /\ ~tokenPaused[t] /\ Exists(t)
    /\ caller = token[t].user
    /\ allowance' = [allowance EXCEPT ![t][caller][spender] = NoAllowance]
    /\ UNCHANGED <<hub, token, tokenPaused, split, shares, pending, distributed>>

Expired(x) == x.expires # NoTime /\ now >= x.expires

\* get_allowance, a call anyone can make, drops an expired allowance.
get_allowance(t, owner, spender) ==
    /\ Exists(t) /\ token[t].user = owner
    /\ Expired(allowance[t][owner][spender])
    /\ allowance' = [allowance EXCEPT ![t][owner][spender] = NoAllowance]
    /\ UNCHANGED <<hub, token, tokenPaused, split, shares, pending, distributed>>

\* Mutant: the token's fractions are not asked about.
Mut_transfer_from(spender, t, owner, to, amount) ==
    LET x == allowance[t][owner][spender] IN
    /\ NotPaused /\ ~tokenPaused[t] /\ token[t].status = "active"
    /\ amount > 0
    /\ token[t].user = owner
    /\ x.amount >= amount /\ ~Expired(x)
    /\ allowance' = [allowance EXCEPT ![t][owner][spender] =
                        IF x.amount = amount THEN NoAllowance
                        ELSE [x EXCEPT !.amount = @ - amount]]
    /\ token' = [token EXCEPT ![t].user = to]
    /\ UNCHANGED <<hub, tokenPaused, split, shares, pending, distributed>>

\* The allowance is consumed; an expired one fails and, the call being reverted,
\* stays.
transfer_from(spender, t, owner, to, amount) ==
    LET x == allowance[t][owner][spender] IN
    /\ Transferable(t)
    /\ amount > 0
    /\ token[t].user = owner
    /\ x.amount >= amount /\ ~Expired(x)
    /\ allowance' = [allowance EXCEPT ![t][owner][spender] =
                        IF x.amount = amount THEN NoAllowance
                        ELSE [x EXCEPT !.amount = @ - amount]]
    /\ token' = [token EXCEPT ![t].user = to]
    /\ UNCHANGED <<hub, tokenPaused, split, shares, pending, distributed>>

-----------------------------------------------------------------------------
(* Fractions                                                               *)

fractionalize_token(caller, t, s) ==
    /\ NotPaused
    /\ s.total > 1 /\ s.min \in 1..s.total /\ s.total % s.min = 0
    /\ ~Fractionalized(t)
    /\ token[t].status = "active"
    /\ caller = token[t].user
    /\ split' = [split EXCEPT ![t] = s]
    /\ shares' = [shares EXCEPT ![t] = [Nobody EXCEPT ![caller] = s.total]]
    /\ UNCHANGED <<hub, token, tokenPaused, allowance, pending, distributed>>

\* A holder without shares is not in the map; a transfer to oneself keeps all.
transfer_fraction(from, t, to, amount) ==
    /\ NotPaused /\ Fractionalized(t)
    /\ amount >= split[t].min /\ amount % split[t].min = 0
    /\ shares[t][from] >= amount
    /\ LET kept == [shares[t] EXCEPT ![from] = @ - amount]
       IN  /\ kept[from] = 0 \/ kept[from] >= split[t].min
           /\ shares' = [shares EXCEPT ![t] = [kept EXCEPT ![to] = @ + amount]]
    /\ UNCHANGED <<hub, token, tokenPaused, allowance, split, pending, distributed>>

\* Whoever holds every share becomes the owner; undrawn rewards are dropped.
recombine_fractions(caller, t) ==
    /\ NotPaused /\ Fractionalized(t)
    /\ shares[t][caller] = split[t].total
    /\ token' = [token EXCEPT ![t].user = caller]
    /\ split' = [split EXCEPT ![t] = Whole]
    /\ shares' = [shares EXCEPT ![t] = Nobody]
    /\ pending' = [pending EXCEPT ![t] = Nobody]
    /\ distributed' = [distributed EXCEPT ![t] = 0]
    /\ UNCHANGED <<hub, tokenPaused, allowance>>

Holders(t) == {a \in Accounts : shares[t][a] > 0}
Portion(t, a, amount) == (amount * shares[t][a]) \div split[t].total

\* Mutant: the remainder of the division is lost.
Mut_distribute_fraction_rewards(t, amount) ==
    /\ NotPaused /\ amount > 0 /\ admin # NoAccount /\ Fractionalized(t)
    /\ distributed[t] + amount <= MaxDividends
    /\ pending' = [pending EXCEPT ![t] =
           [a \in Accounts |-> @[a] + Portion(t, a, amount)]]
    /\ distributed' = [distributed EXCEPT ![t] = @ + amount]
    /\ UNCHANGED <<hub, token, tokenPaused, allowance, split, shares>>

\* Each holder gets a share rounded down, the first one of the map the remainder.
distribute_fraction_rewards(t, amount) ==
    /\ NotPaused /\ amount > 0 /\ admin # NoAccount /\ Fractionalized(t)
    /\ distributed[t] + amount <= MaxDividends     \* bound of the model
    /\ \E first \in Holders(t) :
         LET rest == amount - SumFunctionOnSet(
                         [a \in Accounts |-> Portion(t, a, amount)], Holders(t))
         IN  pending' = [pending EXCEPT ![t] =
                 [a \in Accounts |-> @[a] + Portion(t, a, amount)
                                     + (IF a = first THEN rest ELSE 0)]]
    /\ distributed' = [distributed EXCEPT ![t] = @ + amount]
    /\ UNCHANGED <<hub, token, tokenPaused, allowance, split, shares>>

HT_Call(caller) ==
    \E t \in Tokens :
      \/ caller = admin /\ \E user \in Accounts : issue_token(t, user)
      \/ \E flag \in BOOLEAN : SetTokenPaused(caller, t, flag)
      \/ \E a \in Accounts :
           \/ transfer_token(caller, t, a)
           \/ revoke_allowance(caller, t, a)
           \/ \E amount \in AllowanceAmounts :
                \/ \E expires \in Times \cup {NoTime} :
                      approve(caller, t, a, amount, expires)
                \/ \E owner \in Accounts : transfer_from(caller, t, owner, a, amount)
           \/ \E amount \in ShareAmounts : transfer_fraction(caller, t, a, amount)
           \/ get_allowance(t, caller, a)
      \/ \E s \in Splits : fractionalize_token(caller, t, s)
      \/ recombine_fractions(caller, t)
      \/ \E amount \in Dividends :
            caller = admin /\ distribute_fraction_rewards(t, amount)

HT_Next ==
    \/ \E caller \in Accounts : HT_Call(caller)
    \/ \E t \in Tokens, status \in Statuses \ {"absent"} : StatusChanges(t, status)
    \/ HubEnvironment /\ UNCHANGED <<owners, tokenPaused, distributed>>

HT_Spec == HubInit /\ HT_Init /\ [][HT_Next]_HT_vars

-----------------------------------------------------------------------------
HT_TypeOK ==
    /\ HubType
    /\ token \in [Tokens -> [user : Accounts \cup {NoAccount}, status : Statuses]]
    /\ tokenPaused \in [Tokens -> BOOLEAN]
    /\ allowance \in [Tokens -> [Accounts -> [Accounts ->
                         [amount : Nat, expires : Moment]]]]
    /\ split \in [Tokens -> [total : Nat, min : Nat]]
    /\ shares \in [Tokens -> [Accounts -> Nat]]
    /\ pending \in [Tokens -> [Accounts -> Nat]]
    /\ distributed \in [Tokens -> Nat]

AccountSum(f) == SumFunctionOnSet(f, Accounts)

\* Shares are neither made nor lost: however they are traded (also with oneself)
\* the holders of a split token own all of it, in whole fractions.
SharesAddUp ==
    \A t \in Tokens :
        /\ AccountSum(shares[t]) = split[t].total
        /\ Fractionalized(t) => \A a \in Accounts : shares[t][a] % split[t].min = 0

\* Every reward distributed to a token's holders is credited to one of them, the
\* remainder of the division included.
DividendsAddUp == \A t \in Tokens : AccountSum(pending[t]) = distributed[t]

\* Fractions and their rewards are conserved (transfer_fraction, distribute).
FractionsAddUp == SharesAddUp /\ DividendsAddUp

\* A split token changes hands only as a whole: none of the ways to transfer it
\* (own, batch, delegated by an allowance given before it was split) moves it; it
\* goes to the holder of all shares, or nowhere.
SplitTokenStays ==
    [][\A t \in Tokens :
         Fractionalized(t) /\ token'[t].user # token[t].user =>
             /\ ~Fractionalized(t)'
             /\ shares[t][token'[t].user] = split[t].total]_HT_vars

\* While the hub is halted nothing that says who owns what changes: every call
\* that moves tokens, allowances, shares or rewards asks the guard first.  (The
\* status may still change: upgrades do not ask; expired allowances may go.)
HaltFreezesOwnership ==
    [][~NotPaused =>
         /\ UNCHANGED <<split, shares, pending>>
         /\ \A t \in Tokens :
              /\ token'[t].user = token[t].user
              /\ \A a, s \in Accounts :
                   allowance'[t][a][s] \in {allowance[t][a][s], NoAllowance}]_HT_vars

\* A token changes hands only by the calls meant to, and by none during a halt.
OwnershipGuarded == SplitTokenStays /\ HaltFreezesOwnership
=============================================================================

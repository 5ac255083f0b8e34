----------------------------- MODULE HubProofs ------------------------------
(***************************************************************************)
(* Proofs about the hub's tokens. Who owns them changes only by the calls  *)
(* meant to and never during a halt: that needs that only tokens that      *)
(* exist are ever split, or an issue could give a split token to somebody  *)
(* else. The fractions of a split token add up to its total, whatever is   *)
(* transferred, and the dividends handed out to their number; the sums are *)
(* those of SumTheorems. A query by attribute finds the tokens that have   *)
(* it. Neither renewals nor versions take from a membership what it had: a *)
(* snapshot is stored under the token's current version and every version  *)
(* is new, so no snapshot has the current version or a later one. The last *)
(* section gives the types of all this and of the administration.          *)
(***************************************************************************)
EXTENDS HubMetadata, HubMemberships, SumTheorems

TokenRecord == [user : Accounts \cup {NoAccount}, status : Statuses]
AllowanceRecord == [amount : Nat, expires : Moment]
Split == [total : Nat, min : Nat]

\* HT_TypeOK without the rewards, whose remainder is a sum.
OwnersType ==
    /\ token \in [Tokens -> TokenRecord]
    /\ allowance \in [Tokens -> [Accounts -> [Accounts -> AllowanceRecord]]]
    /\ split \in [Tokens -> Split]
    /\ shares \in [Tokens -> [Accounts -> Nat]]

SplitTokensExist == \A t \in Tokens : Fractionalized(t) => Exists(t)

OwnersInv == OwnersType /\ SplitTokensExist

\* The two parts of OwnershipGuarded, of one step.
SplitStays ==
    \A t \in Tokens :
        Fractionalized(t) /\ token'[t].user # token[t].user =>
            /\ ~Fractionalized(t)'
            /\ shares[t][token'[t].user] = split[t].total

HaltFreezes ==
    ~NotPaused =>
        /\ UNCHANGED <<split, shares, pending>>
        /\ \A t \in Tokens :
             /\ token'[t].user = token[t].user
             /\ \A a, s \in Accounts :
                  allowance'[t][a][s] \in {allowance[t][a][s], NoAllowance}

Guarded == OwnersInv' /\ SplitStays /\ HaltFreezes

-----------------------------------------------------------------------------
\* A step that changes nothing but the record of one token guards ownership when the
\* owner stays, or the token is whole and the hub runs.
LEMMA TokenStep ==
    ASSUME OwnersInv, NEW t \in Tokens, NEW new \in TokenRecord,
           token' = [token EXCEPT ![t] = new], new.status # "absent",
           UNCHANGED <<allowance, split, shares, pending>>,
           new.user = token[t].user \/ (NotPaused /\ ~Fractionalized(t))
    PROVE  Guarded
<1>1. token' \in [Tokens -> TokenRecord] /\ token'[t] = new
      /\ \A x \in Tokens \ {t} : token'[x] = token[x]
  BY DEF OwnersInv, OwnersType
<1>2. OwnersType'
  BY <1>1 DEF OwnersInv, OwnersType
<1>3. SplitTokensExist'
  BY <1>1 DEF OwnersInv, SplitTokensExist, Fractionalized, Exists
<1>4. SplitStays
  BY <1>1 DEF SplitStays
<1>5. HaltFreezes
  BY <1>1 DEF HaltFreezes
<1> QED
  BY <1>2, <1>3, <1>4, <1>5 DEF Guarded, OwnersInv

\* One that changes one allowance, and perhaps the owner of a whole token.
LEMMA AllowanceStep ==
    ASSUME OwnersInv, NEW t \in Tokens, NEW a \in Accounts, NEW s \in Accounts,
           NEW x \in AllowanceRecord, NEW user \in Accounts,
           allowance' = [allowance EXCEPT ![t][a][s] = x],
           UNCHANGED <<split, shares, pending>>,
           \/ UNCHANGED token /\ (NotPaused \/ x = NoAllowance)
           \/ /\ token' = [token EXCEPT ![t].user = user]
              /\ NotPaused /\ ~Fractionalized(t)
    PROVE  Guarded
<1> USE DEF OwnersInv, OwnersType
<1>1. allowance' \in [Tokens -> [Accounts -> [Accounts -> AllowanceRecord]]]
  OBVIOUS
<1>2. \A y \in Tokens, b, r \in Accounts :
         allowance'[y][b][r] = IF y = t /\ b = a /\ r = s THEN x ELSE allowance[y][b][r]
  OBVIOUS
<1>3. CASE UNCHANGED token /\ (NotPaused \/ x = NoAllowance)
  <2>1. HaltFreezes
    BY <1>2, <1>3 DEF HaltFreezes
  <2>2. SplitStays
    BY <1>3 DEF SplitStays
  <2> QED
    BY <1>1, <1>3, <2>1, <2>2 DEF Guarded, SplitTokensExist, Fractionalized, Exists
<1>4. CASE /\ token' = [token EXCEPT ![t].user = user]
           /\ NotPaused /\ ~Fractionalized(t)
  <2>1. [token[t] EXCEPT !.user = user] \in TokenRecord
    BY DEF TokenRecord
  <2>2. token' \in [Tokens -> TokenRecord]
    BY <1>4, <2>1
  <2>3. token'[t].status = token[t].status
        /\ \A y \in Tokens \ {t} : token'[y] = token[y]
    BY <1>4 DEF TokenRecord
  <2>4. SplitTokensExist'
    BY <2>3 DEF SplitTokensExist, Fractionalized, Exists
  <2>5. SplitStays
    BY <1>4, <2>3 DEF SplitStays
  <2>6. HaltFreezes
    BY <1>4 DEF HaltFreezes
  <2> QED
    BY <1>1, <2>2, <2>4, <2>5, <2>6 DEF Guarded
<1> QED
  BY <1>3, <1>4

LEMMA OwnStep ==
    ASSUME OwnersInv, NEW t \in Tokens, NEW caller \in Accounts,
           \/ issue_token(t, caller)
           \/ \E status \in Statuses \ {"absent"} : StatusChanges(t, status)
           \/ \E to \in Accounts : transfer_token(caller, t, to)
    PROVE  Guarded
<1>1. token[t] \in TokenRecord
  BY DEF OwnersInv, OwnersType
<1>2. CASE issue_token(t, caller)
  <2>1. [user |-> caller, status |-> "active"] \in TokenRecord
    BY DEF TokenRecord, Statuses
  <2>2. ~Fractionalized(t)
    BY <1>2 DEF issue_token, OwnersInv, SplitTokensExist
  <2> QED
    BY <1>2, <2>1, <2>2, TokenStep DEF issue_token
<1>3. ASSUME NEW status \in Statuses \ {"absent"}, StatusChanges(t, status)
      PROVE  Guarded
  <2> DEFINE new == [token[t] EXCEPT !.status = status]
  <2>1. new \in TokenRecord /\ new.status # "absent" /\ new.user = token[t].user
    BY <1>1 DEF TokenRecord
  <2>2. token' = [token EXCEPT ![t] = new]
    BY <1>3 DEF StatusChanges
  <2> HIDE DEF new
  <2> QED
    BY <1>3, <2>1, <2>2, TokenStep DEF StatusChanges
<1>4. ASSUME NEW to \in Accounts, transfer_token(caller, t, to)
      PROVE  Guarded
  <2> DEFINE new == [token[t] EXCEPT !.user = to]
  <2>1. new \in TokenRecord /\ new.status = token[t].status
    BY <1>1 DEF TokenRecord
  <2>2. token' = [token EXCEPT ![t] = new]
    BY <1>4 DEF transfer_token
  <2>3. NotPaused /\ ~Fractionalized(t) /\ token[t].status # "absent"
    BY <1>4 DEF transfer_token, Transferable
  <2> HIDE DEF new
  <2> QED
    BY <1>4, <2>1, <2>2, <2>3, TokenStep DEF transfer_token
<1> QED
  BY <1>2, <1>3, <1>4

LEMMA DelegateStep ==
    ASSUME OwnersInv, NEW t \in Tokens, NEW caller \in Accounts, NEW a \in Accounts,
           \/ revoke_allowance(caller, t, a) \/ get_allowance(t, caller, a)
           \/ \E amount \in AllowanceAmounts :
                \/ \E expires \in Times \cup {NoTime} :
                      approve(caller, t, a, amount, expires)
                \/ \E owner \in Accounts : transfer_from(caller, t, owner, a, amount)
    PROVE  Guarded
<1>1. NoAllowance \in AllowanceRecord
  BY DEF NoAllowance, AllowanceRecord, Moment
<1>2. CASE revoke_allowance(caller, t, a)
  BY <1>1, <1>2, AllowanceStep DEF revoke_allowance
<1>3. CASE get_allowance(t, caller, a)
  BY <1>1, <1>3, AllowanceStep DEF get_allowance
<1>4. ASSUME NEW amount \in AllowanceAmounts, NEW expires \in Times \cup {NoTime},
             approve(caller, t, a, amount, expires)
      PROVE  Guarded
  <2>1. [amount |-> amount, expires |-> expires] \in AllowanceRecord
    BY TokensAssumption, LedgerAssumption DEF AllowanceRecord, Moment, Times
  <2>2. NotPaused
    BY <1>4 DEF approve, Transferable
  <2> QED
    BY <1>4, <2>1, <2>2, AllowanceStep DEF approve
<1>5. ASSUME NEW amount \in AllowanceAmounts, NEW owner \in Accounts,
             transfer_from(caller, t, owner, a, amount)
      PROVE  Guarded
  <2> DEFINE x == allowance[t][owner][caller]
             y == IF x.amount = amount THEN NoAllowance
                  ELSE [x EXCEPT !.amount = @ - amount]
  <2>1. x \in AllowanceRecord /\ amount \in Nat /\ x.amount >= amount
    BY <1>5, TokensAssumption DEF OwnersInv, OwnersType, transfer_from
  <2>2. [x EXCEPT !.amount = @ - amount] \in AllowanceRecord
    BY <2>1 DEF AllowanceRecord
  <2>3. y \in AllowanceRecord
    BY <1>1, <2>2
  <2>4. allowance' = [allowance EXCEPT ![t][owner][caller] = y]
        /\ token' = [token EXCEPT ![t].user = a]
        /\ UNCHANGED <<split, shares, pending>>
    BY <1>5 DEF transfer_from
  <2>5. NotPaused /\ ~Fractionalized(t)
    BY <1>5 DEF transfer_from, Transferable
  <2> HIDE DEF x, y
  <2> QED
    BY <2>3, <2>4, <2>5, AllowanceStep
<1> QED
  BY <1>2, <1>3, <1>4, <1>5

LEMMA FractionStep ==
    ASSUME OwnersInv, NEW t \in Tokens, NEW caller \in Accounts,
           \/ \E s \in Splits : fractionalize_token(caller, t, s)
           \/ \E a \in Accounts, amount \in ShareAmounts :
                 transfer_fraction(caller, t, a, amount)
           \/ recombine_fractions(caller, t)
           \/ \E amount \in Dividends : distribute_fraction_rewards(t, amount)
    PROVE  Guarded
<1> USE DEF OwnersInv, OwnersType
<1>1. ASSUME NEW s \in Splits, fractionalize_token(caller, t, s)
      PROVE  Guarded
  <2>1. s \in Split /\ s.total \in Nat
    BY TokensAssumption DEF Split
  <2>2. [Nobody EXCEPT ![caller] = s.total] \in [Accounts -> Nat]
    BY <2>1 DEF Nobody
  <2>3. OwnersType'
    BY <1>1, <2>1, <2>2 DEF fractionalize_token
  <2>4. Exists(t)
    BY <1>1 DEF fractionalize_token, Exists
  <2>5. \A x \in Tokens \ {t} : split'[x] = split[x]
    BY <1>1 DEF fractionalize_token
  <2>6. SplitTokensExist'
    BY <1>1, <2>4, <2>5 DEF fractionalize_token, SplitTokensExist, Fractionalized, Exists
  <2> QED
    BY <1>1, <2>3, <2>6 DEF fractionalize_token, Guarded, SplitStays, HaltFreezes
<1>2. ASSUME NEW a \in Accounts, NEW amount \in ShareAmounts,
             transfer_fraction(caller, t, a, amount)
      PROVE  Guarded
  <2> DEFINE left == [shares[t] EXCEPT ![caller] = @ - amount]
             new == [left EXCEPT ![a] = @ + amount]
  <2>1. shares[t] \in [Accounts -> Nat] /\ amount \in Nat /\ shares[t][caller] >= amount
    BY <1>2, TokensAssumption DEF transfer_fraction
  <2>2. left \in [Accounts -> Nat]
    BY <2>1
  <2>3. shares' = [shares EXCEPT ![t] = new]
    BY <1>2 DEF transfer_fraction
  <2> HIDE DEF left
  <2>4. new \in [Accounts -> Nat]
    BY <2>1, <2>2
  <2> HIDE DEF new
  <2>5. OwnersType'
    BY <1>2, <2>3, <2>4 DEF transfer_fraction
  <2> QED
    BY <1>2, <2>5 DEF transfer_fraction, Guarded, SplitStays, HaltFreezes,
                      SplitTokensExist, Fractionalized, Exists
<1>3. CASE recombine_fractions(caller, t)
  <2>1. Whole \in Split /\ Nobody \in [Accounts -> Nat]
    BY DEF Whole, Split, Nobody
  <2>2. [token[t] EXCEPT !.user = caller] \in TokenRecord
    BY DEF TokenRecord
  <2>3. OwnersType'
    BY <1>3, <2>1, <2>2 DEF recombine_fractions
  <2>4. /\ split'[t] = Whole /\ token'[t].user = caller
        /\ \A x \in Tokens \ {t} : split'[x] = split[x] /\ token'[x] = token[x]
    BY <1>3 DEF recombine_fractions, TokenRecord
  <2>5. SplitTokensExist'
    BY <2>4 DEF SplitTokensExist, Fractionalized, Exists
  <2>6. SplitStays
    BY <1>3, <2>4 DEF SplitStays, Fractionalized, recombine_fractions
  <2> QED
    BY <1>3, <2>3, <2>5, <2>6 DEF Guarded, HaltFreezes, recombine_fractions
<1>4. ASSUME NEW amount \in Dividends, distribute_fraction_rewards(t, amount)
      PROVE  Guarded
  <2>1. NotPaused /\ UNCHANGED <<token, allowance, split, shares>>
    BY <1>4 DEF distribute_fraction_rewards
  <2> QED
    BY <2>1 DEF Guarded, SplitStays, HaltFreezes, SplitTokensExist, Fractionalized, Exists
<1> QED
  BY <1>1, <1>2, <1>3, <1>4

LEMMA OwnersUnchanged ==
    ASSUME OwnersInv, UNCHANGED owners
    PROVE  Guarded
BY DEF owners, OwnersInv, OwnersType, Guarded, SplitStays, HaltFreezes, SplitTokensExist,
       Fractionalized, Exists

LEMMA OwnersStep ==
    ASSUME OwnersInv, [HT_Next]_HT_vars
    PROVE  Guarded
<1>1. ASSUME NEW caller \in Accounts, HT_Call(caller)
      PROVE  Guarded
  <2>1. PICK t \in Tokens :
      \/ caller = admin /\ \E user \in Accounts : issue_token(t, user)
      \/ \E flag \in BOOLEAN : SetTokenPaused(caller, t, flag)
      \/ \E a \in Accounts :
           \/ transfer_token(caller, t, a)
           \/ revoke_allowance(caller, t, a)
           \/ \E amount \in AllowanceAmounts :
                \/ \E expires \in Times \cup {NoTime} :
                      approve(caller, t, a, amount, expires)
                \/ \E owner \in Accounts : transfer_from(caller, t, owner, a, amount)
           \/ \E amount \in ShareAmounts : transfer_fraction(caller, t, a, amount)
           \/ get_allowance(t, caller, a)
      \/ \E s \in Splits : fractionalize_token(caller, t, s)
      \/ recombine_fractions(caller, t)
      \/ \E amount \in Dividends :
            caller = admin /\ distribute_fraction_rewards(t, amount)
    BY <1>1 DEF HT_Call
  <2>2. CASE \E flag \in BOOLEAN : SetTokenPaused(caller, t, flag)
    BY <2>2, OwnersUnchanged DEF SetTokenPaused
  <2> QED
    BY <2>1, <2>2, OwnStep, DelegateStep, FractionStep
<1>2. ASSUME NEW t \in Tokens, NEW status \in Statuses \ {"absent"},
             StatusChanges(t, status)
      PROVE  Guarded
  <2> DEFINE new == [token[t] EXCEPT !.status = status]
  <2>1. new \in TokenRecord /\ new.status # "absent" /\ new.user = token[t].user
    BY DEF OwnersInv, OwnersType, TokenRecord
  <2>2. token' = [token EXCEPT ![t] = new]
    BY <1>2 DEF StatusChanges
  <2> HIDE DEF new
  <2> QED
    BY <1>2, <2>1, <2>2, TokenStep DEF StatusChanges
<1>3. CASE HubEnvironment /\ UNCHANGED <<owners, tokenPaused, distributed>>
  BY <1>3, OwnersUnchanged
<1>4. CASE UNCHANGED HT_vars
  BY <1>4, OwnersUnchanged DEF HT_vars
<1> QED
  BY <1>1, <1>2, <1>3, <1>4 DEF HT_Next

LEMMA InitOwners == HubInit /\ HT_Init => OwnersInv
BY DEF HT_Init, OwnersInv, OwnersType, SplitTokensExist, Fractionalized, NoToken,
       NoAllowance, Whole, Nobody, TokenRecord, AllowanceRecord, Split, Statuses, Moment

\* A split token changes hands only as a whole and a halt freezes ownership, for any
\* tokens, holders, allowances and fractions (transfer_token, transfer_from,
\* recombine_fractions, require_not_paused).
THEOREM OwnershipIsGuarded == HT_Spec => OwnershipGuarded
<1>1. OwnersInv /\ [HT_Next]_HT_vars => OwnersInv'
  BY OwnersStep DEF Guarded
<1>2. OwnersInv /\ [HT_Next]_HT_vars
      => [\A t \in Tokens :
            Fractionalized(t) /\ token'[t].user # token[t].user =>
                /\ ~Fractionalized(t)'
                /\ shares[t][token'[t].user] = split[t].total]_HT_vars
  BY OwnersStep DEF Guarded, SplitStays
<1>3. OwnersInv /\ [HT_Next]_HT_vars
      => [~NotPaused =>
            /\ UNCHANGED <<split, shares, pending>>
            /\ \A t \in Tokens :
                 /\ token'[t].user = token[t].user
                 /\ \A a, s \in Accounts :
                      allowance'[t][a][s] \in {allowance[t][a][s], NoAllowance}]_HT_vars
  BY OwnersStep DEF Guarded, HaltFreezes
<1> QED
  BY <1>1, <1>2, <1>3, InitOwners, PTL
     DEF HT_Spec, OwnershipGuarded, SplitTokenStays, HaltFreezesOwnership

-----------------------------------------------------------------------------
\* Fractions.  A split divides into whole parts, and the rewards are natural numbers
\* although one holder's share of them is a remainder; so the types come together
\* with the sums.
SplitsDivide ==
    \A t \in Tokens : Fractionalized(t) =>
        /\ split[t].min \in 1..split[t].total
        /\ split[t].total % split[t].min = 0

RewardsType ==
    /\ pending \in [Tokens -> [Accounts -> Nat]]
    /\ distributed \in [Tokens -> Nat]

FractionsInv == OwnersInv /\ RewardsType /\ SplitsDivide /\ FractionsAddUp

LEMMA MultiplesAdd ==
    ASSUME NEW m \in Nat, NEW n \in Nat, NEW d \in Nat \ {0}, m % d = 0, n % d = 0
    PROVE  /\ (m + n) % d = 0
           /\ n <= m => (m - n) % d = 0
<1> DEFINE p == m \div d
           q == n \div d
<1>1. p \in Int /\ q \in Int
  OBVIOUS
<1>2. m = d * p /\ n = d * q
  OBVIOUS
<1> HIDE DEF p, q
<1>3. m + n = d * (p + q) /\ m - n = d * (p - q)
  BY <1>1, <1>2
<1>4. \A k \in Int : (d * k) % d = 0
  OBVIOUS
<1> QED
  BY <1>1, <1>3, <1>4

\* What a holder is due of a reward, rounded down, times the whole is at most the
\* reward times the holder's shares.
LEMMA PortionBound ==
    ASSUME NEW n \in Nat, NEW s \in Nat, NEW total \in Nat \ {0}
    PROVE  /\ (n * s) \div total \in Nat
           /\ total * ((n * s) \div total) <= n * s
           /\ s = 0 => (n * s) \div total = 0
<1>1. n * s \in Nat
  OBVIOUS
<1>2. \A m \in Nat : m \div total \in Nat /\ total * (m \div total) <= m
  OBVIOUS
<1>3. s = 0 => n * s = 0
  OBVIOUS
<1>4. 0 \div total = 0
  OBVIOUS
<1> QED
  BY <1>1, <1>2, <1>3, <1>4

\* Added up over the holders, the rounded shares of a reward never exceed it: the
\* remainder the first holder gets is not negative.
LEMMA PortionsFit ==
    ASSUME FractionsInv, NEW t \in Tokens, Fractionalized(t), NEW n \in Nat
    PROVE  LET part == [a \in Accounts |-> Portion(t, a, n)]
           IN  /\ part \in [Accounts -> Nat]
               /\ SumFunctionOnSet(part, Holders(t)) = SumFunctionOnSet(part, Accounts)
               /\ SumFunctionOnSet(part, Accounts) \in 0..n
<1> DEFINE part == [a \in Accounts |-> Portion(t, a, n)]
           total == split[t].total
           due == [a \in Accounts |-> n * shares[t][a]]
           whole == [a \in Accounts |-> total * part[a]]
<1>1. IsFiniteSet(Accounts) /\ shares[t] \in [Accounts -> Nat]
  BY LedgerAssumption DEF FractionsInv, OwnersInv, OwnersType
<1>2. total \in Nat \ {0}
  BY DEF FractionsInv, SplitsDivide, OwnersInv, OwnersType, Split
<1> HIDE DEF total
<1>3. \A a \in Accounts : /\ part[a] \in Nat
                          /\ total * part[a] <= n * shares[t][a]
                          /\ shares[t][a] = 0 => part[a] = 0
  BY <1>1, <1>2, PortionBound DEF Portion, total
<1>4. SumFunctionOnSet(shares[t], Accounts) = total
  BY DEF FractionsInv, FractionsAddUp, SharesAddUp, AccountSum, total
<1> HIDE DEF part
<1>5. SumFunctionOnSet(due, Accounts) = n * total
  <2>1. \A a \in Accounts : shares[t][a] \in Int /\ due[a] = n * shares[t][a]
    BY <1>1
  <2>2. n \in Int
    OBVIOUS
  <2> HIDE DEF due
  <2> QED
    BY <1>1, <1>4, <2>1, <2>2, SumScale
<1>6. SumFunctionOnSet(whole, Accounts) = total * SumFunctionOnSet(part, Accounts)
  <2>1. \A a \in Accounts : part[a] \in Int /\ whole[a] = total * part[a]
    BY <1>3
  <2>2. total \in Int
    BY <1>2
  <2> HIDE DEF whole
  <2> QED
    BY <1>1, <2>1, <2>2, SumScale
<1>7. SumFunctionOnSet(whole, Accounts) <= SumFunctionOnSet(due, Accounts)
  <2>1. \A a \in Accounts : /\ whole[a] \in Int /\ due[a] \in Int
                            /\ whole[a] <= due[a]
    BY <1>1, <1>2, <1>3
  <2> HIDE DEF whole, due
  <2> QED
    BY <1>1, <2>1, SumMonotone
<1>8. SumFunctionOnSet(part, Accounts) \in Nat
  BY <1>1, <1>3, SumNat
<1>9. SumFunctionOnSet(part, Accounts) <= n
  <2>1. \A m \in Nat : total * m <= n * total => m <= n
    <3> SUFFICES ASSUME NEW m \in Nat, n + 1 <= m
                 PROVE  n * total < total * m
      BY <1>2
    <3>1. total * (n + 1) <= total * m
      BY <1>2
    <3>2. total * (n + 1) = n * total + total
      BY <1>2
    <3> QED
      BY <1>2, <3>1, <3>2
  <2> QED
    BY <1>5, <1>6, <1>7, <1>8, <2>1
<1>10. SumFunctionOnSet(part, Accounts) = SumFunctionOnSet(part, Holders(t))
  <2>1. /\ \A a \in Accounts : part[a] \in Int
        /\ Holders(t) \in SUBSET Accounts
        /\ \A a \in Accounts \ Holders(t) : part[a] = 0
    BY <1>1, <1>3 DEF Holders
  <2> QED
    BY <1>1, <2>1, SumRestrict
<1>11. part \in [Accounts -> Nat]
  BY <1>3 DEF part
<1> QED
  BY <1>8, <1>9, <1>10, <1>11 DEF part

LEMMA FractionsSame ==
    ASSUME FractionsInv, OwnersInv', UNCHANGED <<split, shares, pending, distributed>>
    PROVE  FractionsInv'
BY DEF FractionsInv, RewardsType, SplitsDivide, FractionsAddUp, SharesAddUp,
       DividendsAddUp, AccountSum, Fractionalized

LEMMA SumNobody == AccountSum(Nobody) = 0
<1>1. \A a \in Accounts : Nobody[a] = 0
  BY DEF Nobody
<1> QED
  BY <1>1, LedgerAssumption, SumZero DEF AccountSum

LEMMA SplitAdds ==
    ASSUME FractionsInv, OwnersInv', NEW t \in Tokens, NEW caller \in Accounts,
           NEW s \in Splits, fractionalize_token(caller, t, s)
    PROVE  FractionsInv'
<1> DEFINE new == [Nobody EXCEPT ![caller] = s.total]
<1>1. s.total \in Nat /\ s.min \in 1..s.total /\ s.total % s.min = 0
  BY TokensAssumption DEF fractionalize_token
<1>2. /\ split' = [split EXCEPT ![t] = s]
      /\ shares' = [shares EXCEPT ![t] = new]
      /\ UNCHANGED <<pending, distributed>>
  BY DEF fractionalize_token
<1>3. /\ split'[t] = s /\ shares'[t] = new
      /\ \A x \in Tokens \ {t} : split'[x] = split[x] /\ shares'[x] = shares[x]
  BY <1>2 DEF FractionsInv, OwnersInv, OwnersType
<1>4. /\ Nobody \in [Accounts -> Nat] /\ new[caller] = s.total
      /\ \A a \in Accounts \ {caller} : new[a] = Nobody[a]
      /\ \A a \in Accounts : Nobody[a] = 0
  BY DEF Nobody
<1> HIDE DEF new
<1>5. AccountSum(new) = s.total
  <2>1. SumFunctionOnSet(new, Accounts)
            = SumFunctionOnSet(Nobody, Accounts) - Nobody[caller] + new[caller]
    <3>1. /\ IsFiniteSet(Accounts) /\ new[caller] \in Int
          /\ \A a \in Accounts : Nobody[a] \in Int
          /\ \A a \in Accounts \ {caller} : new[a] = Nobody[a]
      BY <1>1, <1>4, LedgerAssumption
    <3> QED
      BY <3>1, SumChange
  <2> QED
    BY <1>1, <1>4, <2>1, SumNobody DEF AccountSum
<1>6. \A a \in Accounts : new[a] % s.min = 0
  BY <1>1, <1>4
<1>7. SharesAddUp'
  BY <1>3, <1>5, <1>6
     DEF SharesAddUp, FractionsInv, FractionsAddUp, Fractionalized, AccountSum
<1>8. SplitsDivide'
  BY <1>1, <1>3 DEF SplitsDivide, FractionsInv, Fractionalized
<1> QED
  BY <1>2, <1>7, <1>8
     DEF FractionsInv, RewardsType, FractionsAddUp, DividendsAddUp, AccountSum

LEMMA TransferAdds ==
    ASSUME FractionsInv, OwnersInv', NEW t \in Tokens, NEW from \in Accounts,
           NEW to \in Accounts, NEW n \in ShareAmounts,
           transfer_fraction(from, t, to, n)
    PROVE  FractionsInv'
<1> DEFINE kept == [shares[t] EXCEPT ![from] = @ - n]
           new == [kept EXCEPT ![to] = @ + n]
           d == split[t].min
<1>1. /\ n \in Nat /\ shares[t] \in [Accounts -> Nat] /\ n <= shares[t][from]
      /\ n % d = 0 /\ Fractionalized(t)
      /\ UNCHANGED <<split, pending, distributed>>
  BY TokensAssumption DEF transfer_fraction, FractionsInv, OwnersInv, OwnersType
<1>2. d \in Nat \ {0} /\ \A a \in Accounts : shares[t][a] % d = 0
  BY <1>1 DEF FractionsInv, SplitsDivide, FractionsAddUp, SharesAddUp, OwnersInv,
              OwnersType, Split
<1>3. shares' = [shares EXCEPT ![t] = new]
  BY DEF transfer_fraction
<1>4. /\ kept \in [Accounts -> Nat] /\ kept[from] = shares[t][from] - n
      /\ \A a \in Accounts \ {from} : kept[a] = shares[t][a]
  BY <1>1
<1> HIDE DEF kept, d
<1>5. /\ new \in [Accounts -> Nat] /\ new[to] = kept[to] + n
      /\ \A a \in Accounts \ {to} : new[a] = kept[a]
  BY <1>1, <1>4
<1> HIDE DEF new
<1>6. AccountSum(new) = AccountSum(shares[t])
  <2>1. SumFunctionOnSet(kept, Accounts)
            = SumFunctionOnSet(shares[t], Accounts) - shares[t][from] + kept[from]
    BY <1>1, <1>4, LedgerAssumption, SumChange
  <2>2. SumFunctionOnSet(new, Accounts)
            = SumFunctionOnSet(kept, Accounts) - kept[to] + new[to]
    BY <1>4, <1>5, LedgerAssumption, SumChange
  <2>3. SumFunctionOnSet(shares[t], Accounts) \in Nat
    BY <1>1, LedgerAssumption, SumNat
  <2>4. kept[to] \in Nat /\ shares[t][from] \in Nat
    BY <1>1, <1>4
  <2> QED
    BY <1>1, <1>4, <1>5, <2>1, <2>2, <2>3, <2>4 DEF AccountSum
<1>7. \A a \in Accounts : new[a] % d = 0
  <2>1. (shares[t][from] - n) % d = 0
    <3>1. shares[t][from] \in Nat /\ shares[t][from] % d = 0
      BY <1>1, <1>2
    <3> QED
      BY <1>1, <1>2, <3>1, MultiplesAdd
  <2>2. \A a \in Accounts : kept[a] % d = 0
    BY <1>2, <1>4, <2>1
  <2>3. (kept[to] + n) % d = 0
    <3>1. kept[to] \in Nat /\ kept[to] % d = 0
      BY <1>4, <2>2
    <3> QED
      BY <1>1, <1>2, <3>1, MultiplesAdd
  <2> QED
    BY <1>5, <2>2, <2>3
<1>8. /\ shares'[t] = new
      /\ \A x \in Tokens \ {t} : shares'[x] = shares[x]
  BY <1>3 DEF FractionsInv, OwnersInv, OwnersType
<1>9. SharesAddUp'
  BY <1>1, <1>6, <1>7, <1>8
     DEF SharesAddUp, FractionsInv, FractionsAddUp, Fractionalized, AccountSum, d
<1> QED
  BY <1>1, <1>9 DEF FractionsInv, RewardsType, FractionsAddUp, DividendsAddUp,
                    AccountSum, SplitsDivide, Fractionalized

LEMMA RecombineAdds ==
    ASSUME FractionsInv, OwnersInv', NEW t \in Tokens, NEW caller \in Accounts,
           recombine_fractions(caller, t)
    PROVE  FractionsInv'
<1>1. /\ split' = [split EXCEPT ![t] = Whole]
      /\ shares' = [shares EXCEPT ![t] = Nobody]
      /\ pending' = [pending EXCEPT ![t] = Nobody]
      /\ distributed' = [distributed EXCEPT ![t] = 0]
  BY DEF recombine_fractions
<1>2. /\ split'[t] = Whole /\ shares'[t] = Nobody
      /\ pending'[t] = Nobody /\ distributed'[t] = 0
      /\ \A x \in Tokens \ {t} : /\ split'[x] = split[x] /\ shares'[x] = shares[x]
                                 /\ pending'[x] = pending[x]
                                 /\ distributed'[x] = distributed[x]
  BY <1>1 DEF FractionsInv, OwnersInv, OwnersType, RewardsType
<1>3. Nobody \in [Accounts -> Nat] /\ Whole.total = 0
  BY DEF Nobody, Whole
<1>4. SharesAddUp'
  BY <1>2, <1>3, SumNobody
     DEF SharesAddUp, FractionsInv, FractionsAddUp, Fractionalized, AccountSum
<1>5. DividendsAddUp'
  BY <1>2, SumNobody DEF DividendsAddUp, FractionsInv, FractionsAddUp, AccountSum
<1>6. SplitsDivide'
  BY <1>2 DEF SplitsDivide, FractionsInv, Fractionalized
<1>7. RewardsType'
  BY <1>1, <1>3 DEF FractionsInv, RewardsType
<1> QED
  BY <1>4, <1>5, <1>6, <1>7 DEF FractionsInv, FractionsAddUp

LEMMA DividendAdds ==
    ASSUME FractionsInv, OwnersInv', NEW t \in Tokens, NEW n \in Dividends,
           distribute_fraction_rewards(t, n)
    PROVE  FractionsInv'
<1> DEFINE part == [a \in Accounts |-> Portion(t, a, n)]
           rest == n - SumFunctionOnSet(part, Holders(t))
           old == pending[t]
<1>1. /\ Fractionalized(t) /\ n \in Nat
      /\ distributed' = [distributed EXCEPT ![t] = @ + n]
      /\ UNCHANGED <<split, shares>>
  BY TokensAssumption DEF distribute_fraction_rewards
<1>2. PICK first \in Holders(t) :
         pending' = [pending EXCEPT ![t] =
             [a \in Accounts |-> @[a] + part[a] + (IF a = first THEN rest ELSE 0)]]
  BY DEF distribute_fraction_rewards
<1>3. /\ part \in [Accounts -> Nat]
      /\ SumFunctionOnSet(part, Holders(t)) = SumFunctionOnSet(part, Accounts)
      /\ SumFunctionOnSet(part, Accounts) \in 0..n
  BY <1>1, PortionsFit
<1> HIDE DEF part
<1>4. rest \in Nat /\ rest = n - SumFunctionOnSet(part, Accounts)
  BY <1>1, <1>3
<1>5. old \in [Accounts -> Nat] /\ distributed \in [Tokens -> Nat]
      /\ pending \in [Tokens -> [Accounts -> Nat]]
  BY DEF FractionsInv, RewardsType
<1> HIDE DEF rest
<1> DEFINE both == [a \in Accounts |-> old[a] + part[a]]
           new == [a \in Accounts |-> old[a] + part[a]
                                      + (IF a = first THEN rest ELSE 0)]
<1>6. first \in Accounts
  BY DEF Holders
<1>7. /\ both \in [Accounts -> Nat] /\ new \in [Accounts -> Nat]
      /\ new[first] = both[first] + rest
      /\ \A a \in Accounts \ {first} : new[a] = both[a]
      /\ \A a \in Accounts : both[a] = old[a] + part[a]
  BY <1>3, <1>4, <1>5, <1>6
<1>8. pending' = [pending EXCEPT ![t] = new]
  BY <1>2
<1> HIDE DEF both, new
<1>9. SumFunctionOnSet(both, Accounts)
          = SumFunctionOnSet(old, Accounts) + SumFunctionOnSet(part, Accounts)
  BY <1>3, <1>5, <1>7, LedgerAssumption, SumPlus
<1>10. SumFunctionOnSet(new, Accounts)
          = SumFunctionOnSet(both, Accounts) - both[first] + new[first]
  BY <1>6, <1>7, LedgerAssumption, SumChange
<1>11. SumFunctionOnSet(old, Accounts) = distributed[t]
  BY DEF FractionsInv, FractionsAddUp, DividendsAddUp, AccountSum
<1>12. SumFunctionOnSet(new, Accounts) = distributed[t] + n
  <2>1. both[first] \in Nat /\ distributed[t] \in Nat
    BY <1>5, <1>6, <1>7
  <2> QED
    BY <1>1, <1>3, <1>4, <1>7, <1>9, <1>10, <1>11, <2>1
<1>13. /\ pending'[t] = new /\ distributed'[t] = distributed[t] + n
       /\ \A x \in Tokens \ {t} : pending'[x] = pending[x]
                                  /\ distributed'[x] = distributed[x]
  BY <1>1, <1>5, <1>8
<1>14. DividendsAddUp'
  BY <1>12, <1>13 DEF DividendsAddUp, FractionsInv, FractionsAddUp, AccountSum
<1>15. RewardsType'
  BY <1>1, <1>5, <1>7, <1>8 DEF RewardsType
<1> QED
  BY <1>1, <1>14, <1>15 DEF FractionsInv, FractionsAddUp, SharesAddUp, SplitsDivide,
                            AccountSum, Fractionalized

LEMMA NextFractions ==
    ASSUME FractionsInv, [HT_Next]_HT_vars
    PROVE  FractionsInv'
<1>1. OwnersInv'
  BY OwnersStep DEF Guarded, FractionsInv
<1>2. ASSUME NEW caller \in Accounts, HT_Call(caller)
      PROVE  FractionsInv'
  <2>1. PICK t \in Tokens :
           \/ UNCHANGED <<split, shares, pending, distributed>>
           \/ \E a \in Accounts, n \in ShareAmounts : transfer_fraction(caller, t, a, n)
           \/ \E s \in Splits : fractionalize_token(caller, t, s)
           \/ recombine_fractions(caller, t)
           \/ \E n \in Dividends : distribute_fraction_rewards(t, n)
    BY <1>2 DEF HT_Call, issue_token, SetTokenPaused, transfer_token, revoke_allowance,
                approve, transfer_from, get_allowance, owners
  <2> QED
    BY <1>1, <2>1, FractionsSame, SplitAdds, TransferAdds, RecombineAdds, DividendAdds
<1>3. ASSUME NEW t \in Tokens, NEW status \in Statuses \ {"absent"},
             StatusChanges(t, status)
      PROVE  FractionsInv'
  BY <1>1, <1>3, FractionsSame DEF StatusChanges
<1>4. CASE UNCHANGED <<owners, distributed>>
  BY <1>1, <1>4, FractionsSame DEF owners
<1> QED
  BY <1>2, <1>3, <1>4 DEF HT_Next, HT_vars

LEMMA InitFractions == HubInit /\ HT_Init => FractionsInv
<1> SUFFICES ASSUME HubInit, HT_Init PROVE FractionsInv
  OBVIOUS
<1>1. OwnersInv
  BY InitOwners
<1>2. \A t \in Tokens : /\ split[t] = Whole /\ shares[t] = Nobody
                        /\ pending[t] = Nobody /\ distributed[t] = 0
  BY DEF HT_Init
<1>3. RewardsType
  BY DEF HT_Init, RewardsType, Nobody
<1>4. Whole.total = 0
  BY DEF Whole
<1>5. SharesAddUp /\ DividendsAddUp
  BY <1>2, <1>4, SumNobody DEF SharesAddUp, DividendsAddUp, Fractionalized
<1> QED
  BY <1>1, <1>2, <1>3, <1>5 DEF FractionsInv, FractionsAddUp, SplitsDivide, Fractionalized

\* A split token's shares always add up to the whole in whole fractions, and every
\* reward distributed is owed to some holder, to the last unit, for any holders,
\* trades, splits and rewards.
THEOREM FractionsAlwaysAddUp == HT_Spec => []FractionsAddUp
<1>1. FractionsInv => FractionsAddUp
  BY DEF FractionsInv
<1>2. FractionsInv /\ [HT_Next]_HT_vars => FractionsInv'
  BY NextFractions
<1> QED
  BY <1>1, <1>2, InitFractions, PTL DEF HT_Spec

-----------------------------------------------------------------------------
IndexInv ==
    /\ metadata \in [Tokens -> [version : Nat, attributes : Attributes]]
    /\ index \in [Keys -> [Values -> SUBSET Tokens]]
    /\ IndexAgrees

\* What the three calls share: the given keys of the given tokens are indexed anew,
\* and the other attributes of these tokens stay.
LEMMA IndexStep ==
    ASSUME IndexInv, NEW ids \in SUBSET Tokens, NEW keys \in SUBSET Keys,
           NEW new, \A t \in ids : new[t] \in Attributes,
           \A t \in ids, k \in Keys \ keys : new[t][k] = metadata[t].attributes[k],
           index' = Reindexed(ids, keys, new), Written(ids, new)
    PROVE  IndexInv'
<1> USE DEF IndexInv
<1>1. ASSUME NEW t \in ids
      PROVE  /\ metadata'[t] \in [version : Nat, attributes : Attributes]
             /\ metadata'[t].attributes = new[t]
  BY DEF Written
<1>2. ASSUME NEW t \in Tokens \ ids
      PROVE  metadata'[t] = metadata[t]
  BY DEF Written
<1>3. metadata' \in [Tokens -> [version : Nat, attributes : Attributes]]
  BY <1>1, <1>2 DEF Written
<1>4. index' \in [Keys -> [Values -> SUBSET Tokens]]
  BY DEF Reindexed
<1>5. ASSUME NEW k \in Keys, NEW v \in Values, NEW t \in Tokens
      PROVE  t \in index'[k][v] <=> metadata'[t].attributes[k] = v
  <2>1. t \in index'[k][v] <=>
           \/ t \in ids /\ k \in keys /\ new[t][k] = v
           \/ /\ t \in index[k][v]
              /\ t \in ids /\ k \in keys => metadata[t].attributes[k] # v
    BY DEF Reindexed
  <2>2. t \in index[k][v] <=> metadata[t].attributes[k] = v
    BY DEF IndexAgrees
  <2> QED
    BY <2>1, <2>2, <1>1, <1>2
<1>6. IndexAgrees'
  BY <1>4, <1>5 DEF IndexAgrees
<1> QED
  BY <1>3, <1>4, <1>6

LEMMA InitIndex == HD_Init => IndexInv
BY MetadataAssumption DEF HD_Init, IndexInv, IndexAgrees, NoMetadata, Attributes

LEMMA NextIndex ==
    ASSUME IndexInv, [HD_Next]_HD_vars
    PROVE  IndexInv'
<1>1. ASSUME NEW ids \in SUBSET Tokens, NEW attributes \in Attributes,
             set_token_metadata(ids, attributes)
      PROVE  IndexInv'
  <2> DEFINE new == [t \in ids |-> attributes]
  <2>1. index' = Reindexed(ids, Keys, new) /\ Written(ids, new)
    BY <1>1 DEF set_token_metadata
  <2>2. \A t \in ids : new[t] \in Attributes
    OBVIOUS
  <2> HIDE DEF new
  <2> QED
    BY <2>1, <2>2, IndexStep
<1>2. ASSUME NEW t \in Tokens, NEW updates \in Attributes,
             update_token_metadata(t, updates)
      PROVE  IndexInv'
  <2> DEFINE keys == {k \in Keys : updates[k] # NoValue}
             new == [x \in {t} |-> [k \in Keys |->
                       IF k \in keys THEN updates[k] ELSE metadata[t].attributes[k]]]
  <2>1. index' = Reindexed({t}, keys, new) /\ Written({t}, new)
    BY <1>2 DEF update_token_metadata
  <2>2. metadata[t].attributes \in Attributes
    BY DEF IndexInv
  <2>3. new[t] \in Attributes
    BY <2>2 DEF Attributes
  <2>4. \A k \in Keys \ keys : new[t][k] = metadata[t].attributes[k]
    OBVIOUS
  <2>5. keys \in SUBSET Keys
    OBVIOUS
  <2> HIDE DEF new, keys
  <2> QED
    BY <2>1, <2>3, <2>4, <2>5, IndexStep
<1>3. ASSUME NEW t \in Tokens, NEW keys \in SUBSET Keys,
             remove_metadata_attributes(t, keys)
      PROVE  IndexInv'
  <2> DEFINE new == [x \in {t} |-> [k \in Keys |->
                       IF k \in keys THEN NoValue ELSE metadata[t].attributes[k]]]
  <2>1. index' = Reindexed({t}, keys, new) /\ Written({t}, new)
    BY <1>3 DEF remove_metadata_attributes
  <2>2. metadata[t].attributes \in Attributes
    BY DEF IndexInv
  <2>3. new[t] \in Attributes
    BY <2>2 DEF Attributes
  <2>4. \A k \in Keys \ keys : new[t][k] = metadata[t].attributes[k]
    OBVIOUS
  <2> HIDE DEF new
  <2> QED
    BY <2>1, <2>3, <2>4, IndexStep
<1>4. CASE UNCHANGED HD_state
  BY <1>4 DEF HD_state, IndexInv, IndexAgrees
<1> QED
  BY <1>1, <1>2, <1>3, <1>4 DEF HD_Next, HD_Call, HD_vars

\* A query by attribute finds exactly the tokens that have it, for any keys, values and
\* tokens (remove_from_metadata_index, add_to_metadata_index).
THEOREM IndexIsExact == HD_Spec => []IndexAgrees
<1>1. IndexInv /\ [HD_Next]_HD_vars => IndexInv'
  BY NextIndex
<1>2. IndexInv => IndexAgrees
  BY DEF IndexInv
<1> QED
  BY <1>1, <1>2, InitIndex, PTL DEF HD_Spec

-----------------------------------------------------------------------------
(* Memberships: renewals, upgrades and rollbacks.                         *)

SnapshotsBelow ==
    \A t \in Tokens, v \in 0..MaxVersion :
        snapshot[t][v] # NoFields => /\ v < member[t].version
                                     /\ snapshot[t][v].status # "absent"

\* An id without a token has no versions yet.
UnissuedAreNew == \A t \in Tokens : ~Issued(t) => member[t].version = 0

MembershipInv == HubType /\ HM_Type /\ SnapshotsBelow /\ UnissuedAreNew

\* The administrator and the halt keep their types, and time only grows.
LEMMA HubStep ==
    ASSUME HubType, HubEnvironment
    PROVE  HubType'
<1> USE LedgerAssumption DEF HubType, LedgerType
<1>1. ASSUME NEW caller \in Accounts, set_admin(caller)
      PROVE  HubType'
  BY <1>1 DEF set_admin
<1>2. ASSUME NEW caller \in Accounts, emergency_pause(caller, NoTime, NoTime)
      PROVE  HubType'
  BY <1>2 DEF emergency_pause, After, Moment, NoTime, ledger
<1>3. ASSUME NEW caller \in Accounts, emergency_unpause(caller)
      PROVE  HubType'
  BY <1>3 DEF emergency_unpause, Running, Moment, NoTime, ledger
<1>4. CASE HubTick
  BY <1>4 DEF HubTick, LedgerCloses, Times
<1> QED
  BY <1>1, <1>2, <1>3, <1>4 DEF HubEnvironment, HubGovernance

\* The fields an upgrade computes are fields.
LEMMA MigratedType ==
    ASSUME NEW fields \in Fields, NEW expiry \in GivenDates \cup {NoTime},
           NEW tier \in BOOLEAN, NEW status \in GivenStatuses \cup {"absent"}
    PROVE  Migrated(fields, expiry, tier, status) \in Fields
<1>1. GivenDates \subseteq Nat
  BY MembershipAssumption
<1>2. (IF expiry = NoTime THEN fields.expiry ELSE expiry) \in Nat
  BY <1>1 DEF Fields
<1>3. GivenStatuses \subseteq Membership
  BY MembershipAssumption DEF Membership
<1>4. (IF status = "absent" THEN fields.status ELSE status) \in Membership
  BY <1>3 DEF Fields
<1>5. (fields.tier \/ tier) \in BOOLEAN
  BY DEF Fields
<1> QED
  BY <1>2, <1>4, <1>5 DEF Migrated, Fields

\* A later of two numbers is one of them and not below either.
LEMMA LaterIs ==
    ASSUME NEW m \in Nat, NEW n \in Nat
    PROVE  Later(m, n) \in Nat /\ Later(m, n) >= m /\ Later(m, n) >= n
BY DEF Later

\* Issue, change of owner, renewal and grace change one token and leave versions and
\* snapshots alone; what they do to its expiry is what RenewalsExtend allows.
Extends(t) ==
    /\ Issued(t) /\ member'[t].version = member[t].version
    /\ member'[t].is.expiry # member[t].is.expiry
    => /\ member'[t].is.expiry >= Later(member[t].is.expiry, now) + Month
       /\ member'[t].is.status = "active"

Lives(t) ==
    /\ \E new \in Token :
          /\ member' = [member EXCEPT ![t] = new]
          /\ new.version = member[t].version /\ new.is.status # "absent"
    /\ Extends(t)
    /\ UNCHANGED <<renewals, auto, upgrades, snapshot, history>>

LEMMA IssueStep ==
    ASSUME MembershipInv, NEW t \in Tokens, NEW user \in Accounts,
           NEW expiry \in GivenDates, issue_membership(t, user, expiry)
    PROVE  Lives(t)
<1> DEFINE new == [Unissued EXCEPT !.is = [status |-> "active", expiry |-> expiry,
                                           tier |-> FALSE], !.user = user]
<1>0. expiry \in Nat
  BY MembershipAssumption
<1>1. new \in Token /\ new.version = 0 /\ new.is.status # "absent"
  <2>1. [status |-> "active", expiry |-> expiry, tier |-> FALSE] \in Fields
    BY <1>0 DEF Fields, Membership
  <2>2. Unissued \in Token /\ Unissued.version = 0
    BY DEF Unissued, NoFields, Token, Fields, Membership, Moment
  <2> QED
    BY <2>1, <2>2 DEF Token
<1>2. member' = [member EXCEPT ![t] = new]
  BY DEF issue_membership
<1>3. member[t].version = 0 /\ ~Issued(t)
  BY DEF MembershipInv, UnissuedAreNew, issue_membership
<1> QED
  BY <1>1, <1>2, <1>3 DEF Lives, Extends, issue_membership

LEMMA OwnerStep ==
    ASSUME MembershipInv, NEW t \in Tokens, NEW user \in Accounts, OwnerChanges(t, user)
    PROVE  Lives(t)
<1> DEFINE new == [member[t] EXCEPT !.user = user]
<1>1. member[t] \in Token
  BY DEF MembershipInv, HM_Type
<1>2. new \in Token /\ new.version = member[t].version /\ new.is = member[t].is
  BY <1>1 DEF Token
<1>3. member' = [member EXCEPT ![t] = new]
  BY DEF OwnerChanges
<1>4. member'[t].is = member[t].is
  BY <1>2, <1>3 DEF MembershipInv, HM_Type
<1> QED
  BY <1>2, <1>3, <1>4 DEF Lives, Extends, OwnerChanges, Issued

LEMMA RenewedStep ==
    ASSUME MembershipInv, NEW t \in Tokens, NEW cycle \in {Month, Annual},
           renew_token(t, cycle)
    PROVE  Lives(t)
<1> DEFINE expiry == Later(member[t].is.expiry, now) + cycle
           new == Renewed(member[t], expiry)
<1>1. member[t] \in Token /\ member[t].is.expiry \in Nat /\ now \in Nat
  BY LedgerAssumption DEF MembershipInv, HM_Type, Token, Fields, HubType, LedgerType,
                          Times
<1>2. Later(member[t].is.expiry, now) \in Nat
  BY <1>1, LaterIs
<1>3. expiry \in Nat /\ expiry >= Later(member[t].is.expiry, now) + Month
  BY <1>2, MembershipAssumption
<1>4. new \in Token /\ new.version = member[t].version
      /\ new.is = [status |-> "active", expiry |-> expiry, tier |-> TRUE]
  BY <1>1, <1>3 DEF Renewed, Token, Fields, Membership, Moment, NoTime
<1>5. member' = [member EXCEPT ![t] = new]
  BY DEF renew_token
<1>6. member'[t] = new
  BY <1>5 DEF MembershipInv, HM_Type
<1>7. new.is.status = "active" /\ new.is.expiry = expiry
  BY <1>4
<1>8. Extends(t)
  BY <1>3, <1>6, <1>7 DEF Extends
<1> QED
  BY <1>4, <1>5, <1>7, <1>8 DEF Lives, renew_token

LEMMA GraceStep ==
    ASSUME MembershipInv, NEW t \in Tokens, check_and_apply_grace_period(t)
    PROVE  Lives(t)
<1> DEFINE new == [member[t] EXCEPT !.is.status = "grace", !.grace = now + renewals.grace]
<1>1. member[t] \in Token /\ now \in Nat /\ renewals.grace \in Nat
  BY LedgerAssumption, MembershipAssumption
     DEF MembershipInv, HM_Type, HubType, LedgerType, Times
<1>2. new \in Token /\ new.version = member[t].version /\ new.is.status = "grace"
      /\ new.is.expiry = member[t].is.expiry
  <2> DEFINE inner == [member[t].is EXCEPT !.status = "grace"]
  <2>1. now + renewals.grace \in Moment
    BY <1>1 DEF Moment
  <2>2. inner \in Fields /\ inner.status = "grace" /\ inner.expiry = member[t].is.expiry
    BY <1>1 DEF Token, Fields, Membership
  <2> HIDE DEF inner
  <2>3. [member[t] EXCEPT !.is = inner, !.grace = now + renewals.grace] \in Token
    BY <1>1, <2>1, <2>2 DEF Token
  <2>4. new = [member[t] EXCEPT !.is = inner, !.grace = now + renewals.grace]
    BY <1>1 DEF inner
  <2> HIDE DEF new
  <2> QED
    BY <1>1, <2>2, <2>3, <2>4 DEF Token
<1>3. member' = [member EXCEPT ![t] = new]
  BY DEF check_and_apply_grace_period
<1>4. member'[t] = new
  BY <1>3 DEF MembershipInv, HM_Type
<1> QED
  BY <1>2, <1>3, <1>4 DEF Lives, Extends, check_and_apply_grace_period

LEMMA AutoRenewalStep ==
    ASSUME MembershipInv, NEW t \in Tokens, process_auto_renewal(t)
    PROVE  Lives(t)
<1> DEFINE new == [member[t] EXCEPT !.is.expiry = @ + Month]
<1>1. member[t] \in Token /\ now \in Nat /\ Month \in Nat
  BY LedgerAssumption, MembershipAssumption
     DEF MembershipInv, HM_Type, HubType, LedgerType, Times
<1>2. now < member[t].is.expiry /\ member[t].is.status = "active"
  BY DEF process_auto_renewal, check_auto_renewal_eligibility
<1>3. new \in Token /\ new.version = member[t].version /\ new.is.status = "active"
      /\ new.is.expiry = member[t].is.expiry + Month
  BY <1>1, <1>2 DEF Token, Fields, Membership
<1>4. member' = [member EXCEPT ![t] = new]
  BY DEF process_auto_renewal
<1>5. member'[t] = new
  BY <1>4 DEF MembershipInv, HM_Type
<1>6. Later(member[t].is.expiry, now) = member[t].is.expiry
  BY <1>1, <1>2 DEF Later, Token, Fields
<1>7. new.is.expiry >= member[t].is.expiry + Month
  BY <1>1, <1>3 DEF Token, Fields
<1> QED
  BY <1>3, <1>4, <1>5, <1>6, <1>7 DEF Lives, Extends, process_auto_renewal

-----------------------------------------------------------------------------
\* What every step does to all tokens at once.
Keeps ==
    /\ HM_Type' /\ SnapshotsBelow' /\ UnissuedAreNew'
    /\ \A t \in Tokens, v \in 0..MaxVersion :
          snapshot[t][v] # NoFields => snapshot'[t][v] = snapshot[t][v]
    /\ \A t \in Tokens : Extends(t)

LEMMA LifeKeeps ==
    ASSUME MembershipInv, NEW t \in Tokens, Lives(t)
    PROVE  Keeps
<1> USE DEF MembershipInv, HM_Type
<1>1. PICK new \in Token : /\ member' = [member EXCEPT ![t] = new]
                           /\ new.version = member[t].version
                           /\ new.is.status # "absent"
  BY DEF Lives
<1>2. member' \in [Tokens -> Token] /\ member'[t] = new
  BY <1>1
<1>3. \A x \in Tokens \ {t} : member'[x] = member[x]
  BY <1>1
<1>4. \A x \in Tokens : member'[x].version = member[x].version
  BY <1>1, <1>2, <1>3
<1>5. HM_Type'
  BY <1>2 DEF Lives
<1>6. SnapshotsBelow'
  BY <1>4 DEF SnapshotsBelow, Lives
<1>7. UnissuedAreNew'
  BY <1>1, <1>2, <1>3, <1>4 DEF UnissuedAreNew, Issued
<1>8. \A x \in Tokens : Extends(x)
  BY <1>3 DEF Extends, Lives
<1> QED
  BY <1>5, <1>6, <1>7, <1>8 DEF Keeps, Lives

\* Upgrades and rollbacks: each token of "done" gets a version with the given fields,
\* and what it was is stored under the version it had.
Versioned(done, fields) ==
    /\ \A t \in done : /\ Issued(t) /\ member[t].version < MaxVersion
                       /\ fields[t] \in Fields /\ fields[t].status # "absent"
    /\ snapshot' = [t \in Tokens |-> IF t \in done
            THEN [snapshot[t] EXCEPT ![member[t].version] = member[t].is]
            ELSE snapshot[t]]
    /\ member' = [t \in Tokens |-> IF t \in done
            THEN [member[t] EXCEPT !.is = fields[t], !.version = @ + 1]
            ELSE member[t]]
    /\ history' \in [Tokens -> Seq(BOOLEAN)]
    /\ UNCHANGED <<renewals, auto, upgrades>>

LEMMA VersionKeeps ==
    ASSUME MembershipInv, NEW done \in SUBSET Tokens, NEW fields, Versioned(done, fields)
    PROVE  Keeps
<1> DEFINE raised(t) == [member[t] EXCEPT !.is = fields[t], !.version = @ + 1]
           stored(t) == [snapshot[t] EXCEPT ![member[t].version] = member[t].is]
<1>m. MaxVersion \in Nat
  BY MembershipAssumption
<1>t. /\ member \in [Tokens -> Token]
      /\ snapshot \in [Tokens -> [0..MaxVersion -> Fields]]
  BY DEF MembershipInv, HM_Type
<1>0. ASSUME NEW t \in done
      PROVE  /\ member[t].version \in Nat /\ member[t].version < MaxVersion
             /\ member[t].version \in 0..MaxVersion
             /\ member[t].is \in Fields /\ member[t].is.status # "absent"
             /\ fields[t] \in Fields /\ fields[t].status # "absent"
  <2>1. member[t] \in Token
    BY <1>t
  <2>2. member[t].version \in Nat /\ member[t].is \in Fields
    BY <2>1 DEF Token
  <2>3. member[t].version < MaxVersion /\ member[t].is.status # "absent"
        /\ fields[t] \in Fields /\ fields[t].status # "absent"
    BY DEF Versioned, Issued
  <2> QED
    BY <2>2, <2>3, <1>m
<1>1. ASSUME NEW t \in done
      PROVE  /\ member'[t] \in Token /\ member'[t].is = fields[t]
             /\ member'[t].version = member[t].version + 1
             /\ snapshot'[t] = stored(t)
             /\ snapshot'[t] \in [0..MaxVersion -> Fields]
  <2>1. member[t] \in Token /\ snapshot[t] \in [0..MaxVersion -> Fields]
    BY <1>t
  <2>2. fields[t] \in Fields /\ member[t].version + 1 \in Nat
    BY <1>0
  <2>3. raised(t) \in Token /\ raised(t).is = fields[t]
        /\ raised(t).version = member[t].version + 1
    BY <2>1, <2>2 DEF Token
  <2>4. member'[t] = raised(t)
    BY DEF Versioned
  <2>5. snapshot'[t] = stored(t)
    BY DEF Versioned
  <2>6. stored(t) \in [0..MaxVersion -> Fields]
    BY <2>1, <1>0
  <2> HIDE DEF raised, stored
  <2> QED
    BY <2>3, <2>4, <2>5, <2>6
<1>2. ASSUME NEW t \in Tokens \ done
      PROVE  member'[t] = member[t] /\ snapshot'[t] = snapshot[t]
  BY DEF Versioned
<1>3. ASSUME NEW t \in done, NEW v \in 0..MaxVersion
      PROVE  snapshot'[t][v] = IF v = member[t].version THEN member[t].is
                                                        ELSE snapshot[t][v]
  <2>1. snapshot[t] \in [0..MaxVersion -> Fields]
    BY <1>t
  <2>2. member[t].version \in 0..MaxVersion
    BY <1>0
  <2>3. stored(t)[v] = IF v = member[t].version THEN member[t].is ELSE snapshot[t][v]
    BY <2>1, <2>2
  <2>4. snapshot'[t] = stored(t)
    BY <1>1
  <2> HIDE DEF stored
  <2> QED
    BY <2>3, <2>4
<1> HIDE DEF raised, stored
<1>4. HM_Type'
  <2>1. member' \in [Tokens -> Token]
    BY <1>1, <1>2, <1>t DEF Versioned
  <2>2. snapshot' \in [Tokens -> [0..MaxVersion -> Fields]]
    BY <1>1, <1>2, <1>t DEF Versioned
  <2> QED
    BY <2>1, <2>2 DEF Versioned, MembershipInv, HM_Type
<1>5. \A t \in Tokens, v \in 0..MaxVersion :
         snapshot[t][v] # NoFields => v < member[t].version /\ snapshot[t][v].status # "absent"
  BY DEF MembershipInv, SnapshotsBelow
<1>6. SnapshotsBelow'
  <2> SUFFICES ASSUME NEW t \in Tokens, NEW v \in 0..MaxVersion,
                      snapshot'[t][v] # NoFields
               PROVE  v < member'[t].version /\ snapshot'[t][v].status # "absent"
    BY DEF SnapshotsBelow
  <2>1. CASE t \in done /\ v = member[t].version
    <3>1. snapshot'[t][v] = member[t].is
      BY <2>1, <1>3
    <3>2. member[t].version \in Nat /\ member'[t].version = member[t].version + 1
      BY <2>1, <1>0, <1>1
    <3> QED
      BY <2>1, <3>1, <3>2, <1>0
  <2>2. CASE t \in done /\ v # member[t].version
    <3>1. snapshot'[t][v] = snapshot[t][v]
      BY <2>2, <1>3
    <3>2. v < member[t].version /\ snapshot[t][v].status # "absent"
      BY <3>1, <1>5
    <3>3. member[t].version \in Nat /\ member'[t].version = member[t].version + 1
      BY <2>2, <1>0, <1>1
    <3> QED
      BY <3>1, <3>2, <3>3
  <2>3. CASE t \notin done
    BY <2>3, <1>2, <1>5
  <2> QED
    BY <2>1, <2>2, <2>3
<1>7. UnissuedAreNew'
  <2> SUFFICES ASSUME NEW t \in Tokens, member'[t].is.status = "absent"
               PROVE  member'[t].version = 0
    BY DEF UnissuedAreNew, Issued
  <2>1. t \notin done
    BY <1>0, <1>1
  <2> QED
    BY <2>1, <1>2 DEF MembershipInv, UnissuedAreNew, Issued
<1>8. ASSUME NEW t \in Tokens, NEW v \in 0..MaxVersion, snapshot[t][v] # NoFields
      PROVE  snapshot'[t][v] = snapshot[t][v]
  <2>1. v < member[t].version
    BY <1>5, <1>8
  <2>2. CASE t \in done
    <3>1. member[t].version \in Nat
      BY <2>2, <1>0
    <3>2. v # member[t].version
      BY <2>1, <3>1
    <3> QED
      BY <2>2, <3>2, <1>3
  <2>3. CASE t \notin done
    BY <2>3, <1>2
  <2> QED
    BY <2>2, <2>3
<1>9. ASSUME NEW t \in Tokens
      PROVE  Extends(t)
  <2>1. CASE t \in done
    <3>1. member[t].version \in Nat /\ member'[t].version = member[t].version + 1
      BY <2>1, <1>0, <1>1
    <3>2. member'[t].version # member[t].version
      BY <3>1
    <3> QED
      BY <3>2 DEF Extends
  <2>2. CASE t \notin done
    BY <2>2, <1>2 DEF Extends
  <2> QED
    BY <2>1, <2>2
<1> QED
  BY <1>4, <1>6, <1>7, <1>8, <1>9 DEF Keeps

\* A single upgrade or rollback is a set of one.
LEMMA SingleVersion ==
    ASSUME MembershipInv, NEW t \in Tokens, NEW fields \in Fields,
           fields.status # "absent", NEW rollback \in BOOLEAN,
           NewVersion(t, fields, rollback)
    PROVE  Keeps
<1> USE DEF MembershipInv, HM_Type
<1> DEFINE given == [x \in {t} |-> fields]
<1>1. given[t] = fields
  OBVIOUS
<1>2. snapshot' = [x \in Tokens |-> IF x \in {t}
            THEN [snapshot[x] EXCEPT ![member[x].version] = member[x].is]
            ELSE snapshot[x]]
  BY DEF NewVersion
<1>3. member' = [x \in Tokens |-> IF x \in {t}
            THEN [member[x] EXCEPT !.is = given[x], !.version = @ + 1]
            ELSE member[x]]
  BY <1>1 DEF NewVersion
<1>4. history' \in [Tokens -> Seq(BOOLEAN)]
  BY DEF NewVersion
<1>5. Issued(t) /\ member[t].version < MaxVersion /\ UNCHANGED <<renewals, auto>>
  BY DEF NewVersion
<1>6. UNCHANGED upgrades
  BY DEF NewVersion
<1> HIDE DEF given
<1>7. Versioned({t}, given)
  BY <1>1, <1>2, <1>3, <1>4, <1>5, <1>6 DEF Versioned
<1> QED
  BY <1>7, VersionKeeps

-----------------------------------------------------------------------------
\* Steps that change no token, version or snapshot.
LEMMA OtherKeeps ==
    ASSUME MembershipInv, UNCHANGED <<member, snapshot>>, HM_Type'
    PROVE  Keeps
BY DEF Keeps, MembershipInv, SnapshotsBelow, UnissuedAreNew, Extends, Issued

LEMMA UpgradeKeeps ==
    ASSUME MembershipInv, NEW t \in Tokens, NEW caller,
           NEW expiry \in GivenDates \cup {NoTime}, NEW tier \in BOOLEAN,
           NEW status \in GivenStatuses \cup {"absent"},
           upgrade_token(caller, t, expiry, tier, status)
    PROVE  Keeps
<1> DEFINE fields == Migrated(member[t].is, expiry, tier, status)
<1>1. member[t] \in Token
  BY DEF MembershipInv, HM_Type
<1>2. member[t].is \in Fields /\ member[t].is.status # "absent"
  BY <1>1 DEF Token, upgrade_token, NewVersion, Issued
<1>3. fields \in Fields
  BY <1>2, MigratedType
<1>4. fields.status # "absent"
  BY <1>2 DEF Migrated
<1>5. NewVersion(t, fields, FALSE)
  BY DEF upgrade_token
<1> HIDE DEF fields
<1> QED
  BY <1>3, <1>4, <1>5, SingleVersion

LEMMA RollbackKeeps ==
    ASSUME MembershipInv, NEW t \in Tokens, NEW target \in 0..MaxVersion,
           rollback_token_upgrade(t, target)
    PROVE  Keeps
<1>1. snapshot[t][target] \in Fields
  BY DEF MembershipInv, HM_Type
<1>2. snapshot[t][target].status # "absent"
  BY DEF MembershipInv, SnapshotsBelow, rollback_token_upgrade
<1>3. NewVersion(t, snapshot[t][target], TRUE)
  BY DEF rollback_token_upgrade
<1> QED
  BY <1>1, <1>2, <1>3, SingleVersion

LEMMA BatchKeeps ==
    ASSUME MembershipInv, NEW ids \in SUBSET Tokens,
           NEW expiry \in GivenDates \cup {NoTime}, batch_upgrade_tokens(ids, expiry)
    PROVE  Keeps
<1> DEFINE done == {t \in ids : Issued(t)}
           fields == [t \in Tokens |-> Migrated(member[t].is, expiry, FALSE, "absent")]
<1>1. ASSUME NEW t \in done
      PROVE  /\ Issued(t) /\ member[t].version < MaxVersion
             /\ fields[t] \in Fields /\ fields[t].status # "absent"
  <2>1. member[t] \in Token
    BY DEF MembershipInv, HM_Type
  <2>2. member[t].is \in Fields /\ member[t].is.status # "absent"
    BY <2>1 DEF Token, Issued
  <2>3. Migrated(member[t].is, expiry, FALSE, "absent") \in Fields
    BY <2>2, MigratedType
  <2>4. Migrated(member[t].is, expiry, FALSE, "absent").status # "absent"
    BY <2>2 DEF Migrated
  <2> QED
    BY <2>3, <2>4 DEF batch_upgrade_tokens
<1>2. member' = [t \in Tokens |-> IF t \in done
            THEN [member[t] EXCEPT !.is = fields[t], !.version = @ + 1]
            ELSE member[t]]
  BY DEF batch_upgrade_tokens, MembershipInv, HM_Type, Token
<1>3. snapshot' = [t \in Tokens |-> IF t \in done
            THEN [snapshot[t] EXCEPT ![member[t].version] = member[t].is]
            ELSE snapshot[t]]
  BY DEF batch_upgrade_tokens
<1>4. history' \in [Tokens -> Seq(BOOLEAN)] /\ UNCHANGED <<renewals, auto, upgrades>>
  <2>1. history \in [Tokens -> Seq(BOOLEAN)]
    BY DEF MembershipInv, HM_Type
  <2>2. \A t \in Tokens : Append(history[t], FALSE) \in Seq(BOOLEAN)
    BY <2>1
  <2> QED
    BY <2>1, <2>2 DEF batch_upgrade_tokens
<1>5. done \in SUBSET Tokens
  OBVIOUS
<1> HIDE DEF done, fields
<1>6. Versioned(done, fields)
  BY <1>1, <1>2, <1>3, <1>4 DEF Versioned
<1> QED
  BY <1>5, <1>6, VersionKeeps

LEMMA CallKeeps ==
    ASSUME MembershipInv, NEW t \in Tokens, HM_Call(t)
    PROVE  Keeps
<1>1. ASSUME NEW user \in Accounts, NEW expiry \in GivenDates,
             issue_membership(t, user, expiry)
      PROVE  Keeps
  BY <1>1, IssueStep, LifeKeeps
<1>2. ASSUME NEW user \in Accounts, OwnerChanges(t, user)
      PROVE  Keeps
  BY <1>2, OwnerStep, LifeKeeps
<1>3. ASSUME NEW cycle \in {Month, Annual}, renew_token(t, cycle)
      PROVE  Keeps
  BY <1>3, RenewedStep, LifeKeeps
<1>4. CASE check_and_apply_grace_period(t)
  BY <1>4, GraceStep, LifeKeeps
<1>5. ASSUME NEW enabled \in BOOLEAN, set_auto_renewal(t, enabled)
      PROVE  Keeps
  <2>1. HM_Type'
    BY <1>5 DEF set_auto_renewal, MembershipInv, HM_Type
  <2> QED
    BY <2>1, <1>5, OtherKeeps DEF set_auto_renewal
<1>6. CASE process_auto_renewal(t)
  BY <1>6, AutoRenewalStep, LifeKeeps
<1>7. ASSUME NEW caller \in Accounts, NEW expiry \in GivenDates \cup {NoTime},
             NEW tier \in BOOLEAN, NEW status \in GivenStatuses \cup {"absent"},
             upgrade_token(caller, t, expiry, tier, status)
      PROVE  Keeps
  BY <1>7, UpgradeKeeps
<1>8. ASSUME NEW target \in 0..MaxVersion, rollback_token_upgrade(t, target)
      PROVE  Keeps
  BY <1>8, RollbackKeeps
<1> QED
  BY <1>1, <1>2, <1>3, <1>4, <1>5, <1>6, <1>7, <1>8 DEF HM_Call

LEMMA SettingKeeps ==
    ASSUME MembershipInv, HM_Setting
    PROVE  Keeps
<1>1. ASSUME NEW config \in RenewalConfigs, set_renewal_config(config)
      PROVE  Keeps
  <2>1. HM_Type'
    BY <1>1 DEF set_renewal_config, MembershipInv, HM_Type
  <2> QED
    BY <2>1, <1>1, OtherKeeps DEF set_renewal_config
<1>2. ASSUME NEW config \in UpgradeConfigs, set_upgrade_config(config)
      PROVE  Keeps
  <2>1. HM_Type'
    BY <1>2 DEF set_upgrade_config, MembershipInv, HM_Type
  <2> QED
    BY <2>1, <1>2, OtherKeeps DEF set_upgrade_config
<1>3. ASSUME NEW ids \in SUBSET Tokens, NEW expiry \in GivenDates \cup {NoTime},
             batch_upgrade_tokens(ids, expiry)
      PROVE  Keeps
  BY <1>3, BatchKeeps
<1> QED
  BY <1>1, <1>2, <1>3 DEF HM_Setting

\* Every step keeps the invariant and all snapshots, and extends what it renews.
LEMMA StepKeeps ==
    ASSUME MembershipInv, [HM_Next]_HM_vars
    PROVE  MembershipInv' /\ Keeps
<1>1. ASSUME NEW t \in Tokens, HM_Call(t), UNCHANGED hub
      PROVE  MembershipInv' /\ Keeps
  BY <1>1, CallKeeps DEF Keeps, MembershipInv, HubType, LedgerType, hub, ledger, Times,
                         Moment
<1>2. CASE HM_Setting /\ UNCHANGED hub
  BY <1>2, SettingKeeps DEF Keeps, MembershipInv, HubType, LedgerType, hub, ledger, Times,
                            Moment
<1>3. CASE HubEnvironment /\ UNCHANGED HM_state
  <2>1. HM_Type'
    BY <1>3 DEF HM_state, HM_Type, MembershipInv
  <2> QED
    BY <1>3, <2>1, HubStep, OtherKeeps DEF HM_state, Keeps, MembershipInv
<1>4. CASE UNCHANGED HM_vars
  <2>1. HM_Type'
    BY <1>4 DEF HM_vars, HM_state, HM_Type, MembershipInv
  <2>2. HubType'
    BY <1>4 DEF HM_vars, hub, ledger, HubType, LedgerType, Times, MembershipInv, Moment
  <2> QED
    BY <1>4, <2>1, <2>2, OtherKeeps DEF HM_vars, HM_state, Keeps, MembershipInv
<1> QED
  BY <1>1, <1>2, <1>3, <1>4 DEF HM_Next

LEMMA InitHub == HubInit => HubType
<1>1. HubInit => LedgerType
  BY LedgerAssumption DEF HubInit, LedgerInit, LedgerType, Times, Parties
<1> QED
  BY <1>1 DEF HubInit, HubType, NoTransfer, Running, Moment, NoTime

LEMMA InitMemberships == HubInit /\ HM_Init => MembershipInv
<1> SUFFICES ASSUME HubInit, HM_Init
             PROVE  MembershipInv
  OBVIOUS
<1>1. HubType
  BY InitHub
<1>2. NoFields \in Fields
  BY DEF NoFields, Fields, Membership
<1>3. Unissued \in Token /\ Unissued.version = 0
  BY <1>2 DEF Unissued, Token, Moment
<1>4. HM_Type
  BY <1>2, <1>3 DEF HM_Init, HM_Type
<1>5. SnapshotsBelow
  BY DEF HM_Init, SnapshotsBelow
<1>6. UnissuedAreNew
  BY <1>3 DEF HM_Init, UnissuedAreNew
<1> QED
  BY <1>1, <1>4, <1>5, <1>6 DEF MembershipInv

\* No snapshot has the version its token has now or is going to have.
THEOREM MembershipsWellFormed == HM_Spec => []MembershipInv
<1>1. MembershipInv /\ [HM_Next]_HM_vars => MembershipInv'
  BY StepKeeps
<1> QED
  BY <1>1, InitMemberships, PTL DEF HM_Spec

\* Whatever is renewed, upgraded and rolled back, in any order and by anyone: a stored
\* snapshot stays, and a renewed token keeps the time it had (upgrade.rs,
\* membership_token.rs renew_token and process_auto_renewal).
THEOREM NothingIsTakenAway == HM_Spec => MembershipsKept
<1>1. MembershipInv /\ [HM_Next]_HM_vars
      => [\A t \in Tokens, v \in 0..MaxVersion :
            snapshot[t][v] # NoFields => snapshot'[t][v] = snapshot[t][v]]_HM_vars
  BY StepKeeps DEF Keeps
<1>2. MembershipInv /\ [HM_Next]_HM_vars
      => [\A t \in Tokens :
            /\ Issued(t) /\ member'[t].version = member[t].version
            /\ member'[t].is.expiry # member[t].is.expiry
            => /\ member'[t].is.expiry >= Later(member[t].is.expiry, now) + Month
               /\ member'[t].is.status = "active"]_HM_vars
  BY StepKeeps DEF Keeps, Extends
<1> QED
  BY <1>1, <1>2, MembershipsWellFormed, PTL
     DEF HM_Spec, MembershipsKept, SnapshotsKept, RenewalsExtend

-----------------------------------------------------------------------------
(* The types of the hub's parts, governance included.                     *)

LEMMA GovernanceStep ==
    ASSUME HubType, [HubNext]_hub
    PROVE  HubType'
<1> USE LedgerAssumption, HubAssumption DEF HubType, LedgerType
<1>1. ASSUME NEW caller \in Accounts, set_admin(caller)
      PROVE  HubType'
  BY <1>1 DEF set_admin
<1>2. ASSUME NEW caller \in Accounts, NEW new \in Accounts,
             propose_admin_transfer(caller, new)
      PROVE  HubType'
  <2>1. now + TransferPeriod \in Nat
    BY DEF Times
  <2> QED
    BY <1>2, <2>1 DEF propose_admin_transfer, ledger
<1>3. ASSUME NEW caller \in Accounts, NEW new \in Accounts, rotate_admin_key(caller, new)
      PROVE  HubType'
  BY <1>3 DEF rotate_admin_key
<1>4. ASSUME NEW caller \in Accounts,
             accept_admin_transfer(caller) \/ cancel_admin_transfer(caller)
      PROVE  HubType'
  BY <1>4 DEF accept_admin_transfer, cancel_admin_transfer, NoTransfer, ledger
<1>5. ASSUME NEW caller \in Accounts, NEW limit \in PauseLengths \cup {NoTime},
             NEW lock \in PauseLengths \cup {NoTime}, emergency_pause(caller, limit, lock)
      PROVE  HubType'
  <2>1. \A secs \in PauseLengths \cup {NoTime} : After(secs) \in Moment
    BY DEF After, Moment, Times
  <2> QED
    BY <1>5, <2>1 DEF emergency_pause, ledger
<1>6. ASSUME NEW caller \in Accounts, emergency_unpause(caller)
      PROVE  HubType'
  BY <1>6 DEF emergency_unpause, Running, Moment, NoTime, ledger
<1>7. CASE HubTick
  BY <1>7 DEF HubTick, LedgerCloses, Times
<1>8. CASE UNCHANGED hub
  BY <1>8 DEF hub, ledger, Times, Moment
<1> QED
  BY <1>1, <1>2, <1>3, <1>4, <1>5, <1>6, <1>7, <1>8 DEF HubNext, HubCall

TokensInv ==
    /\ HubType
    /\ tokenPaused \in [Tokens -> BOOLEAN]
    /\ FractionsInv

LEMMA TokensStep ==
    ASSUME TokensInv, [HT_Next]_HT_vars
    PROVE  TokensInv'
<1>1. FractionsInv'
  BY NextFractions DEF TokensInv
<1>2. ASSUME UNCHANGED hub
      PROVE  HubType'
  BY <1>2 DEF TokensInv, HubType, LedgerType, hub, ledger
<1>3. ASSUME NEW t \in Tokens, NEW flag \in BOOLEAN, NEW caller, SetTokenPaused(caller, t, flag)
      PROVE  TokensInv'
  BY <1>1, <1>2, <1>3 DEF SetTokenPaused, TokensInv
<1>4. CASE UNCHANGED <<hub, tokenPaused>>
  BY <1>1, <1>2, <1>4 DEF TokensInv
<1>5. CASE HubEnvironment /\ UNCHANGED tokenPaused
  BY <1>1, <1>5, HubStep DEF TokensInv
<1>6. ASSUME NEW caller \in Accounts, HT_Call(caller)
      PROVE  \/ UNCHANGED <<hub, tokenPaused>>
             \/ \E t \in Tokens, flag \in BOOLEAN : SetTokenPaused(caller, t, flag)
  BY <1>6 DEF HT_Call, issue_token, transfer_token, approve, revoke_allowance,
              get_allowance, transfer_from, transfer_fraction, fractionalize_token,
              recombine_fractions, distribute_fraction_rewards
<1> QED
  BY <1>3, <1>4, <1>5, <1>6 DEF HT_Next, StatusChanges, HT_vars

LEMMA InitTokens == HubInit /\ HT_Init => TokensInv
<1> SUFFICES ASSUME HubInit, HT_Init
             PROVE  TokensInv
  OBVIOUS
<1>1. HubType
  BY InitHub
<1> QED
  BY <1>1, InitFractions DEF HT_Init, TokensInv

\* The owners, allowances, fractions and rewards of tokens keep their types; in
\* particular no share and no reward becomes negative by a trade or a distribution
\* (membership_token.rs, fractionalization.rs, allowance.rs).
THEOREM TokensAreTyped == HT_Spec => []HT_TypeOK
<1>1. TokensInv => HT_TypeOK
  BY DEF TokensInv, FractionsInv, OwnersInv, OwnersType, RewardsType, HT_TypeOK,
         TokenRecord, AllowanceRecord, Split
<1>2. TokensInv /\ [HT_Next]_HT_vars => TokensInv'
  BY TokensStep
<1> QED
  BY <1>1, <1>2, InitTokens, PTL DEF HT_Spec

MetadataInv ==
    /\ TokensInv
    /\ IndexInv
    /\ recorded \in [Tokens -> SUBSET Nat]

\* Metadata calls are, for the owners of tokens, a step of theirs or none.
LEMMA MetadataIsOfTokens ==
    ASSUME HubType, [HD_Next]_HD_vars
    PROVE  [HT_Next]_HT_vars
<1>1. ASSUME NEW t \in Tokens, NEW caller \in Accounts, issue_token(t, caller)
      PROVE  HT_Next
  <2>1. admin \in Accounts
    BY <1>1 DEF issue_token, HubType, LedgerType
  <2>2. HT_Call(admin)
    BY <1>1 DEF HT_Call
  <2> QED
    BY <2>1, <2>2 DEF HT_Next
<1>2. ASSUME NEW t \in Tokens, NEW caller \in Accounts, NEW flag \in BOOLEAN,
             SetTokenPaused(caller, t, flag)
      PROVE  HT_Next
  BY <1>2 DEF HT_Next, HT_Call
<1>3. HD_Call \/ UNCHANGED HD_vars => UNCHANGED HT_vars
  BY DEF HD_Call, set_token_metadata, update_token_metadata,
         remove_metadata_attributes, HD_vars
<1> QED
  BY <1>1, <1>2, <1>3 DEF HD_Next, HT_Next

LEMMA MetadataStep ==
    ASSUME MetadataInv, [HD_Next]_HD_vars
    PROVE  MetadataInv'
<1>1. IndexInv'
  BY NextIndex DEF MetadataInv
<1>2. [HT_Next]_HT_vars
  BY MetadataIsOfTokens DEF MetadataInv, TokensInv
<1>3. recorded' \in [Tokens -> SUBSET Nat]
  <2>1. ASSUME NEW ids, Recorded(ids)
        PROVE  recorded' \in [Tokens -> SUBSET Nat]
    <3>1. \A t \in Tokens : metadata[t].version + 1 \in Nat /\ recorded[t] \in SUBSET Nat
      BY DEF MetadataInv, IndexInv
    <3> QED
      BY <2>1, <3>1 DEF Recorded
  <2>2. CASE UNCHANGED recorded
    BY <2>2 DEF MetadataInv
  <2>3. HD_Call => UNCHANGED recorded \/ \E ids : Recorded(ids)
    BY DEF HD_Call, set_token_metadata, update_token_metadata, remove_metadata_attributes
  <2> QED
    BY <2>1, <2>2, <2>3 DEF HD_Next, HD_vars, HD_state
<1> QED
  BY <1>1, <1>2, <1>3, TokensStep DEF MetadataInv

LEMMA InitMetadata == HubInit /\ HT_Init /\ HD_Init => MetadataInv
<1> SUFFICES ASSUME HubInit, HT_Init, HD_Init
             PROVE  MetadataInv
  OBVIOUS
<1>1. recorded \in [Tokens -> SUBSET Nat]
  BY DEF HD_Init
<1> QED
  BY <1>1, InitTokens, InitIndex DEF MetadataInv
=============================================================================

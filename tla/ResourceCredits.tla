--------------------------- MODULE ResourceCredits ---------------------------
(***************************************************************************)
(* The resource_credits contract: credits minted by the administrator,     *)
(* transferred, spent, and burnt by anyone once they have expired.  A      *)
(* holder has one CreditExpiry record, that of the latest dated mint.      *)
(* Here "now" is the ledger sequence number expire_credits compares with.  *)
(***************************************************************************)
EXTENDS Ledger

CONSTANTS
    CreditAmounts,  \* amounts in requests (u128)
    ExpiryTimes,    \* expires_at in requests
    MaxDated        \* bound: credits minted with a record, per holder

ASSUME CreditsAssumption ==
    /\ CreditAmounts \subseteq Nat /\ ExpiryTimes \subseteq Nat
    /\ MaxDated \in Nat

VARIABLES
    balance,  \* Balance(address)
    supply,   \* TotalSupply
    expiry,   \* CreditExpiry(address)
    dated,    \* history: credits ever minted to a holder with a record
    burnt     \* history: credits of a holder expire_credits burnt

RC_state == <<balance, supply, expiry, dated, burnt>>
RC_vars == <<ledger, RC_state>>

Never == -1                          \* expires_at = None
CreditRecord == [amount : Nat, expires_at : Nat \cup {Never}]
NoCredit == [amount |-> 0, expires_at |-> Never]   \* no record

RC_Init ==
    /\ balance = [a \in Accounts |-> 0]
    /\ supply = 0
    /\ expiry = [a \in Accounts |-> NoCredit]
    /\ dated = [a \in Accounts |-> 0]
    /\ burnt = [a \in Accounts |-> 0]

RC_initialize(caller) == SetAdmin(caller) /\ UNCHANGED RC_state

\* Sums beyond u128 panic.
Credit(recipient, amount) ==
    /\ amount # 0
    /\ balance[recipient] + amount <= MaxU128 /\ supply + amount <= MaxU128
    /\ balance' = [balance EXCEPT ![recipient] = @ + amount]
    /\ supply' = supply + amount

mint_credits(caller, recipient, amount) ==
    /\ caller = admin
    /\ Credit(recipient, amount)
    /\ UNCHANGED <<ledger, expiry, dated, burnt>>

\* The record of the holder's earlier dated credits is replaced.
mint_credits_with_expiry(caller, recipient, amount, expires_at) ==
    /\ caller = admin
    /\ dated[recipient] + amount <= MaxDated     \* bound of the model
    /\ Credit(recipient, amount)
    /\ expiry' = [expiry EXCEPT ![recipient] =
                     [amount |-> amount, expires_at |-> expires_at]]
    /\ dated' = [dated EXCEPT ![recipient] = @ + amount]
    /\ UNCHANGED <<ledger, burnt>>

\* The receiver's balance is read after the sender's was written.
transfer_credits(from, to, amount) ==
    /\ amount # 0 /\ amount <= balance[from]
    /\ balance' = [[balance EXCEPT ![from] = @ - amount] EXCEPT ![to] = @ + amount]
    /\ UNCHANGED <<ledger, supply, expiry, dated, burnt>>

Burn(member, amount) ==
    /\ balance' = [balance EXCEPT ![member] = @ - amount]
    /\ supply' = supply - amount

\* Mutant: the balance is not asked about.
Mut_spend_credits(member, amount) ==
    /\ amount # 0
    /\ Burn(member, amount)
    /\ UNCHANGED <<ledger, expiry, dated, burnt>>

spend_credits(member, amount) ==
    /\ amount # 0 /\ amount <= balance[member]
    /\ Burn(member, amount)
    /\ UNCHANGED <<ledger, expiry, dated, burnt>>

Lesser(m, n) == IF m < n THEN m ELSE n

\* Mutant: the record is not removed.
Mut_expire_credits(member) ==
    /\ expiry[member].expires_at # Never
    /\ expiry[member].expires_at <= now
    /\ LET amount == Lesser(balance[member], expiry[member].amount)
       IN  /\ amount # 0
           /\ Burn(member, amount)
           /\ burnt' = [burnt EXCEPT ![member] = @ + amount]
    /\ UNCHANGED <<ledger, expiry, dated>>

\* With nothing to burn the call succeeds and the record stays.
expire_credits(member) ==
    /\ expiry[member].expires_at # Never
    /\ expiry[member].expires_at <= now
    /\ LET amount == Lesser(balance[member], expiry[member].amount)
       IN  /\ amount # 0
           /\ Burn(member, amount)
           /\ burnt' = [burnt EXCEPT ![member] = @ + amount]
    /\ expiry' = [expiry EXCEPT ![member] = NoCredit]
    /\ UNCHANGED <<ledger, dated>>

RC_Call(caller) ==
    \/ RC_initialize(caller)
    \/ \E a \in Accounts, amount \in CreditAmounts :
         \/ mint_credits(caller, a, amount)
         \/ \E expires_at \in ExpiryTimes \cup {Never} :
               mint_credits_with_expiry(caller, a, amount, expires_at)
         \/ transfer_credits(caller, a, amount)
    \/ \E amount \in CreditAmounts : spend_credits(caller, amount)
    \/ expire_credits(caller)

RC_Next ==
    \/ \E caller \in Accounts : RC_Call(caller)
    \/ LedgerCloses /\ UNCHANGED RC_state

RC_Spec == LedgerInit /\ RC_Init /\ [][RC_Next]_RC_vars

-----------------------------------------------------------------------------
RC_TypeOK ==
    /\ LedgerType
    /\ balance \in [Accounts -> Nat]
    /\ supply \in Nat
    /\ expiry \in [Accounts -> CreditRecord]
    /\ dated \in [Accounts -> Nat]
    /\ burnt \in [Accounts -> Nat]

\* Mints, transfers (also to oneself), spending and expiry keep the balances adding
\* up to TotalSupply: reconcile_credits never reports a mismatch.
SupplyReconciles == SumFunctionOnSet(balance, Accounts) = supply

\* A dated credit expires once: what expire_credits has burnt and may still burn of
\* a holder never exceeds what was minted to them with a record.
BurnsOnlyDatedCredits ==
    \A a \in Accounts : burnt[a] + expiry[a].amount <= dated[a]

\* No credit is made, lost or expired twice, however dated and undated mints (of
\* which each replaces the last one's record), transfers, spending and expiries
\* follow one another.
CreditsAddUp == SupplyReconciles /\ BurnsOnlyDatedCredits
=============================================================================

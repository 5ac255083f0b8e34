--------------------------- MODULE EscrowPromise ---------------------------
(***************************************************************************)
(* What an escrow promises its two parties, whatever its administration:   *)
(* a deal takes the agreed amount from the depositor once, holds it in the *)
(* vault, and hands all of it, once, to the beneficiary or back to the     *)
(* depositor.  Nothing else ever moves a token.                            *)
(***************************************************************************)
EXTENDS Naturals

CONSTANTS Ids, Accounts, Vault

VARIABLES
    deal,    \* Ids -> no deal yet, held with its terms, or settled
    wallet   \* tokens of the accounts and of the vault

Parties == Accounts \cup {Vault}

Move(w, from, to, amount) ==
    IF from = to THEN w
    ELSE [w EXCEPT ![from] = @ - amount, ![to] = @ + amount]

NoDeal == [state |-> "none"]
Held(from, to, amount) ==
    [state |-> "held", from |-> from, to |-> to, amount |-> amount]
Settled == [state |-> "settled"]

Init ==
    /\ deal = [e \in Ids |-> NoDeal]
    /\ wallet \in [Parties -> Nat]

Deposit(e) ==
    \E from \in Accounts, to \in Parties :
        \E amount \in 1..wallet[from] :
            /\ deal[e] = NoDeal
            /\ deal' = [deal EXCEPT ![e] = Held(from, to, amount)]
            /\ wallet' = Move(wallet, from, Vault, amount)

PayOut(e) ==
    /\ deal[e].state = "held"
    /\ \E recipient \in {deal[e].from, deal[e].to} :
           wallet' = Move(wallet, Vault, recipient, deal[e].amount)
    /\ deal' = [deal EXCEPT ![e] = Settled]

Next == \E e \in Ids : Deposit(e) \/ PayOut(e)

Spec == Init /\ [][Next]_<<deal, wallet>>
=============================================================================

------------------------------- MODULE Ledger -------------------------------
(***************************************************************************)
(* What the Soroban contracts share: the ledger's clock, the balances of   *)
(* the coins they move, and an administrator.  An invocation is atomic: an *)
(* error or a panic reverts all of it, so a failed call is no step at all. *)
(***************************************************************************)
EXTENDS Integers, FiniteSets, Functions

CONSTANTS
    Accounts,   \* addresses that can sign a call
    Vault,      \* the contract's own address
    NoAccount,
    Coins,      \* token contracts a contract calls
    Funds,      \* what each account starts with, per coin
    MaxTime,    \* bound: last ledger timestamp
    MaxU128     \* largest u128 of the instance

Parties == Accounts \cup {Vault}

ASSUME LedgerAssumption ==
    /\ IsFiniteSet(Accounts)      \* an address is 32 bytes
    /\ Vault \notin Accounts
    /\ NoAccount \notin Parties
    /\ MaxTime \in Nat
    /\ MaxU128 \in Nat /\ MaxU128 % 2 = 1
    /\ Funds \in [Coins -> [Accounts -> Nat]]

VARIABLES
    now,     \* ledger timestamp
    wallet,  \* balances, per coin
    admin    \* DataKey::Admin of the contract

ledger == <<now, wallet, admin>>

Times == 0..MaxTime

LedgerInit ==
    /\ now = 0
    /\ wallet = [c \in Coins |->
                    [p \in Parties |-> IF p = Vault THEN 0 ELSE Funds[c][p]]]
    /\ admin = NoAccount

LedgerType ==
    /\ now \in Times
    /\ wallet \in [Coins -> [Parties -> Nat]]
    /\ admin \in Accounts \cup {NoAccount}

\* token::Client::transfer: panics on a negative amount and on missing funds.
Transfer(coin, from, to, amount) ==
    /\ 0 <= amount /\ amount <= wallet[coin][from]
    /\ wallet' = IF from = to THEN wallet
                 ELSE [wallet EXCEPT ![coin][from] = @ - amount,
                                     ![coin][to] = @ + amount]

\* The first caller of initialize becomes the administrator.
SetAdmin(caller) ==
    /\ admin = NoAccount
    /\ admin' = caller
    /\ UNCHANGED <<now, wallet>>

LedgerCloses ==
    /\ now < MaxTime
    /\ now' = now + 1
    /\ UNCHANGED <<wallet, admin>>
=============================================================================

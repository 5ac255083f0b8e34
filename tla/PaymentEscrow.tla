--------------------------- MODULE PaymentEscrow ---------------------------
(***************************************************************************)
(* The payment_escrow contract.  An invocation is atomic: an error or a    *)
(* panic (a token transfer without funds, an integer overflow; the release *)
(* profile sets overflow-checks) reverts all of it, so a failed call is no *)
(* step at all.                                                            *)
(***************************************************************************)
EXTENDS Integers, FiniteSets, Functions

CONSTANTS
    Ids,            \* escrow ids
    Accounts,       \* addresses that can sign a call
    Vault,          \* the contract's own address
    NoAccount,
    Funds,          \* tokens each account starts with
    MaxAmount,      \* bound: amount of a create_escrow call
    ReleaseTimes,   \* release_after timestamps used (u64)
    Windows,        \* dispute windows used, in seconds (u64)
    MaxTime,        \* bound: last ledger timestamp
    MaxU64          \* largest u64 of the instance

ASSUME EscrowAssumption ==
    /\ Vault \notin Accounts
    /\ NoAccount \notin Accounts \cup {Vault}
    /\ MaxU64 \in Nat /\ MaxTime \in 0..MaxU64
    /\ Funds \in [Accounts -> Nat] /\ MaxAmount \in Nat
    /\ ReleaseTimes \subseteq 0..MaxU64
    /\ Windows \subseteq 0..MaxU64

VARIABLES
    admin,          \* Admin; PaymentToken is set with it
    window,         \* DefaultDisputeWindow
    paused,         \* ContractPaused
    escrows,        \* Escrow(id)
    byDepositor,    \* DepositorEscrows(address)
    byBeneficiary,  \* BeneficiaryEscrows(address)
    wallet,         \* balances of the payment token
    now,            \* ledger timestamp
    paidBy          \* history: who ordered the payout of an escrow

vars == <<admin, window, paused, escrows, byDepositor, byBeneficiary, wallet,
          now, paidBy>>

config == <<admin, window, paused>>
indexes == <<byDepositor, byBeneficiary>>

Parties == Accounts \cup {Vault}
Times == 0..MaxTime
NoTime == -1
EscrowStatus == {"absent", "pending", "released", "refunded", "disputed"}
Payers == {"nobody", "admin", "beneficiary"}

Escrow == [status : EscrowStatus, depositor : Parties, beneficiary : Parties,
           amount : Nat, created_at : Times, release_after : 0..MaxU64,
           dispute_window : 0..MaxU64,
           dispute_raised_at : Times \cup {NoTime},
           resolved_at : Times \cup {NoTime}]

NoEscrow == [status |-> "absent", depositor |-> Vault, beneficiary |-> Vault,
             amount |-> 0, created_at |-> 0, release_after |-> 0,
             dispute_window |-> 0, dispute_raised_at |-> NoTime,
             resolved_at |-> NoTime]

\* The payment token, a contract of its own.
Move(w, from, to, amount) ==
    IF from = to THEN w
    ELSE [w EXCEPT ![from] = @ - amount, ![to] = @ + amount]

Init ==
    /\ admin = NoAccount
    /\ window = 0
    /\ paused = FALSE
    /\ escrows = [e \in Ids |-> NoEscrow]
    /\ byDepositor = [a \in Parties |-> {}]
    /\ byBeneficiary = [a \in Parties |-> {}]
    /\ wallet = [a \in Parties |-> IF a = Vault THEN 0 ELSE Funds[a]]
    /\ now = 0
    /\ paidBy = [e \in Ids |-> "nobody"]

-----------------------------------------------------------------------------
initialize(caller, secs) ==
    /\ admin = NoAccount
    /\ admin' = caller
    /\ window' = secs
    /\ UNCHANGED <<paused, escrows, indexes, wallet, now, paidBy>>

set_dispute_window(caller, secs) ==
    /\ caller = admin
    /\ window' = secs
    /\ UNCHANGED <<admin, paused, escrows, indexes, wallet, now, paidBy>>

pause(caller) ==
    /\ caller = admin
    /\ paused' = TRUE
    /\ UNCHANGED <<admin, window, escrows, indexes, wallet, now, paidBy>>

unpause(caller) ==
    /\ caller = admin
    /\ paused' = FALSE
    /\ UNCHANGED <<admin, window, escrows, indexes, wallet, now, paidBy>>

\* Mutant: the beneficiary index gets the depositor's key.
Mut_create_escrow(depositor, e, beneficiary, amount, release_after) ==
    /\ ~paused
    /\ amount > 0
    /\ escrows[e].status = "absent"
    /\ admin # NoAccount
    /\ amount <= wallet[depositor]
    /\ wallet' = Move(wallet, depositor, Vault, amount)
    /\ escrows' = [escrows EXCEPT ![e] =
           [status |-> "pending", depositor |-> depositor,
            beneficiary |-> beneficiary, amount |-> amount,
            created_at |-> now, release_after |-> release_after,
            dispute_window |-> window, dispute_raised_at |-> NoTime,
            resolved_at |-> NoTime]]
    /\ byDepositor' = [byDepositor EXCEPT ![depositor] = @ \cup {e}]
    /\ byBeneficiary' = [byBeneficiary EXCEPT ![depositor] = @ \cup {e}]
    /\ UNCHANGED <<config, now, paidBy>>

create_escrow(depositor, e, beneficiary, amount, release_after) ==
    /\ ~paused
    /\ amount > 0
    /\ escrows[e].status = "absent"
    /\ admin # NoAccount                     \* the payment token is set
    /\ amount <= wallet[depositor]
    /\ wallet' = Move(wallet, depositor, Vault, amount)
    /\ escrows' = [escrows EXCEPT ![e] =
           [status |-> "pending", depositor |-> depositor,
            beneficiary |-> beneficiary, amount |-> amount,
            created_at |-> now, release_after |-> release_after,
            dispute_window |-> window, dispute_raised_at |-> NoTime,
            resolved_at |-> NoTime]]
    /\ byDepositor' = [byDepositor EXCEPT ![depositor] = @ \cup {e}]
    /\ byBeneficiary' = [byBeneficiary EXCEPT ![beneficiary] = @ \cup {e}]
    /\ UNCHANGED <<config, now, paidBy>>

\* Transfer the escrow out and close it.
Settle(e, recipient, status, who) ==
    /\ escrows[e].amount <= wallet[Vault]
    /\ wallet' = Move(wallet, Vault, recipient, escrows[e].amount)
    /\ escrows' = [escrows EXCEPT ![e].status = status, ![e].resolved_at = now]
    /\ paidBy' = [paidBy EXCEPT ![e] = who]
    /\ UNCHANGED <<config, indexes, now>>

\* Mutant: a settled escrow can be released again.
Mut_release(caller, e) ==
    /\ ~paused /\ caller = admin
    /\ escrows[e].status \notin {"absent", "disputed"}
    /\ Settle(e, escrows[e].beneficiary, "released", "admin")

release(caller, e) ==
    /\ ~paused /\ caller = admin
    /\ escrows[e].status = "pending"
    /\ Settle(e, escrows[e].beneficiary, "released", "admin")

\* Mutant: the refund goes to whoever orders it.
Mut_refund(caller, e) ==
    /\ ~paused /\ caller = admin
    /\ escrows[e].status = "pending"
    /\ Settle(e, caller, "refunded", "admin")

refund(caller, e) ==
    /\ ~paused /\ caller = admin
    /\ escrows[e].status = "pending"
    /\ Settle(e, escrows[e].depositor, "refunded", "admin")

\* Mutants: the deadline is recorded instead of the time; the contract's current
\* default window decides instead of the escrow's own.
Mut_raise_dispute(caller, e) ==
    /\ ~paused
    /\ caller = escrows[e].depositor
    /\ escrows[e].status = "pending"
    /\ escrows[e].dispute_window # 0
    /\ now <= escrows[e].created_at + escrows[e].dispute_window
    /\ escrows' = [escrows EXCEPT ![e].status = "disputed",
                                  ![e].dispute_raised_at =
                           escrows[e].created_at + escrows[e].dispute_window]
    /\ UNCHANGED <<config, indexes, wallet, now, paidBy>>

Mut_raise_dispute_default(caller, e) ==
    /\ ~paused
    /\ caller = escrows[e].depositor
    /\ escrows[e].status = "pending"
    /\ window # 0
    /\ now <= escrows[e].created_at + window
    /\ escrows' = [escrows EXCEPT ![e].status = "disputed",
                                  ![e].dispute_raised_at = now]
    /\ UNCHANGED <<config, indexes, wallet, now, paidBy>>

raise_dispute(caller, e) ==
    /\ ~paused
    /\ caller = escrows[e].depositor
    /\ escrows[e].status = "pending"
    /\ escrows[e].dispute_window # 0
    /\ escrows[e].created_at + escrows[e].dispute_window <= MaxU64  \* or panic
    /\ now <= escrows[e].created_at + escrows[e].dispute_window
    /\ escrows' = [escrows EXCEPT ![e].status = "disputed",
                                  ![e].dispute_raised_at = now]
    /\ UNCHANGED <<config, indexes, wallet, now, paidBy>>

resolve_dispute(caller, e, release_to_beneficiary) ==
    /\ ~paused /\ caller = admin
    /\ escrows[e].status = "disputed"
    /\ IF release_to_beneficiary
       THEN Settle(e, escrows[e].beneficiary, "released", "admin")
       ELSE Settle(e, escrows[e].depositor, "refunded", "admin")

\* Mutant: an escrow without a release time can be claimed at once.
Mut_claim(caller, e) ==
    /\ ~paused
    /\ caller = escrows[e].beneficiary
    /\ escrows[e].status = "pending"
    /\ now >= escrows[e].release_after
    /\ Settle(e, escrows[e].beneficiary, "released", "beneficiary")

claim(caller, e) ==
    /\ ~paused
    /\ caller = escrows[e].beneficiary
    /\ escrows[e].status = "pending"
    /\ escrows[e].release_after # 0
    /\ now >= escrows[e].release_after
    /\ Settle(e, escrows[e].beneficiary, "released", "beneficiary")

LedgerCloses ==
    /\ now < MaxTime
    /\ now' = now + 1
    /\ UNCHANGED <<config, escrows, indexes, wallet, paidBy>>

Call(caller) ==
    \/ \E secs \in Windows : initialize(caller, secs)
                             \/ set_dispute_window(caller, secs)
    \/ pause(caller) \/ unpause(caller)
    \/ \E e \in Ids :
         \/ \E beneficiary \in Parties, amount \in 0..MaxAmount,
               release_after \in ReleaseTimes :
               create_escrow(caller, e, beneficiary, amount, release_after)
         \/ release(caller, e) \/ refund(caller, e)
         \/ raise_dispute(caller, e)
         \/ \E toBeneficiary \in BOOLEAN :
               resolve_dispute(caller, e, toBeneficiary)
         \/ claim(caller, e)

Next == (\E caller \in Accounts : Call(caller)) \/ LedgerCloses

Spec == Init /\ [][Next]_vars

-----------------------------------------------------------------------------
TypeOK ==
    /\ admin \in Accounts \cup {NoAccount}
    /\ window \in 0..MaxU64
    /\ paused \in BOOLEAN
    /\ escrows \in [Ids -> Escrow]
    /\ byDepositor \in [Parties -> SUBSET Ids]
    /\ byBeneficiary \in [Parties -> SUBSET Ids]
    /\ wallet \in [Parties -> Nat]
    /\ now \in Times
    /\ paidBy \in [Ids -> Payers]

Open(e) == escrows[e].status \in {"pending", "disputed"}
OpenIds == {e \in Ids : Open(e)}
Amounts == [e \in Ids |-> escrows[e].amount]
Closed(e) == escrows[e].status \in {"released", "refunded"}

\* The contract can always pay out everything it holds: its balance covers the
\* amounts of all open escrows together (create_escrow's transfer precedes the
\* record, every payout closes one), so no settlement fails for want of funds.
Solvent == SumFunctionOnSet(Amounts, OpenIds) <= wallet[Vault]

\* A claim never jumps its time lock and never touches money that is or was
\* under dispute: what the beneficiary took alone was released, undisputed, no
\* earlier than release_after.
ClaimsRespectTimeLock ==
    \A e \in Ids : paidBy[e] = "beneficiary" =>
        /\ escrows[e].status = "released"
        /\ escrows[e].dispute_raised_at = NoTime
        /\ 0 < escrows[e].release_after
        /\ escrows[e].release_after <= escrows[e].resolved_at

\* A dispute stays on record and was raised in time by the window the escrow
\* was created with, whatever the default has become since.
DisputesInWindow ==
    \A e \in Ids :
        LET x == escrows[e] IN
        /\ x.status = "disputed" => x.dispute_raised_at # NoTime
        /\ x.dispute_raised_at # NoTime =>
               /\ x.dispute_window # 0
               /\ x.created_at <= x.dispute_raised_at
               /\ x.dispute_raised_at <= x.created_at + x.dispute_window

\* The two address indexes list exactly the escrows of that address.
IndexesAgree ==
    \A a \in Parties :
        /\ byDepositor[a] = {e \in Ids : escrows[e].status # "absent"
                                         /\ escrows[e].depositor = a}
        /\ byBeneficiary[a] = {e \in Ids : escrows[e].status # "absent"
                                           /\ escrows[e].beneficiary = a}

\* The escrows seen as deals: the contract keeps what EscrowPromise promises.
DealOf(x) ==
    CASE x.status = "absent" -> [state |-> "none"]
      [] x.status \in {"pending", "disputed"} ->
             [state |-> "held", from |-> x.depositor, to |-> x.beneficiary,
              amount |-> x.amount]
      [] OTHER -> [state |-> "settled"]

Promise == INSTANCE EscrowPromise WITH deal <- [e \in Ids |-> DealOf(escrows[e])]

PromiseKept == Promise!Spec

\* "seconds after escrow creation during which the depositor may raise a
\* dispute": while the contract runs, a depositor inside the window can.
DisputeCanBeRaised ==
    \A e \in Ids :
        /\ escrows[e].status = "pending" /\ ~paused
        /\ escrows[e].dispute_window # 0
        /\ now - escrows[e].created_at <= escrows[e].dispute_window
        => ENABLED raise_dispute(escrows[e].depositor, e)
=============================================================================

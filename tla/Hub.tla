-------------------------------- MODULE Hub --------------------------------
(***************************************************************************)
(* Who runs the BeaconPay hub and whether it runs: the administrator, a    *)
(* proposed transfer of that role, and the emergency pause.                *)
(***************************************************************************)
EXTENDS Ledger

CONSTANTS
    Tokens,          \* membership token ids
    TransferPeriod,  \* seconds a proposed administrator has to accept (86400)
    PauseLengths     \* auto_unpause_after and time_lock_duration in requests

ASSUME HubAssumption ==
    /\ TransferPeriod \in Nat
    /\ PauseLengths \subseteq Nat

VARIABLES
    transfer,  \* PendingAdminTransfer
    halt       \* EmergencyPauseState

NoTime == -1
Moment == Nat \cup {NoTime}

hub == <<ledger, transfer, halt>>

NoTransfer == [to |-> NoAccount, by |-> NoAccount, expiry |-> 0]
Running == [paused |-> FALSE, auto |-> NoTime, lock |-> NoTime]

HubInit ==
    /\ LedgerInit
    /\ transfer = NoTransfer
    /\ halt = Running

HubType ==
    /\ LedgerType
    /\ transfer \in [to : Accounts \cup {NoAccount},
                     by : Accounts \cup {NoAccount}, expiry : Nat]
    /\ halt \in [paused : BOOLEAN, auto : Moment, lock : Moment]

\* Nobody but the caller has to agree.
set_admin(caller) ==
    /\ admin' = caller
    /\ UNCHANGED <<now, wallet, transfer, halt>>

propose_admin_transfer(caller, new) ==
    /\ caller = admin /\ caller # new
    /\ transfer = NoTransfer
    /\ transfer' = [to |-> new, by |-> caller, expiry |-> now + TransferPeriod]
    /\ UNCHANGED <<ledger, halt>>

accept_admin_transfer(caller) ==
    /\ transfer # NoTransfer
    /\ caller = transfer.to
    /\ now <= transfer.expiry
    /\ admin' = caller
    /\ transfer' = NoTransfer
    /\ UNCHANGED <<now, wallet, halt>>

\* Only the proposer, administrator or not, may cancel.
cancel_admin_transfer(caller) ==
    /\ transfer # NoTransfer
    /\ caller = transfer.by
    /\ transfer' = NoTransfer
    /\ UNCHANGED <<ledger, halt>>

rotate_admin_key(caller, new) ==
    /\ caller = admin /\ caller # new
    /\ admin' = new
    /\ UNCHANGED <<now, wallet, transfer, halt>>

After(secs) == IF secs = NoTime THEN NoTime ELSE now + secs

emergency_pause(caller, auto, lock) ==
    /\ caller = admin
    /\ halt' = [paused |-> TRUE, auto |-> After(auto), lock |-> After(lock)]
    /\ UNCHANGED <<ledger, transfer>>

emergency_unpause(caller) ==
    /\ caller = admin
    /\ now >= halt.lock
    /\ halt' = Running
    /\ UNCHANGED <<ledger, transfer>>

\* require_not_paused: the pause lapses by itself at its deadline.
NotPaused == halt.paused => halt.auto # NoTime /\ now >= halt.auto

HubCall(caller) ==
    \/ set_admin(caller)
    \/ \E new \in Accounts : \/ propose_admin_transfer(caller, new)
                             \/ rotate_admin_key(caller, new)
    \/ accept_admin_transfer(caller) \/ cancel_admin_transfer(caller)
    \/ \E auto, lock \in PauseLengths \cup {NoTime} :
          emergency_pause(caller, auto, lock)
    \/ emergency_unpause(caller)

HubTick == LedgerCloses /\ UNCHANGED <<transfer, halt>>

HubNext ==
    \/ \E caller \in Accounts : HubCall(caller)
    \/ HubTick

\* What the hub's other parts see of this: the administrator may be anybody (a
\* transfer or rotation changes the role as set_admin does), and a halt may begin
\* or end at any time (one that lapses ends as one that is lifted does).
HubGovernance ==
    \E caller \in Accounts : \/ set_admin(caller)
                            \/ emergency_pause(caller, NoTime, NoTime)
                            \/ emergency_unpause(caller)

HubEnvironment == HubGovernance \/ HubTick

=============================================================================

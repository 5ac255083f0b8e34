-------------------------- MODULE WorkspaceBooking --------------------------
(***************************************************************************)
(* The workspace_booking contract: members pay the vault for a half-open   *)
(* slot of a workspace; cancelling refunds them, completing keeps the      *)
(* money.  Names, types, capacities and timestamps of a record are never   *)
(* read again and are left out.                                            *)
(***************************************************************************)
EXTENDS Ledger

CONSTANTS
    Workspaces, BookingIds,
    PaymentToken,   \* the coin given to initialize
    Rates,          \* hourly_rate in requests (u128)
    Slots,          \* timestamps used as start_time and end_time
    Hour,           \* seconds in an hour (3600)
    NoWorkspace

ASSUME WorkspaceAssumption ==
    /\ PaymentToken \in Coins
    /\ NoWorkspace \notin Workspaces
    /\ Slots \subseteq Nat /\ Hour \in Nat \ {0}
    /\ Rates \subseteq 0..MaxU128

VARIABLES
    paused,       \* ContractPaused
    workspace,    \* Workspace(id)
    booking,      \* Booking(id)
    byWorkspace,  \* WorkspaceBookings(id)
    byMember      \* MemberBookings(address)

WB_state == <<paused, workspace, booking, byWorkspace, byMember>>
WB_vars == <<ledger, WB_state>>

WorkspaceRecord == [registered : BOOLEAN, rate : 0..MaxU128, open : BOOLEAN]
BookingStatuses == {"absent", "active", "completed", "cancelled"}
BookingRecord == [status : BookingStatuses, room : Workspaces \cup {NoWorkspace},
                  member : Parties, from : Slots \cup {0}, to : Slots \cup {0},
                  amount : 0..MaxU128]

NoRecord == [registered |-> FALSE, rate |-> 0, open |-> FALSE]
NoBookingRecord == [status |-> "absent", room |-> NoWorkspace, member |-> Vault,
                    from |-> 0, to |-> 0, amount |-> 0]

WB_Init ==
    /\ paused = FALSE
    /\ workspace = [s \in Workspaces |-> NoRecord]
    /\ booking = [b \in BookingIds |-> NoBookingRecord]
    /\ byWorkspace = [s \in Workspaces |-> {}]
    /\ byMember = [a \in Parties |-> {}]

WB_initialize(caller) == SetAdmin(caller) /\ UNCHANGED WB_state

pause(caller) ==
    /\ caller = admin
    /\ paused' = TRUE
    /\ UNCHANGED <<ledger, workspace, booking, byWorkspace, byMember>>

unpause(caller) ==
    /\ caller = admin
    /\ paused' = FALSE
    /\ UNCHANGED <<ledger, workspace, booking, byWorkspace, byMember>>

register_workspace(caller, s, rate) ==
    /\ ~paused /\ caller = admin
    /\ rate # 0
    /\ ~workspace[s].registered
    /\ workspace' = [workspace EXCEPT ![s] =
                        [registered |-> TRUE, rate |-> rate, open |-> TRUE]]
    /\ UNCHANGED <<ledger, paused, booking, byWorkspace, byMember>>

set_workspace_availability(caller, s, open) ==
    /\ ~paused /\ caller = admin
    /\ workspace[s].registered
    /\ workspace' = [workspace EXCEPT ![s].open = open]
    /\ UNCHANGED <<ledger, paused, booking, byWorkspace, byMember>>

set_workspace_rate(caller, s, rate) ==
    /\ ~paused /\ caller = admin
    /\ rate # 0
    /\ workspace[s].registered
    /\ workspace' = [workspace EXCEPT ![s].rate = rate]
    /\ UNCHANGED <<ledger, paused, booking, byWorkspace, byMember>>

\* Mutant: the scan looks for a booking that starts or ends inside the slot, and
\* misses one that covers it.
Mut_is_slot_available(s, from, to) ==
    \A b \in byWorkspace[s] :
        booking[b].status = "active" =>
            /\ ~(from <= booking[b].from /\ booking[b].from < to)
            /\ ~(from < booking[b].to /\ booking[b].to < to)

\* The scan of the workspace's index.
is_slot_available(s, from, to) ==
    \A b \in byWorkspace[s] :
        booking[b].status = "active" =>
            ~(booking[b].from < to /\ booking[b].to > from)

\* hourly_rate * ceil(duration / hour), in u128; too large a product is an error.
Cost(rate, from, to) == rate * ((to - from + Hour - 1) \div Hour)

\* amount as i128
AsI128(n) == IF n <= MaxU128 \div 2 THEN n ELSE n - (MaxU128 + 1)

book_workspace(member, b, s, from, to) ==
    /\ ~paused
    /\ booking[b].status = "absent"
    /\ from < to /\ now < to
    /\ workspace[s].registered /\ workspace[s].open
    /\ is_slot_available(s, from, to)
    /\ LET amount == Cost(workspace[s].rate, from, to)
       IN  /\ amount <= MaxU128
           /\ admin # NoAccount               \* the payment token is set
           /\ Transfer(PaymentToken, member, Vault, AsI128(amount))
           /\ booking' = [booking EXCEPT ![b] =
                  [status |-> "active", room |-> s, member |-> member,
                   from |-> from, to |-> to, amount |-> amount]]
    /\ byWorkspace' = [byWorkspace EXCEPT ![s] = @ \cup {b}]
    /\ byMember' = [byMember EXCEPT ![member] = @ \cup {b}]
    /\ UNCHANGED <<now, admin, paused, workspace>>

\* Mutant: the refund is worked out anew at the workspace's current rate.
Mut_cancel_booking(caller, b) ==
    /\ ~paused
    /\ caller = booking[b].member \/ caller = admin
    /\ booking[b].status = "active"
    /\ Transfer(PaymentToken, Vault, booking[b].member,
                Cost(workspace[booking[b].room].rate, booking[b].from,
                     booking[b].to))
    /\ booking' = [booking EXCEPT ![b].status = "cancelled"]
    /\ UNCHANGED <<now, admin, paused, workspace, byWorkspace, byMember>>

cancel_booking(caller, b) ==
    /\ ~paused
    /\ caller = booking[b].member \/ caller = admin
    /\ booking[b].status = "active"
    /\ Transfer(PaymentToken, Vault, booking[b].member, AsI128(booking[b].amount))
    /\ booking' = [booking EXCEPT ![b].status = "cancelled"]
    /\ UNCHANGED <<now, admin, paused, workspace, byWorkspace, byMember>>

complete_booking(caller, b) ==
    /\ ~paused /\ caller = admin
    /\ booking[b].status = "active"
    /\ booking' = [booking EXCEPT ![b].status = "completed"]
    /\ UNCHANGED <<ledger, paused, workspace, byWorkspace, byMember>>

WB_Call(caller) ==
    \/ WB_initialize(caller) \/ pause(caller) \/ unpause(caller)
    \/ \E s \in Workspaces :
         \/ \E rate \in Rates : \/ register_workspace(caller, s, rate)
                                \/ set_workspace_rate(caller, s, rate)
         \/ \E open \in BOOLEAN : set_workspace_availability(caller, s, open)
         \/ \E b \in BookingIds, from, to \in Slots :
               book_workspace(caller, b, s, from, to)
    \/ \E b \in BookingIds : cancel_booking(caller, b) \/ complete_booking(caller, b)

WB_Next ==
    \/ \E caller \in Accounts : WB_Call(caller)
    \/ LedgerCloses /\ UNCHANGED WB_state

WB_Spec == LedgerInit /\ WB_Init /\ [][WB_Next]_WB_vars

-----------------------------------------------------------------------------
WB_TypeOK ==
    /\ LedgerType
    /\ paused \in BOOLEAN
    /\ workspace \in [Workspaces -> WorkspaceRecord]
    /\ booking \in [BookingIds -> BookingRecord]
    /\ byWorkspace \in [Workspaces -> SUBSET BookingIds]
    /\ byMember \in [Parties -> SUBSET BookingIds]

\* The bookings seen as a calendar: between the scan of an index that keeps
\* cancelled and completed bookings, rate changes and pauses, the contract only
\* ever gives out slots SlotCalendar allows.
SlotOf(x) ==
    CASE x.status = "absent" -> [state |-> "free"]
      [] x.status = "active" -> [state |-> "held", room |-> x.room,
                                 member |-> x.member, from |-> x.from, to |-> x.to]
      [] OTHER -> [state |-> "gone"]

Calendar == INSTANCE SlotCalendar WITH
    Reservations <- BookingIds, Rooms <- Workspaces, Members <- Accounts,
    Moments <- Slots, held <- [b \in BookingIds |-> SlotOf(booking[b])],
    clock <- now

CalendarKept == Calendar!Spec

PaidFor == {b \in BookingIds : booking[b].status \in {"active", "completed"}}
Prices == [b \in BookingIds |-> booking[b].amount]

\* "Full refunds": the vault holds what was paid for the bookings that were not
\* cancelled, so every active booking can still be refunded, at the price it was
\* bought for, whatever the rate is now.
RefundsCovered ==
    SumFunctionOnSet(Prices, PaidFor) <= wallet[PaymentToken][Vault]
=============================================================================

-------------------------- MODULE ContractsProofs ---------------------------
(***************************************************************************)
(* Proofs about the contracts that keep a ledger, about access control,    *)
(* and about the contracts together.                                       *)
(*                                                                         *)
(* workspace_booking: types, that it is the calendar SlotCalendar          *)
(* describes, that no two active bookings overlap, and that every refund   *)
(* is covered; the scan for free slots reads the index of the workspace,   *)
(* so the argument needs the invariant that every active booking is in the *)
(* index of its workspace. resource_credits: types, and that credits add   *)
(* up and expire once. Staking in the hub: types, and that the vault holds *)
(* every stake.                                                            *)
(*                                                                         *)
(* access_control: the board, the configuration and the pause change only  *)
(* by a carried proposal, which rests on the invariant that there is a     *)
(* board, or a proposal, only after the initialization, or it could be     *)
(* initialized a second time, past the board; the pending proposals are    *)
(* counted; and the board can act as long as the configurations it carried *)
(* are sensible, because its length is then the number of its members.     *)
(*                                                                         *)
(* At the end, that the storage of all contracts keeps its types in a run  *)
(* that calls any of them, and that the parts of the hub keep on one       *)
(* ledger and under the real administration what each keeps alone.         *)
(***************************************************************************)
EXTENDS MCContracts, HubProofs, HubSubscriptionsProofs, SequenceTheorems

Indexed ==
    \A b \in BookingIds :
        booking[b].status = "active" =>
            /\ booking[b].room \in Workspaces
            /\ b \in byWorkspace[booking[b].room]

BookingInv == WB_TypeOK /\ Indexed

-----------------------------------------------------------------------------
\* A transfer leaves every balance a natural number.
LEMMA TransferType ==
    ASSUME NEW coin \in Coins, NEW from \in Parties, NEW to \in Parties,
           NEW amount \in Int, wallet \in [Coins -> [Parties -> Nat]],
           Transfer(coin, from, to, amount)
    PROVE  wallet' \in [Coins -> [Parties -> Nat]]
<1>1. CASE from = to
  BY <1>1 DEF Transfer
<1>2. CASE from # to
  <2> DEFINE purse == [wallet[coin] EXCEPT ![from] = @ - amount, ![to] = @ + amount]
  <2>1. wallet[coin] \in [Parties -> Nat]
    OBVIOUS
  <2>2. wallet[coin][from] - amount \in Nat /\ wallet[coin][to] + amount \in Nat
    BY <2>1 DEF Transfer
  <2>3. purse \in [Parties -> Nat]
    BY <2>1, <2>2, <1>2
  <2>4. wallet' = [wallet EXCEPT ![coin] = purse]
    BY <1>2, <2>1 DEF Transfer
  <2> QED
    BY <2>3, <2>4
<1> QED
  BY <1>1, <1>2

\* What a transfer of the payment token does to the vault's balance.
VaultHas == wallet[PaymentToken][Vault]

LEMMA TransferVault ==
    ASSUME NEW party \in Parties, NEW n \in 0..MaxU128,
           wallet \in [Coins -> [Parties -> Nat]]
    PROVE  /\ party # Vault /\ Transfer(PaymentToken, party, Vault, AsI128(n))
                  => VaultHas' = VaultHas + n
           /\ Transfer(PaymentToken, Vault, party, AsI128(n))
                  => VaultHas' \in {VaultHas, VaultHas - n}
<1>1. MaxU128 \in Nat /\ PaymentToken \in Coins /\ Vault \in Parties
  BY LedgerAssumption, WorkspaceAssumption DEF Parties
<1>2. VaultHas \in Nat
  BY <1>1 DEF VaultHas
<1>3. 0 <= AsI128(n) => AsI128(n) = n
  BY <1>1 DEF AsI128
<1>4. ASSUME party # Vault, Transfer(PaymentToken, party, Vault, AsI128(n))
      PROVE  VaultHas' = VaultHas + n
  <2>1. wallet' = [wallet EXCEPT ![PaymentToken][party] = @ - n,
                                 ![PaymentToken][Vault] = @ + n]
    BY <1>3, <1>4 DEF Transfer
  <2> QED
    BY <1>1, <1>4, <2>1 DEF VaultHas
<1>5. ASSUME Transfer(PaymentToken, Vault, party, AsI128(n))
      PROVE  VaultHas' \in {VaultHas, VaultHas - n}
  <2>1. CASE party = Vault
    BY <1>5, <2>1 DEF Transfer, VaultHas
  <2>2. CASE party # Vault
    <3>1. wallet' = [wallet EXCEPT ![PaymentToken][Vault] = @ - n,
                                   ![PaymentToken][party] = @ + n]
      BY <1>3, <1>5, <2>2 DEF Transfer
    <3> QED
      BY <1>1, <2>2, <3>1 DEF VaultHas
  <2> QED
    BY <2>1, <2>2
<1> QED
  BY <1>4, <1>5

\* Rounding the hours up gives a number of them, and the cost is one too.
LEMMA CostType ==
    ASSUME NEW rate \in Nat, NEW from \in Nat, NEW to \in Nat, from < to
    PROVE  Cost(rate, from, to) \in Nat
<1> DEFINE secs == to - from + Hour - 1
<1>1. secs \in Nat /\ Hour \in Nat \ {0}
  BY WorkspaceAssumption
<1> HIDE DEF secs
<1>2. secs \div Hour \in Nat
  BY <1>1
<1>3. \A m, n \in Nat : m * n \in Nat
  OBVIOUS
<1> QED
  BY <1>2, <1>3 DEF Cost, secs

LEMMA AsI128Type ==
    ASSUME NEW n \in 0..MaxU128
    PROVE  AsI128(n) \in Int
<1>1. MaxU128 \in Nat
  BY LedgerAssumption
<1> QED
  BY <1>1 DEF AsI128

-----------------------------------------------------------------------------
\* What each call leaves alone, one way for all the calls of the administrator.
Configures ==
    /\ WB_TypeOK'
    /\ UNCHANGED <<booking, byWorkspace, now, wallet>>

LEMMA ConfigureStep ==
    ASSUME WB_TypeOK, NEW caller \in Accounts,
           \/ WB_initialize(caller) \/ pause(caller) \/ unpause(caller)
           \/ \E s \in Workspaces :
                \/ \E rate \in Rates : \/ register_workspace(caller, s, rate)
                                       \/ set_workspace_rate(caller, s, rate)
                \/ \E open \in BOOLEAN : set_workspace_availability(caller, s, open)
    PROVE  Configures
<1> USE DEF WB_TypeOK, LedgerType, Configures
<1>1. CASE WB_initialize(caller)
  BY <1>1 DEF WB_initialize, SetAdmin, WB_state
<1>2. CASE pause(caller) \/ unpause(caller)
  BY <1>2 DEF pause, unpause, ledger
<1>3. ASSUME NEW s \in Workspaces, NEW rate \in Rates, register_workspace(caller, s, rate)
      PROVE  Configures
  <2>1. [registered |-> TRUE, rate |-> rate, open |-> TRUE] \in WorkspaceRecord
    BY WorkspaceAssumption DEF WorkspaceRecord
  <2> QED
    BY <1>3, <2>1 DEF register_workspace, ledger
<1>4. ASSUME NEW s \in Workspaces, NEW rate \in Rates, set_workspace_rate(caller, s, rate)
      PROVE  Configures
  <2>1. [workspace[s] EXCEPT !.rate = rate] \in WorkspaceRecord
    BY WorkspaceAssumption DEF WorkspaceRecord
  <2> QED
    BY <1>4, <2>1 DEF set_workspace_rate, ledger
<1>5. ASSUME NEW s \in Workspaces, NEW open \in BOOLEAN,
             set_workspace_availability(caller, s, open)
      PROVE  Configures
  <2>1. [workspace[s] EXCEPT !.open = open] \in WorkspaceRecord
    BY DEF WorkspaceRecord
  <2> QED
    BY <1>5, <2>1 DEF set_workspace_availability, ledger
<1> QED
  BY <1>1, <1>2, <1>3, <1>4, <1>5

\* A booking made: the record stored, of the right type.
BookedAs(tenant, s, from, to) ==
    [status |-> "active", room |-> s, member |-> tenant, from |-> from, to |-> to,
     amount |-> Cost(workspace[s].rate, from, to)]

LEMMA BookStep ==
    ASSUME WB_TypeOK, NEW tenant \in Accounts, NEW b \in BookingIds,
           NEW s \in Workspaces, NEW from \in Slots, NEW to \in Slots,
           book_workspace(tenant, b, s, from, to)
    PROVE  /\ WB_TypeOK'
           /\ booking' = [booking EXCEPT ![b] = BookedAs(tenant, s, from, to)]
           /\ byWorkspace' = [byWorkspace EXCEPT ![s] = @ \cup {b}]
           /\ VaultHas' = VaultHas + BookedAs(tenant, s, from, to).amount
           /\ booking[b].status = "absent"
<1> USE DEF WB_TypeOK, LedgerType
<1> DEFINE amount == Cost(workspace[s].rate, from, to)
<1>1. workspace[s].rate \in Nat /\ from \in Nat /\ to \in Nat /\ from < to
  BY WorkspaceAssumption, LedgerAssumption DEF WorkspaceRecord, book_workspace
<1>2. amount \in 0..MaxU128
  BY <1>1, CostType, LedgerAssumption DEF book_workspace
<1>3. tenant \in Parties /\ Vault \in Parties
  BY DEF Parties
<1>4. wallet' \in [Coins -> [Parties -> Nat]]
  BY <1>2, <1>3, TransferType, AsI128Type, WorkspaceAssumption DEF book_workspace
<1>5. BookedAs(tenant, s, from, to) \in BookingRecord
  BY <1>2, <1>3 DEF BookedAs, BookingRecord, BookingStatuses
<1>6. booking' = [booking EXCEPT ![b] = BookedAs(tenant, s, from, to)]
  BY DEF book_workspace, BookedAs
<1>7. byWorkspace' = [byWorkspace EXCEPT ![s] = @ \cup {b}]
      /\ byMember' = [byMember EXCEPT ![tenant] = @ \cup {b}]
      /\ UNCHANGED <<now, admin, paused, workspace>>
  BY DEF book_workspace
<1>8. booking' \in [BookingIds -> BookingRecord]
  BY <1>5, <1>6
<1>9. byWorkspace' \in [Workspaces -> SUBSET BookingIds]
      /\ byMember' \in [Parties -> SUBSET BookingIds]
  BY <1>3, <1>7
<1>10. VaultHas' = VaultHas + amount /\ booking[b].status = "absent"
  <2>1. tenant # Vault
    BY LedgerAssumption
  <2> QED
    BY <1>2, <1>3, <2>1, TransferVault DEF book_workspace
<1>11. BookedAs(tenant, s, from, to).amount = amount
  BY DEF BookedAs
<1> QED
  BY <1>4, <1>6, <1>7, <1>8, <1>9, <1>10, <1>11

\* A booking closed: cancelled, or completed.
ClosesBooking(b) ==
    /\ booking[b].status = "active"
    /\ \E status \in {"cancelled", "completed"} :
          /\ booking' = [booking EXCEPT ![b].status = status]
          /\ VaultHas' \in {VaultHas} \cup (IF status = "cancelled"
                                   THEN {VaultHas - booking[b].amount} ELSE {})
    /\ WB_TypeOK'
    /\ UNCHANGED <<byWorkspace, now>>

LEMMA CloseStep ==
    ASSUME WB_TypeOK, NEW caller \in Accounts, NEW b \in BookingIds,
           cancel_booking(caller, b) \/ complete_booking(caller, b)
    PROVE  ClosesBooking(b)
<1> USE DEF WB_TypeOK, LedgerType
<1>1. ASSUME NEW status \in {"cancelled", "completed"}
      PROVE  [booking EXCEPT ![b].status = status] \in [BookingIds -> BookingRecord]
  <2>1. [booking[b] EXCEPT !.status = status] \in BookingRecord
    BY DEF BookingRecord, BookingStatuses
  <2> QED
    BY <2>1
<1>2. CASE cancel_booking(caller, b)
  <2>1. booking[b].amount \in 0..MaxU128 /\ booking[b].member \in Parties
        /\ Vault \in Parties
    BY DEF BookingRecord, Parties
  <2>2. wallet' \in [Coins -> [Parties -> Nat]]
    BY <1>2, <2>1, TransferType, AsI128Type, WorkspaceAssumption DEF cancel_booking
  <2>3. VaultHas' \in {VaultHas, VaultHas - booking[b].amount}
    BY <1>2, <2>1, TransferVault DEF cancel_booking
  <2> QED
    BY <1>1, <1>2, <2>2, <2>3 DEF ClosesBooking, cancel_booking
<1>3. CASE complete_booking(caller, b)
  BY <1>1, <1>3 DEF ClosesBooking, complete_booking, ledger, VaultHas
<1> QED
  BY <1>2, <1>3

-----------------------------------------------------------------------------
LEMMA InitBooking == LedgerInit /\ WB_Init => BookingInv
<1> SUFFICES ASSUME LedgerInit, WB_Init
             PROVE  BookingInv
  OBVIOUS
<1>1. LedgerType
  BY LedgerAssumption DEF LedgerInit, LedgerType, Times, Parties
<1>2. NoRecord \in WorkspaceRecord
  BY LedgerAssumption DEF NoRecord, WorkspaceRecord
<1>3. NoBookingRecord \in BookingRecord /\ NoBookingRecord.status = "absent"
  BY LedgerAssumption DEF NoBookingRecord, BookingRecord, BookingStatuses, Parties
<1>4. WB_TypeOK
  BY <1>1, <1>2, <1>3 DEF WB_Init, WB_TypeOK
<1> QED
  BY <1>3, <1>4 DEF BookingInv, Indexed, WB_Init

\* The four ways a step can go.
LEMMA BookingSteps ==
    ASSUME WB_TypeOK, [WB_Next]_WB_vars
    PROVE  \/ Configures
           \/ \E tenant \in Accounts, b \in BookingIds, s \in Workspaces,
                 from, to \in Slots : book_workspace(tenant, b, s, from, to)
           \/ \E b \in BookingIds : ClosesBooking(b)
           \/ LedgerCloses /\ UNCHANGED WB_state
<1>1. ASSUME NEW caller \in Accounts, WB_Call(caller)
      PROVE  \/ Configures
             \/ \E tenant \in Accounts, b \in BookingIds, s \in Workspaces,
                   from, to \in Slots : book_workspace(tenant, b, s, from, to)
             \/ \E b \in BookingIds : ClosesBooking(b)
  BY <1>1, ConfigureStep, CloseStep DEF WB_Call
<1>2. CASE UNCHANGED WB_vars
  BY <1>2 DEF WB_vars, WB_state, ledger, Configures, WB_TypeOK, LedgerType
<1> QED
  BY <1>1, <1>2 DEF WB_Next

LEMMA NextBooking ==
    ASSUME BookingInv, [WB_Next]_WB_vars
    PROVE  BookingInv'
<1> USE DEF BookingInv
<1>1. CASE Configures
  BY <1>1 DEF Configures, Indexed
<1>2. ASSUME NEW tenant \in Accounts, NEW b \in BookingIds, NEW s \in Workspaces,
             NEW from \in Slots, NEW to \in Slots,
             book_workspace(tenant, b, s, from, to)
      PROVE  BookingInv'
  <2>1. WB_TypeOK' /\ booking' = [booking EXCEPT ![b] = BookedAs(tenant, s, from, to)]
        /\ byWorkspace' = [byWorkspace EXCEPT ![s] = @ \cup {b}]
    BY <1>2, BookStep
  <2>2. booking \in [BookingIds -> BookingRecord]
        /\ byWorkspace \in [Workspaces -> SUBSET BookingIds]
    BY DEF WB_TypeOK
  <2>3. booking'[b].room = s /\ b \in byWorkspace'[s]
    BY <2>1, <2>2 DEF BookedAs
  <2>4. \A k \in BookingIds \ {b} : booking'[k] = booking[k]
    BY <2>1
  <2>5. \A x \in Workspaces : byWorkspace[x] \subseteq byWorkspace'[x]
    BY <2>1, <2>2
  <2>6. Indexed'
    BY <2>3, <2>4, <2>5 DEF Indexed
  <2> QED
    BY <2>1, <2>6
<1>3. ASSUME NEW b \in BookingIds, ClosesBooking(b)
      PROVE  BookingInv'
  <2>1. booking \in [BookingIds -> BookingRecord]
    BY DEF WB_TypeOK
  <2>2. booking'[b].status # "active"
    BY <1>3, <2>1 DEF ClosesBooking, BookingRecord
  <2>3. \A k \in BookingIds \ {b} : booking'[k] = booking[k]
    BY <1>3 DEF ClosesBooking
  <2> QED
    BY <1>3, <2>2, <2>3 DEF ClosesBooking, Indexed
<1>4. CASE LedgerCloses /\ UNCHANGED WB_state
  <2>1. WB_TypeOK'
    BY <1>4, LedgerAssumption DEF LedgerCloses, WB_state, WB_TypeOK, LedgerType, Times
  <2> QED
    BY <1>4, <2>1 DEF WB_state, Indexed
<1> QED
  BY <1>1, <1>2, <1>3, <1>4, BookingSteps

\* Types, and every active booking is in the index its workspace is searched by.
THEOREM BookingsIndexed == WB_Spec => []BookingInv
<1>1. BookingInv /\ [WB_Next]_WB_vars => BookingInv'
  BY NextBooking
<1> QED
  BY <1>1, InitBooking, PTL DEF WB_Spec

-----------------------------------------------------------------------------
held == [b \in BookingIds |-> SlotOf(booking[b])]

LEMMA SlotsAreInts == \A x \in Slots \cup {0} : x \in Int
<1>1. Slots \subseteq Nat
  BY WorkspaceAssumption
<1> QED
  BY <1>1

\* A slot the contract gives is one the calendar may give: whatever the index still
\* holds of cancelled and completed bookings, no active one of the room overlaps it.
LEMMA BookReserves ==
    ASSUME BookingInv, NEW tenant \in Accounts, NEW b \in BookingIds,
           NEW s \in Workspaces, NEW from \in Slots, NEW to \in Slots,
           book_workspace(tenant, b, s, from, to)
    PROVE  Calendar!Reserve(b)
<1> DEFINE h == [state |-> "held", room |-> s, member |-> tenant, from |-> from,
                 to |-> to]
<1>1. booking \in [BookingIds -> BookingRecord]
  BY DEF BookingInv, WB_TypeOK
<1>2. booking' = [booking EXCEPT ![b] = BookedAs(tenant, s, from, to)]
  BY BookStep DEF BookingInv
<1>3. SlotOf(BookedAs(tenant, s, from, to)) = h
  BY DEF SlotOf, BookedAs
<1>4. held' = [held EXCEPT ![b] = h]
  BY <1>1, <1>2, <1>3 DEF held
<1>5. held'[b] = h
  BY <1>4 DEF held
<1>6. held[b] = Calendar!Free
  BY DEF held, SlotOf, Calendar!Free, book_workspace
<1>7. from < to /\ now < to /\ UNCHANGED now
  BY DEF book_workspace
<1>8. ~Calendar!Clash(s, from, to)
  <2> SUFFICES ASSUME NEW r \in BookingIds, held[r].state = "held", held[r].room = s,
                      held[r].from < to, from < held[r].to
               PROVE  FALSE
    BY DEF Calendar!Clash, held
  <2>1. booking[r].status = "active"
    BY DEF held, SlotOf
  <2>2. held[r] = [state |-> "held", room |-> booking[r].room,
                   member |-> booking[r].member, from |-> booking[r].from,
                   to |-> booking[r].to]
    BY <2>1 DEF held, SlotOf
  <2>3. r \in byWorkspace[s]
    BY <2>1, <2>2 DEF BookingInv, Indexed
  <2>4. ~(booking[r].from < to /\ booking[r].to > from)
    BY <2>1, <2>3 DEF book_workspace, is_slot_available
  <2>5. booking[r].to \in Int /\ from \in Int
    <3>1. booking[r] \in BookingRecord
      BY <1>1
    <3>2. booking[r].to \in Slots \cup {0}
      BY <3>1 DEF BookingRecord
    <3>3. from \in Slots \cup {0}
      OBVIOUS
    <3> QED
      BY <3>2, <3>3, SlotsAreInts
  <2> QED
    BY <2>2, <2>4, <2>5
<1>9. h.state = "held" /\ h.room = s /\ h.member = tenant /\ h.from = from /\ h.to = to
  OBVIOUS
<1> HIDE DEF h
<1>10. held'[b].room \in Workspaces /\ held'[b].member \in Accounts
       /\ {held'[b].from, held'[b].to} \subseteq Slots
       /\ held'[b].from < held'[b].to /\ now < held'[b].to
  BY <1>5, <1>7, <1>9
<1>11. ~Calendar!Clash(held'[b].room, held'[b].from, held'[b].to)
  BY <1>5, <1>8, <1>9
<1>12. held' = [held EXCEPT ![b] = held'[b]] /\ held'[b].state = "held"
  BY <1>4, <1>5, <1>9
<1> QED
  BY <1>6, <1>7, <1>10, <1>11, <1>12 DEF Calendar!Reserve, held

LEMMA CloseGivesBack ==
    ASSUME BookingInv, NEW b \in BookingIds, ClosesBooking(b)
    PROVE  Calendar!GiveBack(b)
<1>1. booking \in [BookingIds -> BookingRecord]
  BY DEF BookingInv, WB_TypeOK
<1>2. booking'[b].status \in {"cancelled", "completed"}
  BY <1>1 DEF ClosesBooking, BookingRecord
<1>3. SlotOf(booking'[b]) = Calendar!Gone
  BY <1>2 DEF SlotOf, Calendar!Gone
<1>4. \A k \in BookingIds \ {b} : booking'[k] = booking[k]
  BY DEF ClosesBooking
<1>5. held' = [held EXCEPT ![b] = Calendar!Gone]
  BY <1>3, <1>4 DEF held
<1>6. held[b].state = "held"
  BY DEF held, SlotOf, ClosesBooking
<1> QED
  BY <1>5, <1>6 DEF Calendar!GiveBack, held, ClosesBooking

\* The workspace_booking contract keeps the calendar: no two members hold overlapping
\* slots of a workspace, and a slot held is not moved, passed on or restored, for any
\* number of bookings, rates and pauses (book_workspace, cancel_booking).
THEOREM ContractKeepsCalendar == WB_Spec => CalendarKept
<1>1. LedgerInit /\ WB_Init => Calendar!Init
  BY DEF LedgerInit, WB_Init, Calendar!Init, NoBookingRecord, SlotOf, Calendar!Free
<1>2. BookingInv /\ [WB_Next]_WB_vars => [Calendar!Next]_<<held, now>>
  <2> SUFFICES ASSUME BookingInv, [WB_Next]_WB_vars
               PROVE  Calendar!Next \/ UNCHANGED <<held, now>>
    OBVIOUS
  <2>1. CASE Configures
    BY <2>1 DEF Configures, held
  <2>2. CASE LedgerCloses /\ UNCHANGED WB_state
    <3>1. now' > now
      BY <2>2, LedgerAssumption DEF LedgerCloses, BookingInv, WB_TypeOK, LedgerType, Times
    <3> QED
      BY <2>2, <3>1 DEF WB_state, Calendar!Next, Calendar!Tick
  <2> QED
    BY <2>1, <2>2, BookingSteps, BookReserves, CloseGivesBack DEF Calendar!Next, BookingInv
<1> QED
  BY <1>1, <1>2, BookingsIndexed, PTL DEF CalendarKept, WB_Spec, Calendar!Spec, held

\* What the calendar is for: no two bookings that are active share a moment of a
\* workspace.
NoDoubleBooking ==
    \A b, c \in BookingIds :
        /\ b # c /\ booking[b].status = "active" /\ booking[c].status = "active"
        /\ booking[b].room = booking[c].room
        => booking[b].to <= booking[c].from \/ booking[c].to <= booking[b].from

LEMMA ApartStep ==
    ASSUME BookingInv, NoDoubleBooking, [WB_Next]_WB_vars
    PROVE  NoDoubleBooking'
<1>1. CASE UNCHANGED booking
  BY <1>1 DEF NoDoubleBooking
<1>2. ASSUME NEW tenant \in Accounts, NEW b \in BookingIds, NEW s \in Workspaces,
             NEW from \in Slots, NEW to \in Slots, book_workspace(tenant, b, s, from, to)
      PROVE  NoDoubleBooking'
  <2>1. booking \in [BookingIds -> BookingRecord]
    BY DEF BookingInv, WB_TypeOK
  <2>2. booking' = [booking EXCEPT ![b] = BookedAs(tenant, s, from, to)]
    BY <1>2, BookStep DEF BookingInv
  <2>3. /\ booking'[b].room = s /\ booking'[b].from = from /\ booking'[b].to = to
        /\ \A c \in BookingIds \ {b} : booking'[c] = booking[c]
    BY <2>1, <2>2 DEF BookedAs
  <2>4. ASSUME NEW c \in BookingIds \ {b}, booking[c].status = "active", booking[c].room = s
        PROVE  to <= booking[c].from \/ booking[c].to <= from
    <3>1. ~(booking[c].from < to /\ booking[c].to > from)
      BY <1>2, <2>4 DEF book_workspace, is_slot_available, BookingInv, Indexed
    <3>2. booking[c] \in BookingRecord
      BY <2>1
    <3>3. {booking[c].from, booking[c].to, from, to} \subseteq Slots \cup {0}
      BY <3>2 DEF BookingRecord
    <3> QED
      BY <3>1, <3>3, SlotsAreInts
  <2> QED
    BY <2>3, <2>4 DEF NoDoubleBooking
<1>3. ASSUME NEW b \in BookingIds, ClosesBooking(b)
      PROVE  NoDoubleBooking'
  <2>1. booking \in [BookingIds -> BookingRecord]
    BY DEF BookingInv, WB_TypeOK
  <2>2. booking'[b].status # "active"
    BY <1>3, <2>1 DEF ClosesBooking, BookingRecord
  <2>3. \A c \in BookingIds \ {b} : booking'[c] = booking[c]
    BY <1>3 DEF ClosesBooking
  <2> QED
    BY <2>2, <2>3 DEF NoDoubleBooking
<1> QED
  BY <1>1, <1>2, <1>3, BookingSteps DEF BookingInv, Configures, WB_state

\* Whatever members book, cancel and have completed, and whatever of it the index of a
\* workspace still lists, no two of them have the workspace at the same time, for any
\* members, workspaces and slots (book_workspace, is_slot_available).
THEOREM NeverDoubleBooked == WB_Spec => []NoDoubleBooking
<1>1. BookingInv /\ NoDoubleBooking /\ [WB_Next]_WB_vars => NoDoubleBooking'
  BY ApartStep
<1>2. WB_Init => NoDoubleBooking
  BY DEF WB_Init, NoDoubleBooking, NoBookingRecord
<1> QED
  BY <1>1, <1>2, BookingsIndexed, PTL DEF WB_Spec

-----------------------------------------------------------------------------
\* The bookings that were paid for and not refunded are finitely many, and the
\* vault holds what was paid for them.
RefundInv == BookingInv /\ IsFiniteSet(PaidFor) /\ RefundsCovered

LEMMA InitRefunds == LedgerInit /\ WB_Init => RefundInv
<1> SUFFICES ASSUME LedgerInit, WB_Init PROVE RefundInv
  OBVIOUS
<1>1. PaidFor = {}
  BY DEF WB_Init, NoBookingRecord, PaidFor
<1>2. wallet[PaymentToken][Vault] = 0
  BY WorkspaceAssumption DEF LedgerInit, Parties
<1>3. SumFunctionOnSet(Prices, {}) = 0 /\ IsFiniteSet({})
  BY FS_EmptySet, SumStep
<1> QED
  BY <1>1, <1>2, <1>3, InitBooking DEF RefundInv, RefundsCovered

LEMMA NextRefunds ==
    ASSUME RefundInv, [WB_Next]_WB_vars
    PROVE  RefundInv'
<1> USE DEF RefundInv
<1>1. BookingInv'
  BY NextBooking
<1>2. /\ booking \in [BookingIds -> BookingRecord]
      /\ booking' \in [BookingIds -> BookingRecord]
      /\ VaultHas \in Nat /\ VaultHas' \in Nat
  BY <1>1, WorkspaceAssumption
     DEF BookingInv, WB_TypeOK, LedgerType, VaultHas, Parties
<1>3. /\ \A k \in BookingIds : Prices[k] = booking[k].amount /\ Prices[k] \in Nat
      /\ \A k \in BookingIds : Prices'[k] = booking'[k].amount
                              /\ Prices'[k] \in Nat
  BY <1>2, LedgerAssumption DEF Prices, BookingRecord
<1>4. SumFunctionOnSet(Prices, PaidFor) \in Nat
  BY <1>3, SumNat DEF PaidFor
<1>5. CASE UNCHANGED <<booking, wallet>>
  <2>1. PaidFor' = PaidFor /\ Prices' = Prices
    BY <1>5 DEF PaidFor, Prices
  <2> QED
    BY <1>1, <1>5, <2>1 DEF RefundsCovered
<1>6. ASSUME NEW tenant \in Accounts, NEW b \in BookingIds, NEW s \in Workspaces,
             NEW from \in Slots, NEW to \in Slots,
             book_workspace(tenant, b, s, from, to)
      PROVE  RefundInv'
  <2> DEFINE new == BookedAs(tenant, s, from, to)
  <2>1. /\ booking' = [booking EXCEPT ![b] = new]
        /\ VaultHas' = VaultHas + new.amount
        /\ booking[b].status = "absent"
    BY <1>6, BookStep DEF BookingInv
  <2>2. booking'[b] = new /\ new.status = "active"
    BY <1>2, <2>1 DEF BookedAs
  <2>3. \A k \in BookingIds \ {b} : booking'[k] = booking[k]
    BY <2>1
  <2> HIDE DEF new
  <2>4. b \notin PaidFor /\ PaidFor' = PaidFor \cup {b}
    BY <2>1, <2>2, <2>3 DEF PaidFor
  <2>5. IsFiniteSet(PaidFor')
    BY <2>4, FS_AddElement
  <2>6. SumFunctionOnSet(Prices', PaidFor) = SumFunctionOnSet(Prices, PaidFor)
    <3>1. \A k \in PaidFor : Prices'[k] = Prices[k]
      BY <1>3, <2>3, <2>4 DEF PaidFor
    <3> QED
      BY <3>1, SumAgree
  <2>7. SumFunctionOnSet(Prices', PaidFor')
            = new.amount + SumFunctionOnSet(Prices', PaidFor)
    <3>1. \A k \in PaidFor \cup {b} : Prices'[k] \in Int
      BY <1>3 DEF PaidFor
    <3> QED
      BY <1>3, <2>2, <2>4, <3>1, SumAdd
  <2>8. new.amount \in Nat
    BY <1>3, <2>2
  <2> QED
    BY <1>1, <1>2, <1>4, <2>1, <2>5, <2>6, <2>7, <2>8
       DEF RefundsCovered, VaultHas
<1>7. ASSUME NEW b \in BookingIds, ClosesBooking(b)
      PROVE  RefundInv'
  <2>1. PICK status \in {"cancelled", "completed"} :
           /\ booking' = [booking EXCEPT ![b].status = status]
           /\ VaultHas' \in {VaultHas} \cup (IF status = "cancelled"
                                    THEN {VaultHas - booking[b].amount} ELSE {})
    BY <1>7 DEF ClosesBooking
  <2>2. /\ booking'[b].status = status
        /\ \A k \in BookingIds : booking'[k].amount = booking[k].amount
        /\ \A k \in BookingIds \ {b} : booking'[k] = booking[k]
    BY <1>2, <2>1 DEF BookingRecord
  <2>3. Prices' = Prices
    BY <2>2 DEF Prices
  <2>4. booking[b].status = "active" /\ b \in PaidFor
    BY <1>7 DEF ClosesBooking, PaidFor
  <2>5. CASE status = "completed"
    <3>1. PaidFor' = PaidFor
      BY <2>2, <2>4, <2>5 DEF PaidFor
    <3>2. VaultHas' = VaultHas
      BY <2>1, <2>5
    <3> QED
      BY <1>1, <2>3, <3>1, <3>2 DEF RefundsCovered, VaultHas
  <2>6. CASE status = "cancelled"
    <3>1. PaidFor' = PaidFor \ {b}
      BY <2>2, <2>4, <2>6 DEF PaidFor
    <3>2. IsFiniteSet(PaidFor')
      BY <3>1, FS_Subset
    <3>3. SumFunctionOnSet(Prices, PaidFor)
              = booking[b].amount + SumFunctionOnSet(Prices, PaidFor')
      <4>1. \A k \in PaidFor : Prices[k] \in Int
        BY <1>3 DEF PaidFor
      <4> QED
        BY <1>3, <2>4, <3>1, <4>1, SumTakeOut
    <3>4. SumFunctionOnSet(Prices, PaidFor') \in Nat
      BY <1>3, <3>1, <3>2, SumNat DEF PaidFor
    <3>5. VaultHas' \in {VaultHas, VaultHas - booking[b].amount}
      BY <2>1, <2>6
    <3>6. booking[b].amount \in Nat
      BY <1>3
    <3> QED
      BY <1>1, <1>2, <1>4, <2>3, <3>2, <3>3, <3>4, <3>5, <3>6
         DEF RefundsCovered, VaultHas
  <2> QED
    BY <2>5, <2>6
<1> QED
  BY <1>5, <1>6, <1>7, BookingSteps
     DEF Configures, LedgerCloses, WB_state, BookingInv

\* The vault can refund every active booking at the price it was bought for, for
\* any number of bookings, rates and cancellations.
THEOREM RefundsAreCovered == WB_Spec => []RefundsCovered
<1>1. RefundInv => RefundsCovered
  BY DEF RefundInv
<1>2. RefundInv /\ [WB_Next]_WB_vars => RefundInv'
  BY NextRefunds
<1> QED
  BY <1>1, <1>2, InitRefunds, PTL DEF WB_Spec

-----------------------------------------------------------------------------
\* resource_credits.  What a call does to the credits: some are minted for one
\* holder, with or without a record; some pass from one holder to another; some
\* of one holder are burnt, spent or expired; or none is touched.
CreditsInv == RC_TypeOK /\ CreditsAddUp

Mints(a, n) ==
    /\ balance' = [balance EXCEPT ![a] = @ + n]
    /\ supply' = supply + n
    /\ burnt' = burnt
    /\ \/ UNCHANGED <<expiry, dated>>
       \/ \E expires_at \in Nat \cup {Never} :
             /\ expiry' = [expiry EXCEPT ![a] =
                              [amount |-> n, expires_at |-> expires_at]]
             /\ dated' = [dated EXCEPT ![a] = @ + n]

Burns(a, n) ==
    /\ n <= balance[a]
    /\ Burn(a, n)
    /\ dated' = dated
    /\ \/ UNCHANGED <<expiry, burnt>>
       \/ /\ n <= expiry[a].amount
          /\ expiry' = [expiry EXCEPT ![a] = NoCredit]
          /\ burnt' = [burnt EXCEPT ![a] = @ + n]

LEMMA CreditSteps ==
    ASSUME CreditsInv, [RC_Next]_RC_vars
    PROVE  \/ UNCHANGED RC_state /\ LedgerType'
           \/ /\ UNCHANGED ledger
              /\ \E a \in Accounts, n \in Nat :
                    \/ Mints(a, n)
                    \/ \E to \in Accounts : transfer_credits(a, to, n)
                    \/ Burns(a, n)
<1> USE DEF CreditsInv, RC_TypeOK, LedgerType
<1>1. CreditAmounts \subseteq Nat /\ ExpiryTimes \subseteq Nat /\ MaxTime \in Nat
  BY CreditsAssumption, LedgerAssumption
<1>2. CASE UNCHANGED RC_vars
  BY <1>2 DEF RC_vars, RC_state, ledger
<1>3. CASE LedgerCloses /\ UNCHANGED RC_state
  BY <1>1, <1>3 DEF LedgerCloses, Times
<1>4. ASSUME NEW caller \in Accounts, RC_initialize(caller)
      PROVE  UNCHANGED RC_state /\ LedgerType'
  BY <1>4 DEF RC_initialize, SetAdmin
<1>5. ASSUME NEW caller \in Accounts, NEW a \in Accounts, NEW n \in CreditAmounts,
             mint_credits(caller, a, n)
      PROVE  UNCHANGED ledger /\ Mints(a, n)
  BY <1>5 DEF mint_credits, Credit, Mints
<1>6. ASSUME NEW caller \in Accounts, NEW a \in Accounts, NEW n \in CreditAmounts,
             NEW x \in ExpiryTimes \cup {Never},
             mint_credits_with_expiry(caller, a, n, x)
      PROVE  UNCHANGED ledger /\ Mints(a, n)
  BY <1>1, <1>6 DEF mint_credits_with_expiry, Credit, Mints
<1>7. ASSUME NEW a \in Accounts, NEW n \in CreditAmounts, spend_credits(a, n)
      PROVE  UNCHANGED ledger /\ Burns(a, n)
  BY <1>7 DEF spend_credits, Burns
<1>8. ASSUME NEW a \in Accounts, expire_credits(a)
      PROVE  UNCHANGED ledger /\ \E n \in Nat : Burns(a, n)
  <2> DEFINE n == Lesser(balance[a], expiry[a].amount)
  <2>1. balance[a] \in Nat /\ expiry[a].amount \in Nat
    BY DEF CreditRecord
  <2>2. n \in Nat /\ n <= balance[a] /\ n <= expiry[a].amount
    BY <2>1 DEF Lesser
  <2>3. /\ UNCHANGED <<ledger, dated>>
        /\ Burn(a, n)
        /\ expiry' = [expiry EXCEPT ![a] = NoCredit]
        /\ burnt' = [burnt EXCEPT ![a] = @ + n]
    BY <1>8 DEF expire_credits
  <2> HIDE DEF n
  <2> QED
    BY <2>2, <2>3 DEF Burns
<1>9. ASSUME NEW a \in Accounts, NEW to \in Accounts, NEW n \in CreditAmounts,
             transfer_credits(a, to, n)
      PROVE  UNCHANGED ledger
  BY <1>9 DEF transfer_credits
<1> QED
  BY <1>1, <1>2, <1>3, <1>4, <1>5, <1>6, <1>7, <1>8, <1>9 DEF RC_Next, RC_Call

LEMMA InitCredits == LedgerInit /\ RC_Init => CreditsInv
<1> SUFFICES ASSUME LedgerInit, RC_Init PROVE CreditsInv
  OBVIOUS
<1>1. LedgerType
  BY LedgerAssumption DEF LedgerInit, LedgerType, Times, Parties
<1>2. SumFunctionOnSet(balance, Accounts) = 0
  <2>1. \A a \in Accounts : balance[a] = 0
    BY DEF RC_Init
  <2> QED
    BY <2>1, LedgerAssumption, SumZero
<1> QED
  BY <1>1, <1>2 DEF RC_Init, CreditsInv, RC_TypeOK, CreditsAddUp, SupplyReconciles,
                    BurnsOnlyDatedCredits, CreditRecord, NoCredit, Never

LEMMA NextCredits ==
    ASSUME CreditsInv, [RC_Next]_RC_vars
    PROVE  CreditsInv'
<1> USE DEF CreditsInv, CreditsAddUp
<1>1. /\ IsFiniteSet(Accounts)
      /\ balance \in [Accounts -> Nat] /\ supply \in Nat
      /\ expiry \in [Accounts -> CreditRecord]
      /\ dated \in [Accounts -> Nat] /\ burnt \in [Accounts -> Nat]
      /\ LedgerType
  BY LedgerAssumption DEF RC_TypeOK
<1>2. CASE UNCHANGED RC_state /\ LedgerType'
  BY <1>2 DEF RC_state, RC_TypeOK, SupplyReconciles, BurnsOnlyDatedCredits
<1>3. ASSUME NEW a \in Accounts, NEW n \in Nat, Mints(a, n), UNCHANGED ledger
      PROVE  CreditsInv'
  <2>1. SumFunctionOnSet(balance', Accounts)
            = SumFunctionOnSet(balance, Accounts) - balance[a] + (balance[a] + n)
    <3>1. balance' \in [Accounts -> Nat] /\ balance'[a] = balance[a] + n
          /\ \A x \in Accounts \ {a} : balance'[x] = balance[x]
      BY <1>1, <1>3 DEF Mints
    <3>2. SumFunctionOnSet(balance', Accounts)
              = SumFunctionOnSet(balance, Accounts) - balance[a] + balance'[a]
      BY <1>1, <3>1, SumChange
    <3> QED
      BY <3>1, <3>2
  <2>2. SupplyReconciles'
    BY <1>1, <1>3, <2>1 DEF Mints, SupplyReconciles
  <2>3. BurnsOnlyDatedCredits'
    BY <1>1, <1>3 DEF Mints, BurnsOnlyDatedCredits, CreditRecord
  <2>4. balance' \in [Accounts -> Nat] /\ supply' \in Nat
    BY <1>1, <1>3 DEF Mints
  <2>5. expiry' \in [Accounts -> CreditRecord] /\ dated' \in [Accounts -> Nat]
    <3>1. CASE UNCHANGED <<expiry, dated>>
      BY <1>1, <3>1
    <3>2. CASE ~ UNCHANGED <<expiry, dated>>
      <4>1. PICK x \in Nat \cup {Never} :
               /\ expiry' = [expiry EXCEPT ![a] = [amount |-> n, expires_at |-> x]]
               /\ dated' = [dated EXCEPT ![a] = @ + n]
        BY <1>3, <3>2 DEF Mints
      <4>2. [amount |-> n, expires_at |-> x] \in CreditRecord
        BY DEF CreditRecord
      <4> QED
        BY <1>1, <4>1, <4>2
    <3> QED
      BY <3>1, <3>2
  <2>6. LedgerType' /\ burnt' \in [Accounts -> Nat]
    BY <1>1, <1>3 DEF Mints, LedgerType, ledger
  <2> QED
    BY <2>2, <2>3, <2>4, <2>5, <2>6 DEF RC_TypeOK
<1>4. ASSUME NEW a \in Accounts, NEW to \in Accounts, NEW n \in Nat,
             transfer_credits(a, to, n), UNCHANGED ledger
      PROVE  CreditsInv'
  <2> DEFINE taken == [balance EXCEPT ![a] = @ - n]
  <2>1. /\ taken \in [Accounts -> Nat] /\ taken[a] = balance[a] - n
        /\ balance' = [taken EXCEPT ![to] = @ + n]
        /\ \A x \in Accounts \ {a} : taken[x] = balance[x]
    BY <1>1, <1>4 DEF transfer_credits
  <2>2. UNCHANGED <<supply, expiry, dated, burnt>>
    BY <1>4 DEF transfer_credits
  <2> HIDE DEF taken
  <2>3. SumFunctionOnSet(taken, Accounts)
            = SumFunctionOnSet(balance, Accounts) - balance[a] + taken[a]
    BY <1>1, <2>1, SumChange
  <2>4. /\ balance' \in [Accounts -> Nat] /\ balance'[to] = taken[to] + n
        /\ \A x \in Accounts \ {to} : balance'[x] = taken[x]
    BY <2>1
  <2>5. SumFunctionOnSet(balance', Accounts)
            = SumFunctionOnSet(taken, Accounts) - taken[to] + balance'[to]
    <3>1. taken \in [Accounts -> Nat]
      BY <2>1
    <3> QED
      BY <1>1, <2>4, <3>1, SumChange
  <2>6. taken[to] \in Nat /\ balance[a] \in Nat
    BY <1>1, <2>1
  <2>7. SupplyReconciles'
    BY <1>1, <2>1, <2>2, <2>3, <2>4, <2>5, <2>6 DEF SupplyReconciles
  <2>8. BurnsOnlyDatedCredits'
    BY <2>2 DEF BurnsOnlyDatedCredits
  <2>9. RC_TypeOK'
    BY <1>1, <1>4, <2>2, <2>4 DEF RC_TypeOK, LedgerType, ledger
  <2> QED
    BY <2>7, <2>8, <2>9
<1>5. ASSUME NEW a \in Accounts, NEW n \in Nat, Burns(a, n), UNCHANGED ledger
      PROVE  CreditsInv'
  <2>1. balance' = [balance EXCEPT ![a] = @ - n] /\ supply' = supply - n
        /\ n <= balance[a]
    BY <1>5 DEF Burns, Burn
  <2>2. balance' \in [Accounts -> Nat] /\ balance'[a] = balance[a] - n
        /\ \A x \in Accounts \ {a} : balance'[x] = balance[x]
    BY <1>1, <2>1
  <2>3. SumFunctionOnSet(balance', Accounts)
            = SumFunctionOnSet(balance, Accounts) - balance[a] + balance'[a]
    BY <1>1, <2>2, SumChange
  <2>4. balance[a] \in Nat
    BY <1>1
  <2>5. SupplyReconciles'
    BY <1>1, <2>1, <2>2, <2>3, <2>4 DEF SupplyReconciles
  <2>6. SumFunctionOnSet(balance', Accounts) \in Nat
    BY <1>1, <2>2, SumNat
  <2>7. supply' \in Nat
    BY <2>5, <2>6 DEF SupplyReconciles
  <2>8. BurnsOnlyDatedCredits'
    BY <1>1, <1>5 DEF Burns, BurnsOnlyDatedCredits, CreditRecord, NoCredit
  <2>9. RC_TypeOK'
    BY <1>1, <1>5, <2>2, <2>7
       DEF Burns, RC_TypeOK, CreditRecord, NoCredit, Never, LedgerType, ledger
  <2> QED
    BY <2>5, <2>8, <2>9
<1> QED
  BY <1>2, <1>3, <1>4, <1>5, CreditSteps

\* TotalSupply is the sum of the balances and no dated credit expires twice, for
\* any number of holders, amounts and expiry times.
THEOREM CreditsAlwaysAddUp == RC_Spec => []CreditsAddUp
<1>1. CreditsInv => CreditsAddUp
  BY DEF CreditsInv
<1>2. CreditsInv /\ [RC_Next]_RC_vars => CreditsInv'
  BY NextCredits
<1> QED
  BY <1>1, <1>2, InitCredits, PTL DEF RC_Spec

-----------------------------------------------------------------------------
\* Staking.  Besides the sum, the argument needs: without a configuration nobody
\* stakes; a penalty is at most the whole; and while the history says the coins
\* were never mixed, rewards are paid in another coin than the stakes.
StakesInv ==
    /\ SK_TypeOK
    /\ config = NoConfig => \A a \in Accounts : ~Staking(a)
    /\ config # NoConfig => /\ config.penalty <= Bps
                            /\ ~mixed => config.coin # config.rewards
    /\ \A a \in Accounts : Staking(a) => /\ stake[a].tier \in StakingTiers
                                         /\ stake[a].staked_at <= now
    /\ StakesBacked

\* The arithmetic of rewards and penalties, in whole coins.
LEMMA ProductType == \A m, n \in Nat : m * n \in Nat
OBVIOUS

LEMMA QuotientType == \A m \in Nat, d \in Nat \ {0} : m \div d \in Nat
OBVIOUS

LEMMA PenaltyIsAPart ==
    ASSUME NEW m \in Nat, NEW n \in 0..Bps
    PROVE  (m * n) \div Bps \in 0..m
<1>1. Bps \in Nat \ {0}
  BY StakingAssumption
<1> DEFINE q == (m * n) \div Bps
<1>2. q \in Nat
  BY <1>1, ProductType, QuotientType
<1>3. m * n <= m * Bps
  BY <1>1
<1>4. Bps * q <= m * n
  BY <1>1
<1>5. ~ (m + 1 <= q)
  <2> SUFFICES ASSUME m + 1 <= q PROVE FALSE
    OBVIOUS
  <2> HIDE DEF q
  <2>1. Bps * (m + 1) <= Bps * q
    BY <1>1, <1>2
  <2>2. Bps * (m + 1) = m * Bps + Bps
    BY <1>1
  <2>3. m * Bps \in Nat /\ m * n \in Nat /\ Bps * q \in Nat
    BY <1>1, <1>2, ProductType
  <2> QED
    BY <1>1, <1>3, <1>4, <2>1, <2>2, <2>3
<1> HIDE DEF q
<1>6. q \in 0..m
  BY <1>2, <1>5
<1> QED
  BY <1>6 DEF q

LEMMA RewardsDueType ==
    ASSUME StakesInv, NEW a \in Accounts, Staking(a)
    PROVE  Rewards(stake[a]) \in Nat
<1> DEFINE t == TierOf[stake[a].tier]
<1>1. t.rate \in Nat /\ t.multiplier \in Nat
  BY StakingAssumption DEF StakesInv
<1>2. stake[a].amount \in Nat /\ now - stake[a].staked_at \in Nat
  BY LedgerAssumption DEF StakesInv, SK_TypeOK, StakeInfo, LedgerType, Times
<1>3. Bps \in Nat \ {0} /\ Year \in Nat \ {0}
  BY StakingAssumption
<1>4. Bps * Year \in Nat \ {0}
  BY <1>3
<1> DEFINE gross == stake[a].amount * t.rate * (now - stake[a].staked_at)
                        * t.multiplier
<1>5. gross \in Nat
  BY <1>1, <1>2, ProductType
<1> HIDE DEF gross
<1>6. (gross \div (Bps * Year)) \div Bps \in Nat
  BY <1>3, <1>4, <1>5, QuotientType
<1> QED
  BY <1>6 DEF Rewards, gross

\* Coins pass from one party to another.
Passed(w, coin, from, to, n) ==
    [w EXCEPT ![coin][from] = @ - n, ![coin][to] = @ + n]

LEMMA PassCoin ==
    ASSUME NEW w \in [Coins -> [Parties -> Nat]], NEW coin \in Coins,
           NEW from \in Parties, NEW to \in Parties, from # to,
           NEW n \in Nat, n <= w[coin][from],
           NEW v, v = Passed(w, coin, from, to, n)
    PROVE  /\ v \in [Coins -> [Parties -> Nat]]
           /\ v[coin][from] = w[coin][from] - n
           /\ v[coin][to] = w[coin][to] + n
           /\ \A c \in Coins \ {coin} : v[c] = w[c]
<1> DEFINE purse == [w[coin] EXCEPT ![from] = @ - n, ![to] = @ + n]
<1>1. w[coin] \in [Parties -> Nat]
  OBVIOUS
<1>2. w[coin][from] - n \in Nat /\ w[coin][to] + n \in Nat
  BY <1>1
<1>3. /\ purse \in [Parties -> Nat]
      /\ purse[from] = w[coin][from] - n /\ purse[to] = w[coin][to] + n
  BY <1>1, <1>2
<1>4. v = [w EXCEPT ![coin] = purse]
  BY <1>1 DEF Passed
<1> HIDE DEF purse
<1> QED
  BY <1>3, <1>4

\* A payout takes the principal from the vault, and rewards that are paid in
\* another coin take nothing more of that one.
LEMMA PayoutEffect ==
    ASSUME SK_TypeOK, NEW a \in Accounts, config # NoConfig,
           NEW principal \in Nat, NEW rewards \in Nat,
           Pays(a, principal, rewards)
    PROVE  /\ wallet' \in [Coins -> [Parties -> Nat]]
           /\ config.coin \in Coins
           /\ config.coin # config.rewards \/ rewards = 0 =>
                  wallet'[config.coin][Vault]
                      = wallet[config.coin][Vault] - principal
<1>1. config \in StakingConfigs
  BY DEF SK_TypeOK
<1>2. config.coin \in Coins /\ config.rewards \in Coins
  BY <1>1, StakingAssumption
<1>3. a \in Parties /\ Vault \in Parties /\ a # Vault
  BY LedgerAssumption DEF Parties
<1>4. wallet \in [Coins -> [Parties -> Nat]]
  BY DEF SK_TypeOK, LedgerType
<1> DEFINE w == Passed(wallet, config.coin, Vault, a, principal)
<1>5. /\ principal <= wallet[config.coin][Vault]
      /\ rewards <= w[config.rewards][Vault]
      /\ wallet' = Passed(w, config.rewards, Vault, a, rewards)
  BY DEF Pays, Passed
<1>6. /\ w \in [Coins -> [Parties -> Nat]]
      /\ w[config.coin][Vault] = wallet[config.coin][Vault] - principal
  BY <1>2, <1>3, <1>4, <1>5, PassCoin
<1> HIDE DEF w
<1>7. /\ wallet' \in [Coins -> [Parties -> Nat]]
      /\ wallet'[config.rewards][Vault] = w[config.rewards][Vault] - rewards
      /\ \A c \in Coins \ {config.rewards} : wallet'[c] = w[c]
  BY <1>2, <1>3, <1>5, <1>6, PassCoin
<1>8. w[config.coin][Vault] \in Nat
  BY <1>2, <1>3, <1>6
<1> QED
  BY <1>2, <1>6, <1>7, <1>8

LEMMA InitStakes == LedgerInit /\ SK_Init => StakesInv
<1> SUFFICES ASSUME LedgerInit, SK_Init PROVE StakesInv
  OBVIOUS
<1>1. LedgerType
  BY LedgerAssumption DEF LedgerInit, LedgerType, Times, Parties
<1>2. NoStake \in StakeInfo /\ NoStake.amount = 0
  BY LedgerAssumption DEF NoStake, StakeInfo, Times
<1>3. SK_TypeOK
  BY <1>1, <1>2 DEF SK_Init, SK_TypeOK
<1>4. config = NoConfig /\ \A a \in Accounts : ~Staking(a)
  BY <1>2 DEF SK_Init, Staking
<1> QED
  BY <1>3, <1>4 DEF StakesInv, StakesBacked

\* Steps that touch no stake and no configuration and take nothing from the vault.
Harmless ==
    /\ SK_TypeOK'
    /\ UNCHANGED <<config, stake, mixed>>
    /\ now <= now'
    /\ \A c \in Coins : wallet[c][Vault] <= wallet'[c][Vault]

HarmlessCall(a) ==
    \/ SetAdmin(a) /\ UNCHANGED SK_state
    \/ \E t \in StakingTiers : create_staking_tier(a, t)
    \/ \E coin \in Coins : Donate(a, coin, 1)

LEMMA HarmlessSteps ==
    ASSUME StakesInv,
           \/ UNCHANGED SK_vars
           \/ LedgerCloses /\ UNCHANGED SK_state
           \/ \E a \in Accounts : HarmlessCall(a)
    PROVE  Harmless
<1> USE DEF StakesInv, SK_TypeOK, LedgerType
<1>1. now \in Nat /\ \A c \in Coins : wallet[c][Vault] \in Nat
  BY LedgerAssumption DEF Times, Parties
<1>2. CASE UNCHANGED SK_vars
  BY <1>1, <1>2 DEF SK_vars, SK_state, ledger, Harmless
<1>3. CASE LedgerCloses /\ UNCHANGED SK_state
  BY <1>1, <1>3, LedgerAssumption DEF LedgerCloses, SK_state, Harmless, Times
<1>4. ASSUME NEW a \in Accounts, SetAdmin(a), UNCHANGED SK_state
      PROVE  Harmless
  BY <1>1, <1>4 DEF SetAdmin, SK_state, Harmless
<1>5. ASSUME NEW a \in Accounts, NEW t \in StakingTiers, create_staking_tier(a, t)
      PROVE  Harmless
  BY <1>1, <1>5 DEF create_staking_tier, ledger, Harmless
<1>6. ASSUME NEW a \in Accounts, NEW coin \in Coins, Donate(a, coin, 1)
      PROVE  Harmless
  <2>1. a \in Parties /\ Vault \in Parties /\ a # Vault
    BY LedgerAssumption DEF Parties
  <2>2. wallet' = Passed(wallet, coin, a, Vault, 1) /\ 1 <= wallet[coin][a]
    BY <1>6, <2>1 DEF Donate, Transfer, Passed
  <2>3. /\ wallet' \in [Coins -> [Parties -> Nat]]
        /\ wallet'[coin][Vault] = wallet[coin][Vault] + 1
        /\ \A c \in Coins \ {coin} : wallet'[c] = wallet[c]
    <3>1. wallet \in [Coins -> [Parties -> Nat]] /\ 1 \in Nat
      OBVIOUS
    <3> QED
      BY <2>1, <2>2, <3>1, PassCoin
  <2>4. \A c \in Coins : wallet[c][Vault] <= wallet'[c][Vault]
    BY <1>1, <2>3
  <2> QED
    BY <1>1, <1>6, <2>3, <2>4 DEF Donate, SK_state, Harmless
<1> QED
  BY <1>2, <1>3, <1>4, <1>5, <1>6 DEF HarmlessCall

LEMMA NextStakes ==
    ASSUME StakesInv, [SK_Next]_SK_vars
    PROVE  StakesInv'
<1>1. /\ IsFiniteSet(Accounts) /\ now \in Nat
      /\ config \in StakingConfigs \cup {NoConfig}
      /\ stake \in [Accounts -> StakeInfo]
      /\ wallet \in [Coins -> [Parties -> Nat]]
      /\ Vault \in Parties
      /\ \A c \in StakingConfigs : c.coin \in Coins /\ c.rewards \in Coins
                                 /\ c.penalty \in Nat
  <2>1. \A c \in StakingConfigs : c.coin \in Coins /\ c.rewards \in Coins
                                 /\ c.penalty \in Nat
    BY StakingAssumption
  <2>2. SK_TypeOK /\ LedgerType
    BY DEF StakesInv, SK_TypeOK
  <2>3. now \in Nat
    BY <2>2, LedgerAssumption DEF LedgerType, Times
  <2>4. IsFiniteSet(Accounts) /\ Vault \in Parties
    BY LedgerAssumption DEF Parties
  <2> QED
    BY <2>1, <2>2, <2>3, <2>4 DEF SK_TypeOK, LedgerType
<1>2. /\ Stakes \in [Accounts -> Nat]
      /\ \A a \in Accounts : Stakes[a] = stake[a].amount
  BY <1>1 DEF Stakes, StakeInfo
<1>3. SumFunctionOnSet(Stakes, Accounts) \in Nat
  BY <1>1, <1>2, SumNat
<1>4. CASE Harmless
  <2>1. Stakes' = Stakes
    BY <1>4 DEF Harmless, Stakes
  <2>2. ASSUME config # NoConfig, ~mixed
        PROVE  SumFunctionOnSet(Stakes, Accounts) <= wallet'[config.coin][Vault]
    <3>1. SumFunctionOnSet(Stakes, Accounts) <= wallet[config.coin][Vault]
      BY <2>2 DEF StakesInv, StakesBacked
    <3>2. config.coin \in Coins
      BY <1>1, <2>2
    <3>3. /\ wallet[config.coin][Vault] \in Nat
          /\ wallet'[config.coin][Vault] \in Nat
          /\ wallet[config.coin][Vault] <= wallet'[config.coin][Vault]
      BY <1>1, <1>4, <3>2 DEF Harmless, SK_TypeOK, LedgerType
    <3> QED
      BY <1>3, <3>1, <3>3
  <2>3. StakesBacked'
    BY <1>4, <2>1, <2>2 DEF Harmless, StakesBacked
  <2>4. \A a \in Accounts : Staking(a)' => /\ stake'[a].tier \in StakingTiers
                                         /\ stake'[a].staked_at <= now'
    <3>1. now' \in Nat /\ \A a \in Accounts : stake[a].staked_at \in Nat
      BY <1>1, <1>4, LedgerAssumption
         DEF Harmless, SK_TypeOK, LedgerType, Times, StakeInfo
    <3> QED
      BY <1>1, <1>4, <3>1 DEF Harmless, StakesInv, Staking
  <2> QED
    BY <1>4, <2>3, <2>4 DEF Harmless, StakesInv, Staking
<1>5. ASSUME NEW caller \in Accounts, NEW c \in StakingConfigs,
             set_staking_config(caller, c)
      PROVE  StakesInv'
  <2>1. /\ c.penalty <= Bps /\ config' = c
        /\ mixed' = \/ mixed \/ c.coin = c.rewards
                    \/ /\ config # NoConfig
                       /\ config.coin # c.coin
                       /\ \E a \in Accounts : Staking(a)
        /\ UNCHANGED <<ledger, stakingTiers, stake>>
    BY <1>5 DEF set_staking_config
  <2>2. SK_TypeOK'
    BY <2>1 DEF StakesInv, SK_TypeOK, LedgerType, ledger
  <2>3. c # NoConfig
    <3>1. c \in [coin : Coins, rewards : Coins, enabled : BOOLEAN, penalty : Nat]
      BY StakingAssumption
    <3>2. DOMAIN c = {"coin", "rewards", "enabled", "penalty"}
      BY <3>1
    <3>3. DOMAIN NoConfig = {"coin"}
      BY DEF NoConfig
    <3> QED
      BY <3>2, <3>3
  <2>4. Stakes' = Stakes
    BY <2>1 DEF Stakes
  <2>5. StakesBacked'
    <3> SUFFICES ASSUME ~mixed'
                 PROVE  SumFunctionOnSet(Stakes, Accounts) <= wallet[c.coin][Vault]
      BY <2>1, <2>4 DEF StakesBacked, ledger
    <3>1. CASE \A a \in Accounts : ~Staking(a)
      <4>1. SumFunctionOnSet(Stakes, Accounts) = 0
        BY <1>1, <1>2, <3>1, SumZero DEF Staking
      <4>2. wallet[c.coin][Vault] \in Nat
        BY <1>1
      <4> QED
        BY <4>1, <4>2
    <3>2. CASE config # NoConfig /\ config.coin = c.coin /\ ~mixed
      BY <3>2 DEF StakesInv, StakesBacked
    <3> QED
      BY <2>1, <3>1, <3>2 DEF StakesInv
  <2> QED
    BY <2>1, <2>2, <2>3, <2>5 DEF StakesInv, Staking, ledger
<1>6. ASSUME NEW a \in Accounts, NEW t \in StakingTiers, NEW n \in StakeAmounts,
             stake_tokens(a, t, n)
      PROVE  StakesInv'
  <2> DEFINE new == [amount |-> stake[a].amount + n, tier |-> t,
                     staked_at |-> IF Staking(a) THEN stake[a].staked_at ELSE now,
                     unlock_at |-> now + TierOf[t].lock]
  <2>1. /\ config # NoConfig
        /\ Transfer(config.coin, a, Vault, n)
        /\ stake' = [stake EXCEPT ![a] = new]
        /\ UNCHANGED <<now, admin, config, stakingTiers, mixed>>
    BY <1>6 DEF stake_tokens
  <2>2. n \in Nat /\ TierOf[t].lock \in Nat /\ now \in Times
    BY StakingAssumption DEF StakesInv, SK_TypeOK, LedgerType
  <2>3. stake[a] \in StakeInfo
    BY <1>1
  <2>4. new \in StakeInfo
    BY <1>1, <2>2, <2>3 DEF StakeInfo
  <2>5. /\ new.amount = stake[a].amount + n /\ new.tier = t
        /\ Staking(a) => new.staked_at = stake[a].staked_at
        /\ ~Staking(a) => new.staked_at = now
    OBVIOUS
  <2> HIDE DEF new
  <2>6. /\ stake' \in [Accounts -> StakeInfo] /\ stake'[a] = new
        /\ \A k \in Accounts \ {a} : stake'[k] = stake[k]
    BY <1>1, <2>1, <2>4
  <2>7. config.coin \in Coins /\ a \in Parties /\ a # Vault
    BY <1>1, <2>1, LedgerAssumption DEF Parties
  <2>8. /\ wallet' \in [Coins -> [Parties -> Nat]]
        /\ wallet'[config.coin][Vault] = wallet[config.coin][Vault] + n
    <3>1. wallet' = Passed(wallet, config.coin, a, Vault, n)
          /\ n <= wallet[config.coin][a]
      BY <2>1, <2>7 DEF Transfer, Passed
    <3> QED
      BY <1>1, <2>2, <2>7, <3>1, PassCoin
  <2>9. SK_TypeOK'
    BY <2>1, <2>6, <2>8 DEF StakesInv, SK_TypeOK, LedgerType
  <2>10. StakesBacked'
    <3>1. /\ Stakes' \in [Accounts -> Nat] /\ Stakes'[a] = Stakes[a] + n
          /\ \A k \in Accounts \ {a} : Stakes'[k] = Stakes[k]
      BY <1>2, <2>2, <2>5, <2>6 DEF Stakes, StakeInfo
    <3>2. SumFunctionOnSet(Stakes', Accounts)
              = SumFunctionOnSet(Stakes, Accounts) - Stakes[a] + Stakes'[a]
      BY <1>1, <1>2, <3>1, SumChange
    <3>3. Stakes[a] \in Nat /\ wallet[config.coin][Vault] \in Nat
      BY <1>1, <1>2, <2>7
    <3> QED
      BY <1>3, <2>1, <2>2, <2>8, <3>1, <3>2, <3>3 DEF StakesInv, StakesBacked
  <2>11. \A k \in Accounts : Staking(k)' => /\ stake'[k].tier \in StakingTiers
                                          /\ stake'[k].staked_at <= now
    BY <1>1, <2>5, <2>6 DEF StakesInv, Staking
  <2> QED
    BY <2>1, <2>9, <2>10, <2>11 DEF StakesInv
<1>7. ASSUME NEW a \in Accounts, NEW principal \in Nat, NEW rewards \in Nat,
             config # NoConfig, Staking(a), principal <= stake[a].amount,
             Pays(a, principal, rewards), Closes(a),
             (~mixed => config.coin # config.rewards) \/ rewards = 0
      PROVE  StakesInv'
  <2>1. /\ wallet' \in [Coins -> [Parties -> Nat]]
        /\ config.coin \in Coins
        /\ config.coin # config.rewards \/ rewards = 0 =>
               wallet'[config.coin][Vault] = wallet[config.coin][Vault] - principal
    BY <1>7, PayoutEffect DEF StakesInv
  <2>2. /\ stake' = [stake EXCEPT ![a] = NoStake]
        /\ UNCHANGED <<now, admin, config, stakingTiers, mixed>>
    BY <1>7 DEF Closes
  <2>3. NoStake \in StakeInfo /\ NoStake.amount = 0
    BY LedgerAssumption DEF NoStake, StakeInfo, Times
  <2>4. /\ stake' \in [Accounts -> StakeInfo] /\ stake'[a] = NoStake
        /\ \A k \in Accounts \ {a} : stake'[k] = stake[k]
    BY <1>1, <2>2, <2>3
  <2>5. SK_TypeOK'
    BY <2>1, <2>2, <2>4 DEF StakesInv, SK_TypeOK, LedgerType
  <2>6. StakesBacked'
    <3> SUFFICES ASSUME ~mixed
                 PROVE  SumFunctionOnSet(Stakes', Accounts)
                            <= wallet'[config.coin][Vault]
      BY <2>2 DEF StakesBacked
    <3>1. /\ Stakes' \in [Accounts -> Nat] /\ Stakes'[a] = 0
          /\ \A k \in Accounts \ {a} : Stakes'[k] = Stakes[k]
      BY <1>2, <2>3, <2>4 DEF Stakes, StakeInfo
    <3>2. SumFunctionOnSet(Stakes', Accounts)
              = SumFunctionOnSet(Stakes, Accounts) - Stakes[a] + Stakes'[a]
      BY <1>1, <1>2, <3>1, SumChange
    <3>3. /\ Stakes[a] \in Nat /\ principal <= Stakes[a]
          /\ wallet[config.coin][Vault] \in Nat
      BY <1>1, <1>2, <1>7, <2>1
    <3>4. wallet'[config.coin][Vault] = wallet[config.coin][Vault] - principal
      BY <1>7, <2>1
    <3>5. SumFunctionOnSet(Stakes, Accounts) <= wallet[config.coin][Vault]
      BY <1>7 DEF StakesInv, StakesBacked
    <3> QED
      BY <1>3, <3>1, <3>2, <3>3, <3>4, <3>5
  <2>7. \A k \in Accounts : Staking(k)' => /\ stake'[k].tier \in StakingTiers
                                         /\ stake'[k].staked_at <= now
    BY <2>3, <2>4 DEF StakesInv, Staking
  <2> QED
    BY <1>7, <2>2, <2>5, <2>6, <2>7 DEF StakesInv
<1>8. ASSUME NEW a \in Accounts, unstake_tokens(a)
      PROVE  StakesInv'
  <2>1. stake[a].amount \in Nat /\ Rewards(stake[a]) \in Nat
    BY <1>1, <1>8, RewardsDueType DEF unstake_tokens, StakeInfo
  <2> QED
    BY <1>7, <1>8, <2>1 DEF unstake_tokens, StakesInv
<1>9. ASSUME NEW a \in Accounts, emergency_unstake(a)
      PROVE  StakesInv'
  <2> DEFINE kept == (stake[a].amount * config.penalty) \div Bps
  <2>1. stake[a].amount \in Nat /\ config.penalty \in 0..Bps
    <3>1. config \in StakingConfigs
      BY <1>1, <1>9 DEF emergency_unstake
    <3>2. Bps \in Nat
      BY StakingAssumption
    <3> QED
      BY <1>1, <1>9, <3>1, <3>2 DEF emergency_unstake, StakesInv, StakeInfo
  <2>2. kept \in 0..stake[a].amount
    BY <2>1, PenaltyIsAPart
  <2>3. config # NoConfig /\ Staking(a)
        /\ Pays(a, stake[a].amount - kept, 0) /\ Closes(a)
    BY <1>9 DEF emergency_unstake
  <2> HIDE DEF kept
  <2>4. stake[a].amount - kept \in Nat /\ stake[a].amount - kept <= stake[a].amount
    BY <2>1, <2>2
  <2> QED
    BY <1>7, <2>3, <2>4
<1>10. ASSUME NEW a \in Accounts, SK_Call(a)
       PROVE  StakesInv'
  <2>1. CASE HarmlessCall(a)
    BY <1>4, <2>1, HarmlessSteps
  <2>2. CASE \E c \in StakingConfigs : set_staking_config(a, c)
    BY <1>5, <2>2
  <2>3. CASE \E t \in StakingTiers, n \in StakeAmounts : stake_tokens(a, t, n)
    BY <1>6, <2>3
  <2>4. CASE unstake_tokens(a) \/ emergency_unstake(a)
    BY <1>8, <1>9, <2>4
  <2> QED
    BY <1>10, <2>1, <2>2, <2>3, <2>4 DEF SK_Call, HarmlessCall
<1>11. CASE UNCHANGED SK_vars \/ (LedgerCloses /\ UNCHANGED SK_state)
  BY <1>4, <1>11, HarmlessSteps
<1> QED
  BY <1>10, <1>11 DEF SK_Next

\* The vault holds every open stake: rewards, penalties, top-ups and donations never
\* spend one staker's principal on another, for any stakers, tiers and amounts.
THEOREM StakesAreBacked == SK_Spec => []StakesBacked
<1>1. StakesInv => StakesBacked
  BY DEF StakesInv
<1>2. StakesInv /\ [SK_Next]_SK_vars => StakesInv'
  BY NextStakes
<1> QED
  BY <1>1, <1>2, InitStakes, PTL DEF SK_Spec

-----------------------------------------------------------------------------
(* Access control by several administrators.                              *)

AccessRecord == [initialized : BOOLEAN, paused : BOOLEAN, emergency : BOOLEAN,
                 membersOnly : BOOLEAN]

AccessInv ==
    /\ now \in Nat
    /\ access \in AccessRecord
    /\ proposals \in Seq(Proposal)
    /\ board \in BoardRecord
    /\ Multisig \/ proposals # << >> => access.initialized

\* What OnlyProposalsDecide asks of a step.
Decides ==
    Multisig /\ <<board, access>>' # <<board, access>> =>
       \E id \in DOMAIN proposals' :
          LET p == proposals'[id]
          IN /\ p.state = "executed"
             /\ id \in DOMAIN proposals => proposals[id].state = "open"
             /\ Cardinality(p.approvals) >= p.required
             /\ p.lock <= now /\ now <= p.expiry

LEMMA QuietStep ==
    ASSUME AccessInv, UNCHANGED <<board, access, proposals>>, now' \in Nat
    PROVE  AccessInv' /\ Decides
BY DEF AccessInv, Decides, Multisig

\* Proposals change, nothing they decide on does.
LEMMA VoteStep ==
    ASSUME AccessInv, NoEffect, UNCHANGED ledger, proposals' \in Seq(Proposal),
           proposals # << >> \/ Multisig
    PROVE  AccessInv' /\ Decides
BY DEF AccessInv, Decides, Multisig, NoEffect, ledger

\* A board that initialize_multisig sets up.
LEMMA FoundingType ==
    ASSUME NEW s \in SUBSET Officers, NEW required \in Nat
    PROVE  Founding(s, required) \in BoardRecord /\ Sensible(Founding(s, required))
<1>1. IsFiniteSet(s)
  BY FS_Subset, AccessAssumption
<1>2. Cardinality(s) \in Nat
  BY <1>1, FS_CardinalityType
<1>3. NotAbove(required + 1, Cardinality(s)) \in Nat
      /\ NotAbove(NotAbove(required + 1, Cardinality(s)) + 1, Cardinality(s)) \in Nat
  BY <1>2 DEF NotAbove
<1> QED
  BY <1>3, AccessAssumption DEF Founding, BoardRecord, Sensible

\* Whatever a carried proposal does to the board, it stays a configuration.
LEMMA BoardAfterType ==
    ASSUME board \in BoardRecord, NEW action \in ProposalActions, NEW b \in BoardAfter(action)
    PROVE  b \in BoardRecord
<1>1. action.user \in Officers
      /\ (action.kind = "UpdateMultisigConfig" => action.board \in BoardRecord)
  BY AccessAssumption
<1>2. CASE action.kind = "UpdateMultisigConfig"
  BY <1>1, <1>2 DEF BoardAfter
<1>3. CASE action.kind \in {"AddAdmin", "RemoveAdmin"}
  <2>1. PICK n \in Nat : b = [board EXCEPT !.admins[action.user] = n]
    BY <1>3 DEF BoardAfter
  <2> QED
    BY <1>1, <2>1 DEF BoardRecord
<1>4. CASE action.kind \notin {"UpdateMultisigConfig", "AddAdmin", "RemoveAdmin"}
  BY <1>4 DEF BoardAfter
<1> QED
  BY <1>2, <1>3, <1>4

LEMMA EffectType ==
    ASSUME AccessInv, NEW action \in ProposalActions, Effect(action)
    PROVE  /\ board' \in BoardRecord
           /\ access' \in AccessRecord /\ access'.initialized = access.initialized
<1>1. board' \in BoardRecord
  BY BoardAfterType DEF Effect, AccessInv
<1>2. access' \in AccessRecord /\ access'.initialized = access.initialized
  BY DEF AccessInv, Effect, AccessRecord
<1> QED
  BY <1>1, <1>2

-----------------------------------------------------------------------------
LEMMA InitializeStep ==
    ASSUME AccessInv,
           \/ \E o \in Officers : initialize_access(o)
           \/ \E s \in SUBSET Officers, required \in 1..Cardinality(Officers) :
                 initialize_multisig(s, required)
    PROVE  AccessInv' /\ Decides
<1>1. ~Multisig /\ proposals = << >>
  BY DEF AccessInv, initialize_access, initialize_multisig
<1>2. access' \in AccessRecord /\ access'.initialized
      /\ UNCHANGED <<now, proposals>>
  BY DEF AccessInv, AccessRecord, initialize_access, initialize_multisig, ledger
<1>3. board' \in BoardRecord
  <2>1. CASE \E o \in Officers : initialize_access(o)
    BY <2>1 DEF AccessInv, initialize_access
  <2>2. CASE \E s \in SUBSET Officers, required \in 1..Cardinality(Officers) :
                initialize_multisig(s, required)
    <3>1. Cardinality(Officers) \in Nat
      BY FS_CardinalityType, AccessAssumption
    <3>2. PICK s \in SUBSET Officers, required \in Nat : board' = Founding(s, required)
      BY <2>2, <3>1 DEF initialize_multisig
    <3> QED
      BY <3>2, FoundingType
  <2> QED
    BY <2>1, <2>2
<1> QED
  BY <1>1, <1>2, <1>3 DEF AccessInv, Decides

LEMMA SettingStep ==
    ASSUME AccessInv, NEW caller \in Officers, NEW new \in AccessRecord,
           SetAccess(caller, new)
    PROVE  AccessInv' /\ Decides
<1>1. ~Multisig /\ access' \in AccessRecord /\ access'.initialized = access.initialized
      /\ UNCHANGED <<now, board, proposals>>
  BY DEF SetAccess, AccessInv, AccessRecord, ledger
<1> QED
  BY <1>1 DEF AccessInv, Decides, Multisig

LEMMA ProposeStep ==
    ASSUME AccessInv, NEW o \in Officers, NEW action \in ProposalActions,
           create_proposal(o, action)
    PROVE  AccessInv' /\ Decides
<1> DEFINE p == [proposer |-> o, action |-> action, approvals |-> {o},
                 rejections |-> {}, state |-> "open", expiry |-> now + board.expiry,
                 lock |-> IF requires_time_lock(action) THEN now + board.lock ELSE now,
                 required |-> get_required_signatures(action)]
           carried == [p EXCEPT !.state = "executed"]
           atOnce == ~requires_time_lock(action) /\ Ready(p)
<1>1. get_required_signatures(action) \in Nat
  BY DEF AccessInv, BoardRecord, get_required_signatures
<1>2. now + board.expiry \in Nat /\ now + board.expiry >= now /\ now + board.lock \in Nat
      /\ now \in Nat
  BY DEF AccessInv, BoardRecord
<1>3. p \in Proposal
  BY <1>1, <1>2 DEF Proposal
<1>4. carried \in Proposal
  BY <1>3 DEF Proposal
<1>5. Multisig /\ UNCHANGED <<ledger, now>>
  BY DEF create_proposal, ledger
<1>6. CASE atOnce
  <2>1. Effect(action) /\ proposals' = Append(proposals, carried)
    BY <1>6 DEF create_proposal
  <2>2. proposals \in Seq(Proposal) /\ Len(proposals) \in Nat
    BY DEF AccessInv
  <2> DEFINE id == Len(proposals) + 1
  <2>3. id \in DOMAIN proposals' /\ id \notin DOMAIN proposals /\ proposals'[id] = carried
        /\ proposals' \in Seq(Proposal)
    <3> HIDE DEF carried
    <3> QED
      BY <1>4, <2>1, <2>2
  <2>4. carried.state = "executed" /\ Cardinality(carried.approvals) >= carried.required
        /\ carried.lock <= now /\ now <= carried.expiry
    BY <1>2, <1>6 DEF Ready
  <2> HIDE DEF id, carried
  <2>5. Decides
    BY <2>3, <2>4 DEF Decides
  <2>6. AccessInv'
    BY <1>5, <2>1, <2>3, EffectType DEF AccessInv
  <2> QED
    BY <2>5, <2>6
<1>7. CASE ~atOnce
  <2>1. NoEffect /\ proposals' = Append(proposals, p)
    BY <1>7 DEF create_proposal
  <2> HIDE DEF p
  <2>2. proposals' \in Seq(Proposal)
    BY <1>3, <2>1 DEF AccessInv
  <2> QED
    BY <1>5, <2>1, <2>2, VoteStep
<1> QED
  BY <1>6, <1>7

LEMMA ApproveStep ==
    ASSUME AccessInv, NEW o \in Officers, NEW id \in DOMAIN proposals,
           approve_proposal(o, id)
    PROVE  AccessInv' /\ Decides
<1> DEFINE old == proposals[id]
           p == [old EXCEPT !.approvals = @ \cup {o}]
           carried == [p EXCEPT !.state = "executed"]
<1>1. proposals \in Seq(Proposal) /\ id \in 1..Len(proposals) /\ old \in Proposal
  BY DEF AccessInv
<1>2. p \in Proposal /\ p.action = old.action /\ p.lock = old.lock
      /\ p.expiry = old.expiry
  BY <1>1 DEF Proposal
<1>3. carried \in Proposal
  BY <1>2 DEF Proposal
<1>4. carried.state = "executed" /\ carried.approvals = p.approvals
      /\ carried.required = p.required /\ carried.lock = p.lock
      /\ carried.expiry = p.expiry
  BY <1>2 DEF Proposal
<1>5. old.state = "open" /\ now <= old.expiry /\ proposals # << >>
      /\ UNCHANGED <<ledger, now>>
  BY <1>1 DEF approve_proposal, Votable, Open, ledger
<1>6. CASE Ready(p) /\ now >= p.lock
  <2>1. Effect(p.action) /\ proposals' = [proposals EXCEPT ![id] = carried]
    BY <1>6 DEF approve_proposal
  <2>2. p.action \in ProposalActions /\ now \in Nat /\ p.lock \in Nat
    BY <1>2 DEF Proposal, AccessInv
  <2> HIDE DEF carried, p, old
  <2>3. proposals' \in Seq(Proposal) /\ proposals'[id] = carried /\ id \in DOMAIN proposals'
    BY <1>1, <1>3, <2>1, ExceptSeq
  <2>4. Decides
    BY <1>2, <1>4, <1>5, <1>6, <2>2, <2>3 DEF Decides, Ready, old
  <2>5. AccessInv'
    BY <1>5, <2>1, <2>2, <2>3, EffectType DEF AccessInv
  <2> QED
    BY <2>4, <2>5
<1>7. CASE ~(Ready(p) /\ now >= p.lock)
  <2>1. NoEffect /\ proposals' = [proposals EXCEPT ![id] = p]
    BY <1>7 DEF approve_proposal
  <2> HIDE DEF p, old
  <2>2. proposals' \in Seq(Proposal)
    BY <1>1, <1>2, <2>1, ExceptSeq
  <2> QED
    BY <1>5, <2>1, <2>2, VoteStep
<1> QED
  BY <1>6, <1>7

\* Rejected, cancelled and expired proposals.
LEMMA EndStep ==
    ASSUME AccessInv,
           \/ \E o \in Officers, id \in DOMAIN proposals :
                 reject_proposal(o, id) \/ cancel_proposal(o, id)
           \/ cleanup_expired_proposals
    PROVE  AccessInv' /\ Decides
<1>1. proposals \in Seq(Proposal)
  BY DEF AccessInv
<1>2. ASSUME NEW o \in Officers, NEW id \in DOMAIN proposals, reject_proposal(o, id)
      PROVE  AccessInv' /\ Decides
  <2> DEFINE p == [proposals[id] EXCEPT !.rejections = @ \cup {o}]
  <2>1. p \in Proposal
    <3>1. proposals[id] \in Proposal
      BY <1>1
    <3> QED
      BY <3>1 DEF Proposal
  <2>2. proposals' = [proposals EXCEPT ![id] = p]
    BY <1>2 DEF reject_proposal
  <2> HIDE DEF p
  <2>3. proposals' \in Seq(Proposal) /\ proposals # << >>
    BY <1>1, <2>1, <2>2, ExceptSeq
  <2> QED
    BY <1>2, <2>3, VoteStep DEF reject_proposal
<1>3. ASSUME NEW o \in Officers, NEW id \in DOMAIN proposals, cancel_proposal(o, id)
      PROVE  AccessInv' /\ Decides
  <2> DEFINE p == [proposals[id] EXCEPT !.state = "removed"]
  <2>1. p \in Proposal
    <3>1. proposals[id] \in Proposal
      BY <1>1
    <3> QED
      BY <3>1 DEF Proposal
  <2>2. proposals' = [proposals EXCEPT ![id] = p]
    BY <1>3 DEF cancel_proposal
  <2> HIDE DEF p
  <2>3. proposals' \in Seq(Proposal) /\ proposals # << >>
    BY <1>1, <2>1, <2>2, ExceptSeq
  <2> QED
    BY <1>3, <2>3, VoteStep DEF cancel_proposal
<1>4. CASE cleanup_expired_proposals
  <2> DEFINE over == {id \in pendingIds : Open(id) /\ now > proposals[id].expiry}
             after(id) == IF id \in over THEN [proposals[id] EXCEPT !.state = "removed"]
                                         ELSE proposals[id]
  <2>1. over # {} /\ proposals' = [id \in DOMAIN proposals |-> after(id)]
    BY <1>4 DEF cleanup_expired_proposals
  <2>2. ASSUME NEW id \in DOMAIN proposals
        PROVE  after(id) \in Proposal
    <3>1. proposals[id] \in Proposal
      BY <1>1
    <3>2. [proposals[id] EXCEPT !.state = "removed"] \in Proposal
      BY <3>1 DEF Proposal
    <3> QED
      BY <3>1, <3>2
  <2>3. DOMAIN proposals = 1..Len(proposals) /\ Len(proposals) \in Nat
    BY <1>1
  <2>4. proposals # << >>
    BY <2>1, <2>3 DEF Open
  <2> HIDE DEF over, after
  <2>5. proposals' \in [1..Len(proposals) -> Proposal]
    BY <2>1, <2>2, <2>3
  <2>6. proposals' \in Seq(Proposal)
    BY <2>3, <2>5, SeqDef
  <2> QED
    BY <1>4, <2>4, <2>6, VoteStep DEF cleanup_expired_proposals
<1> QED
  BY <1>2, <1>3, <1>4

LEMMA AccessStep ==
    ASSUME AccessInv, [AC_Next]_AC_vars
    PROVE  AccessInv' /\ Decides
<1>1. ASSUME NEW o \in Officers, AC_Call(o)
      PROVE  AccessInv' /\ Decides
  <2>1. ASSUME NEW other \in Officers, NEW role \in {"guest", "member", "admin"},
               set_role(o, other, role)
        PROVE  AccessInv' /\ Decides
    BY <2>1, QuietStep DEF set_role, ledger, AccessInv
  <2>2. ASSUME NEW other \in Officers,
               \/ remove_role(o, other) \/ propose_handover(o, other)
               \/ \E flag \in BOOLEAN : SetBlacklisted(o, other, flag)
        PROVE  AccessInv' /\ Decides
    BY <2>2, QuietStep DEF remove_role, propose_handover, SetBlacklisted, ledger, AccessInv
  <2>3. CASE accept_handover(o) \/ cancel_handover(o)
    BY <2>3, QuietStep DEF accept_handover, cancel_handover, ledger, AccessInv
  <2>4. ASSUME NEW new \in [initialized : {TRUE}, paused : BOOLEAN, emergency : BOOLEAN,
                            membersOnly : BOOLEAN], SetAccess(o, new)
        PROVE  AccessInv' /\ Decides
    <3>1. new \in AccessRecord
      BY DEF AccessRecord
    <3> QED
      BY <2>4, <3>1, SettingStep
  <2> QED
    BY <1>1, <2>1, <2>2, <2>3, <2>4, InitializeStep, ProposeStep, ApproveStep, EndStep
       DEF AC_Call
<1>2. CASE LedgerCloses /\ UNCHANGED AC_state
  <2>1. now' \in Nat
    BY <1>2 DEF LedgerCloses, AccessInv
  <2> QED
    BY <1>2, <2>1, QuietStep DEF AC_state
<1>3. CASE UNCHANGED AC_vars
  BY <1>3, QuietStep DEF AC_vars, AC_state, ledger, AccessInv
<1> QED
  BY <1>1, <1>2, <1>3, InitializeStep, EndStep DEF AC_Next

LEMMA InitAccess == LedgerInit /\ AC_Init => AccessInv
<1> SUFFICES ASSUME LedgerInit, AC_Init
             PROVE  AccessInv
  OBVIOUS
<1>1. board \in BoardRecord /\ ~Multisig
  BY DEF AC_Init, NoBoard, BoardRecord, Multisig
<1>2. access \in AccessRecord /\ proposals = << >> /\ now = 0
  BY DEF LedgerInit, AC_Init, AccessRecord
<1> QED
  BY <1>1, <1>2 DEF AccessInv

\* There is a board, or a proposal, only after the one initialization.
LEMMA AccessHolds == AC_Spec => []AccessInv
<1>1. AccessInv /\ [AC_Next]_AC_vars => AccessInv'
  BY AccessStep
<1> QED
  BY <1>1, InitAccess, PTL DEF AC_Spec

\* With several administrators nothing but a carried proposal, in its time and after
\* its lock, changes the board, the configuration or the pause, for any officers,
\* boards and proposals (approve_proposal, execute_proposal).
THEOREM BoardDecides == AC_Spec => OnlyProposalsDecide
<1>1. AccessInv /\ [AC_Next]_AC_vars
      => [Multisig /\ <<board, access>>' # <<board, access>> =>
            \E id \in DOMAIN proposals' :
               LET p == proposals'[id]
               IN /\ p.state = "executed"
                  /\ id \in DOMAIN proposals => proposals[id].state = "open"
                  /\ Cardinality(p.approvals) >= p.required
                  /\ p.lock <= now /\ now <= p.expiry]_AC_vars
  BY AccessStep DEF Decides
<1> QED
  BY <1>1, AccessHolds, PTL DEF AC_Spec, OnlyProposalsDecide

-----------------------------------------------------------------------------
\* PendingAgrees is inductive together with AccessInv: a proposal leaves the list and
\* the count in the step that ends it, and no id is used twice.
PendingInv == PendingAgrees /\ IsFiniteSet(pendingIds)

LEMMA VotedStays ==
    ASSUME PendingInv, NEW id \in DOMAIN proposals, NEW p,
           proposals' = [proposals EXCEPT ![id] = p], p.state = proposals[id].state,
           UNCHANGED <<pendingIds, pendingCount>>
    PROVE  PendingInv'
<1>1. DOMAIN proposals' = DOMAIN proposals
      /\ \A i \in DOMAIN proposals : proposals'[i].state = proposals[i].state
  OBVIOUS
<1> QED
  BY <1>1 DEF PendingInv, PendingAgrees

LEMMA SettledLeaves ==
    ASSUME PendingInv, NEW id \in DOMAIN proposals, NEW p, proposals[id].state = "open",
           proposals' = [proposals EXCEPT ![id] = p], p.state # "open", Settled(id)
    PROVE  PendingInv'
<1>1. DOMAIN proposals' = DOMAIN proposals /\ proposals'[id].state # "open"
      /\ \A i \in DOMAIN proposals \ {id} : proposals'[i] = proposals[i]
  OBVIOUS
<1>2. id \in pendingIds /\ pendingIds' = pendingIds \ {id}
  BY DEF PendingInv, PendingAgrees, Settled
<1>3. pendingIds' = {i \in DOMAIN proposals' : proposals'[i].state = "open"}
  BY <1>1, <1>2 DEF PendingInv, PendingAgrees
<1>4. IsFiniteSet(pendingIds') /\ Cardinality(pendingIds') = Cardinality(pendingIds) - 1
      /\ Cardinality(pendingIds) \in Nat
  BY <1>2, FS_RemoveElement, FS_CardinalityType DEF PendingInv
<1>5. Cardinality(pendingIds) # 0
  BY <1>2, FS_EmptySet DEF PendingInv
<1>6. pendingCount = Cardinality(pendingIds)
  BY DEF PendingInv, PendingAgrees
<1>7. pendingCount' = pendingCount - 1
  BY <1>4, <1>5, <1>6 DEF Settled
<1> QED
  BY <1>3, <1>4, <1>6, <1>7 DEF PendingInv, PendingAgrees

LEMMA CreatedIsListed ==
    ASSUME AccessInv, PendingInv, NEW o \in Officers, NEW action \in ProposalActions,
           create_proposal(o, action)
    PROVE  PendingInv'
<1> DEFINE id == Len(proposals) + 1
<1>1. proposals \in Seq(Proposal) /\ Len(proposals) \in Nat
  BY DEF AccessInv
<1>2. PICK p : /\ proposals' = Append(proposals, p)
               /\ \/ p.state = "executed" /\ UNCHANGED <<pendingIds, pendingCount>>
                  \/ /\ p.state = "open"
                     /\ pendingIds' = pendingIds \cup {id}
                     /\ pendingCount' = pendingCount + 1
  BY DEF create_proposal
<1>3. /\ DOMAIN proposals' = DOMAIN proposals \cup {id} /\ id \notin DOMAIN proposals
      /\ proposals'[id] = p
      /\ \A i \in DOMAIN proposals : proposals'[i] = proposals[i]
  BY <1>1, <1>2
<1> HIDE DEF id
<1>4. id \notin pendingIds
  BY <1>3 DEF PendingInv, PendingAgrees
<1>5. /\ IsFiniteSet(pendingIds \cup {id})
      /\ Cardinality(pendingIds \cup {id}) = Cardinality(pendingIds) + 1
  BY <1>4, FS_AddElement DEF PendingInv
<1>6. pendingIds' = {i \in DOMAIN proposals' : proposals'[i].state = "open"}
  BY <1>2, <1>3 DEF PendingInv, PendingAgrees
<1> QED
  BY <1>2, <1>5, <1>6 DEF PendingInv, PendingAgrees

LEMMA ApprovedIsSettled ==
    ASSUME AccessInv, PendingInv, NEW o \in Officers, NEW id \in DOMAIN proposals,
           approve_proposal(o, id)
    PROVE  PendingInv'
<1> DEFINE p == [proposals[id] EXCEPT !.approvals = @ \cup {o}]
           carried == [p EXCEPT !.state = "executed"]
<1>1. proposals[id] \in Proposal
  BY DEF AccessInv
<1>2. p.state = proposals[id].state /\ carried.state = "executed"
  BY <1>1 DEF Proposal
<1>3. proposals[id].state = "open"
  BY DEF approve_proposal, Votable, Open
<1>4. \/ proposals' = [proposals EXCEPT ![id] = carried] /\ Settled(id)
      \/ /\ proposals' = [proposals EXCEPT ![id] = p]
         /\ UNCHANGED <<pendingIds, pendingCount>>
  BY DEF approve_proposal
<1> HIDE DEF p, carried
<1> QED
  BY <1>2, <1>3, <1>4, VotedStays, SettledLeaves

LEMMA EndedIsSettled ==
    ASSUME AccessInv, PendingInv,
           \/ \E o \in Officers, id \in DOMAIN proposals :
                 reject_proposal(o, id) \/ cancel_proposal(o, id)
           \/ cleanup_expired_proposals
    PROVE  PendingInv'
<1>1. ASSUME NEW o \in Officers, NEW id \in DOMAIN proposals, reject_proposal(o, id)
      PROVE  PendingInv'
  <2> DEFINE p == [proposals[id] EXCEPT !.rejections = @ \cup {o}]
  <2>1. proposals[id] \in Proposal
    BY DEF AccessInv
  <2>2. p.state = proposals[id].state
    BY <2>1 DEF Proposal
  <2>3. proposals' = [proposals EXCEPT ![id] = p] /\ UNCHANGED <<pendingIds, pendingCount>>
    BY <1>1 DEF reject_proposal
  <2> HIDE DEF p
  <2> QED
    BY <2>2, <2>3, VotedStays
<1>2. ASSUME NEW o \in Officers, NEW id \in DOMAIN proposals, cancel_proposal(o, id)
      PROVE  PendingInv'
  <2> DEFINE p == [proposals[id] EXCEPT !.state = "removed"]
  <2>1. proposals[id] \in Proposal
    BY DEF AccessInv
  <2>2. p.state # "open"
    BY <2>1 DEF Proposal
  <2>3. proposals' = [proposals EXCEPT ![id] = p] /\ Settled(id)
        /\ proposals[id].state = "open"
    BY <1>2 DEF cancel_proposal, Open
  <2> HIDE DEF p
  <2> QED
    BY <2>2, <2>3, SettledLeaves
<1>3. CASE cleanup_expired_proposals
  <2> DEFINE over == {id \in pendingIds : Open(id) /\ now > proposals[id].expiry}
  <2>1. /\ DOMAIN proposals' = DOMAIN proposals
        /\ \A i \in DOMAIN proposals \ over : proposals'[i] = proposals[i]
        /\ \A i \in over : i \in DOMAIN proposals
                           /\ proposals'[i] = [proposals[i] EXCEPT !.state = "removed"]
        /\ pendingIds' = pendingIds \ over
        /\ pendingCount' = IF pendingCount > Cardinality(over)
                           THEN pendingCount - Cardinality(over) ELSE 0
    BY <1>3 DEF cleanup_expired_proposals, Open
  <2>2. over \subseteq pendingIds
    OBVIOUS
  <2> HIDE DEF over
  <2>3. ASSUME NEW i \in over
        PROVE  proposals'[i].state = "removed"
    <3>1. proposals \in Seq(Proposal) /\ i \in DOMAIN proposals
      BY <2>1 DEF AccessInv
    <3>2. proposals[i] \in Proposal
      BY <3>1
    <3> QED
      BY <2>1, <3>2 DEF Proposal
  <2>4. pendingIds' = {i \in DOMAIN proposals' : proposals'[i].state = "open"}
    BY <2>1, <2>3 DEF PendingInv, PendingAgrees
  <2>5. IsFiniteSet(over) /\ IsFiniteSet(pendingIds \ over)
    BY <2>2, FS_Subset, FS_Difference DEF PendingInv
  <2>6. Cardinality(over) \in Nat /\ Cardinality(pendingIds) \in Nat
        /\ Cardinality(pendingIds \ over) \in Nat
    BY <2>5, FS_CardinalityType DEF PendingInv
  <2>7. pendingIds \cap over = over
    BY <2>2
  <2>8. Cardinality(pendingIds \ over) = Cardinality(pendingIds) - Cardinality(over)
    BY <2>7, FS_Difference DEF PendingInv
  <2>9. pendingCount = Cardinality(pendingIds)
    BY DEF PendingInv, PendingAgrees
  <2>10. pendingCount' = Cardinality(pendingIds')
    BY <2>1, <2>6, <2>8, <2>9
  <2> QED
    BY <2>1, <2>4, <2>5, <2>10 DEF PendingInv, PendingAgrees
<1> QED
  BY <1>1, <1>2, <1>3

LEMMA PendingStep ==
    ASSUME AccessInv, PendingInv, [AC_Next]_AC_vars
    PROVE  PendingInv'
<1>1. UNCHANGED <<proposals, pendingIds, pendingCount>> => PendingInv'
  BY DEF PendingInv, PendingAgrees
<1>2. ASSUME NEW o \in Officers, AC_Call(o)
      PROVE  PendingInv'
  <2>1. ASSUME \/ initialize_access(o) \/ accept_handover(o) \/ cancel_handover(o)
               \/ \E other \in Officers :
                     \/ \E role \in {"guest", "member", "admin"} : set_role(o, other, role)
                     \/ remove_role(o, other)
                     \/ \E flag \in BOOLEAN : SetBlacklisted(o, other, flag)
                     \/ propose_handover(o, other)
               \/ \E new \in [initialized : {TRUE}, paused : BOOLEAN,
                              emergency : BOOLEAN, membersOnly : BOOLEAN] :
                     SetAccess(o, new)
        PROVE  PendingInv'
    BY <1>1, <2>1 DEF initialize_access, accept_handover, cancel_handover, set_role,
                      remove_role, SetBlacklisted, propose_handover, SetAccess
  <2> QED
    BY <1>2, <2>1, CreatedIsListed, ApprovedIsSettled, EndedIsSettled DEF AC_Call
<1>3. ASSUME NEW s, NEW required, initialize_multisig(s, required)
      PROVE  PendingInv'
  BY <1>1, <1>3 DEF initialize_multisig
<1>4. CASE (LedgerCloses /\ UNCHANGED AC_state) \/ UNCHANGED AC_vars
  BY <1>1, <1>4 DEF AC_state, AC_vars
<1> QED
  BY <1>2, <1>3, <1>4, EndedIsSettled DEF AC_Next

LEMMA InitPending == AC_Init => PendingInv
<1> SUFFICES ASSUME AC_Init
             PROVE  PendingInv
  OBVIOUS
<1>1. proposals = << >> /\ pendingIds = {} /\ pendingCount = 0
  BY DEF AC_Init
<1> QED
  BY <1>1, FS_EmptySet DEF PendingInv, PendingAgrees

\* Room for proposals is not lost, however they end: the list and the count of pending
\* ones agree with the open ones (access_control.rs create_proposal, approve_proposal,
\* cancel_proposal, cleanup_expired_proposals, execute_proposal).
THEOREM PendingIsCounted == AC_Spec => []PendingAgrees
<1>1. AccessInv /\ PendingInv /\ [AC_Next]_AC_vars => PendingInv'
  BY PendingStep
<1>2. PendingInv => PendingAgrees
  BY DEF PendingInv
<1> QED
  BY <1>1, <1>2, InitPending, AccessHolds, PTL DEF AC_Spec

-----------------------------------------------------------------------------
\* What BoardCanAct needs of every step: as long as the carried configurations are
\* sensible, the board is one of those that validate and the founding allow, and its
\* length, of which the code makes its tests, is the number of its administrators.
Sound(b) ==
    /\ Sensible(b)
    /\ b.required <= b.critical /\ b.critical <= b.emergency
    /\ b.emergency <= Listed(b)

SoundInv == (\A b \in Adopted : Sensible(b)) => Sound(board) /\ LocksEnd

\* Proposals are never taken back once executed, and keep what they propose.
ProposalsKept ==
    \A id \in DOMAIN proposals :
        /\ id \in DOMAIN proposals'
        /\ proposals'[id].action = proposals[id].action
        /\ proposals'[id].lock = proposals[id].lock
        /\ proposals'[id].expiry = proposals[id].expiry
        /\ proposals[id].state = "executed" => proposals'[id].state = "executed"

\* Where nobody is listed twice, one that comes makes the list one longer, and one
\* that goes at most one shorter.
LEMMA SoundAfter ==
    ASSUME board \in BoardRecord, Sound(board), NEW action \in ProposalActions,
           NEW b \in BoardAfter(action),
           action.kind = "UpdateMultisigConfig" => Sensible(action.board)
    PROVE  Sound(b)
<1>1. action.user \in Officers /\ IsFiniteSet(Officers)
  BY AccessAssumption
<1>2. CASE action.kind = "UpdateMultisigConfig"
  BY <1>2 DEF BoardAfter, validate, Sound
<1>3. ASSUME NEW n \in {0, 1}, b = [board EXCEPT !.admins[action.user] = n],
             n = 1 => board.admins[action.user] = 0,
             n = 0 => Listed(board) > board.emergency
      PROVE  Sound(b)
  <2>1. /\ board.admins \in [Officers -> Nat]
        /\ b.admins = [board.admins EXCEPT ![action.user] = n]
        /\ b.lock = board.lock /\ b.expiry = board.expiry /\ b.required = board.required
        /\ b.critical = board.critical /\ b.emergency = board.emergency
    BY <1>3 DEF BoardRecord
  <2>2. /\ \A o \in Officers : board.admins[o] \in Int
        /\ b.admins[action.user] = n /\ n \in Int
        /\ board.admins[action.user] \in {0, 1}
        /\ \A o \in Officers \ {action.user} : b.admins[o] = board.admins[o]
    BY <1>1, <2>1 DEF Sound, Sensible
  <2>3. Listed(b) = Listed(board) - board.admins[action.user] + n
    <3> DEFINE before == board.admins
               after == b.admins
               user == action.user
    <3>1. /\ user \in Officers /\ after[user] = n
          /\ before \in [Officers -> Nat] /\ after \in [Officers -> Nat]
          /\ \A o \in Officers \ {user} : after[o] = before[o]
      BY <1>1, <2>1, <2>2
    <3> HIDE DEF before, after, user
    <3>2. SumFunctionOnSet(after, Officers) =
             SumFunctionOnSet(before, Officers) - before[user] + after[user]
      BY <1>1, <3>1, SumChange
    <3> QED
      BY <3>1, <3>2 DEF Listed, before, after, user
  <2>4. Listed(board) \in Nat
    BY <1>1, <2>1, SumNat DEF Listed
  <2>5. board.emergency \in Nat
    BY DEF BoardRecord
  <2>6. b.emergency <= Listed(b)
    BY <1>3, <2>1, <2>2, <2>3, <2>4, <2>5 DEF Sound
  <2>7. Sensible(b)
    BY <2>1, <2>2 DEF Sound, Sensible
  <2> QED
    BY <2>1, <2>6, <2>7 DEF Sound
<1>4. CASE action.kind = "AddAdmin"
  BY <1>3, <1>4 DEF BoardAfter
<1>5. CASE action.kind = "RemoveAdmin"
  BY <1>3, <1>5 DEF BoardAfter
<1>6. CASE action.kind \notin {"UpdateMultisigConfig", "AddAdmin", "RemoveAdmin"}
  BY <1>6 DEF BoardAfter
<1> QED
  BY <1>2, <1>4, <1>5, <1>6

LEMMA SoundStays ==
    ASSUME AccessInv, SoundInv, ProposalsKept,
           \/ board' = board
           \/ \E action \in ProposalActions :
                 /\ board' \in BoardAfter(action)
                 /\ action.kind = "UpdateMultisigConfig" => action.board \in Adopted',
           \A id \in DOMAIN proposals' \ DOMAIN proposals :
              Sensible(board) => proposals'[id].lock <= proposals'[id].expiry
    PROVE  SoundInv'
<1> SUFFICES ASSUME \A b \in Adopted' : Sensible(b)
             PROVE  Sound(board') /\ LocksEnd'
  BY DEF SoundInv, Sound, Sensible, Listed
<1>1. Adopted \subseteq Adopted'
  BY DEF Adopted, ProposalsKept
<1>2. Sound(board) /\ LocksEnd
  BY <1>1 DEF SoundInv
<1>3. Sound(board')
  BY <1>2, SoundAfter DEF AccessInv
<1>4. LocksEnd'
  BY <1>2 DEF LocksEnd, ProposalsKept, Sound
<1> QED
  BY <1>3, <1>4

LEMMA SoundProposed ==
    ASSUME AccessInv, SoundInv, NEW o \in Officers, NEW action \in ProposalActions,
           create_proposal(o, action)
    PROVE  SoundInv'
<1> DEFINE id == Len(proposals) + 1
<1>1. proposals \in Seq(Proposal) /\ Len(proposals) \in Nat
  BY DEF AccessInv
<1>2. PICK p : /\ proposals' = Append(proposals, p)
               /\ p.action = action /\ p.expiry = now + board.expiry
               /\ p.lock \in {now, now + board.lock}
               /\ NoEffect \/ (Effect(action) /\ p.state = "executed")
  BY DEF create_proposal
<1>3. /\ DOMAIN proposals' = DOMAIN proposals \cup {id} /\ id \notin DOMAIN proposals
      /\ proposals'[id] = p
      /\ \A i \in DOMAIN proposals : proposals'[i] = proposals[i]
  BY <1>1, <1>2
<1>4. Sensible(board) => p.lock <= p.expiry
  BY <1>2 DEF AccessInv, BoardRecord, Sensible
<1> HIDE DEF id
<1>5. ProposalsKept
  BY <1>3 DEF ProposalsKept
<1>6. ASSUME Effect(action), p.state = "executed"
      PROVE  /\ board' \in BoardAfter(action)
             /\ action.kind = "UpdateMultisigConfig" => action.board \in Adopted'
  BY <1>2, <1>3, <1>6 DEF Effect, Adopted
<1>7. NoEffect => board' = board
  BY DEF NoEffect
<1> QED
  BY <1>2, <1>3, <1>4, <1>5, <1>6, <1>7, SoundStays

LEMMA SoundApproved ==
    ASSUME AccessInv, SoundInv, NEW o \in Officers, NEW id \in DOMAIN proposals,
           approve_proposal(o, id)
    PROVE  SoundInv'
<1> DEFINE old == proposals[id]
           p == [old EXCEPT !.approvals = @ \cup {o}]
           carried == [p EXCEPT !.state = "executed"]
<1>1. old \in Proposal
  BY DEF AccessInv
<1>2. /\ p.action = old.action /\ p.lock = old.lock /\ p.expiry = old.expiry
      /\ carried.action = old.action /\ carried.lock = old.lock
      /\ carried.expiry = old.expiry /\ carried.state = "executed"
      /\ p.state = old.state /\ old.action \in ProposalActions
  BY <1>1 DEF Proposal
<1>3. \/ proposals' = [proposals EXCEPT ![id] = carried] /\ Effect(p.action)
      \/ proposals' = [proposals EXCEPT ![id] = p] /\ NoEffect
  BY DEF approve_proposal
<1> HIDE DEF p, carried
<1>4. /\ DOMAIN proposals' = DOMAIN proposals
      /\ \A i \in DOMAIN proposals \ {id} : proposals'[i] = proposals[i]
      /\ \/ proposals'[id] = carried /\ Effect(old.action)
         \/ proposals'[id] = p /\ board' = board
  BY <1>2, <1>3 DEF NoEffect
<1>5. ProposalsKept
  BY <1>2, <1>4 DEF ProposalsKept
<1> HIDE DEF old
<1>6. ASSUME proposals'[id] = carried, Effect(old.action)
      PROVE  /\ board' \in BoardAfter(old.action)
             /\ old.action.kind = "UpdateMultisigConfig" => old.action.board \in Adopted'
  BY <1>2, <1>4, <1>6 DEF Effect, Adopted
<1> QED
  BY <1>2, <1>4, <1>5, <1>6, SoundStays

LEMMA SoundEnded ==
    ASSUME AccessInv, SoundInv,
           \/ \E o \in Officers, id \in DOMAIN proposals :
                 reject_proposal(o, id) \/ cancel_proposal(o, id)
           \/ cleanup_expired_proposals
    PROVE  SoundInv'
<1>1. board' = board /\ DOMAIN proposals' = DOMAIN proposals
  BY DEF reject_proposal, cancel_proposal, cleanup_expired_proposals, NoEffect
<1>2. ASSUME NEW i \in DOMAIN proposals
      PROVE  /\ proposals'[i].action = proposals[i].action
             /\ proposals'[i].lock = proposals[i].lock
             /\ proposals'[i].expiry = proposals[i].expiry
             /\ proposals[i].state = "executed" => proposals'[i].state = "executed"
  <2>1. proposals[i] \in Proposal
    BY DEF AccessInv
  <2>2. ASSUME NEW o \in Officers, NEW id \in DOMAIN proposals, reject_proposal(o, id)
        PROVE  \/ proposals'[i] = proposals[i]
               \/ proposals'[i] = [proposals[i] EXCEPT !.rejections = @ \cup {o}]
    BY <2>2 DEF reject_proposal
  <2>3. ASSUME NEW o \in Officers, NEW id \in DOMAIN proposals, cancel_proposal(o, id)
        PROVE  \/ proposals'[i] = proposals[i]
               \/ /\ proposals[i].state = "open"
                  /\ proposals'[i] = [proposals[i] EXCEPT !.state = "removed"]
    BY <2>3 DEF cancel_proposal, Open
  <2>4. cleanup_expired_proposals =>
          \/ proposals'[i] = proposals[i]
          \/ /\ proposals[i].state = "open"
             /\ proposals'[i] = [proposals[i] EXCEPT !.state = "removed"]
    BY DEF cleanup_expired_proposals, Open
  <2> QED
    BY <2>1, <2>2, <2>3, <2>4 DEF Proposal
<1>3. ProposalsKept
  BY <1>1, <1>2 DEF ProposalsKept
<1> QED
  BY <1>1, <1>3, SoundStays

LEMMA SoundStep ==
    ASSUME AccessInv, SoundInv, [AC_Next]_AC_vars
    PROVE  SoundInv'
<1>1. UNCHANGED <<board, proposals>> => SoundInv'
  BY DEF SoundInv, Sound, Sensible, Listed, Adopted, LocksEnd
<1>2. ASSUME NEW o \in Officers, AC_Call(o)
      PROVE  SoundInv'
  <2>1. ASSUME \/ initialize_access(o) \/ accept_handover(o) \/ cancel_handover(o)
               \/ \E other \in Officers :
                     \/ \E role \in {"guest", "member", "admin"} : set_role(o, other, role)
                     \/ remove_role(o, other)
                     \/ \E flag \in BOOLEAN : SetBlacklisted(o, other, flag)
                     \/ propose_handover(o, other)
               \/ \E new \in [initialized : {TRUE}, paused : BOOLEAN,
                              emergency : BOOLEAN, membersOnly : BOOLEAN] :
                     SetAccess(o, new)
        PROVE  SoundInv'
    BY <1>1, <2>1 DEF initialize_access, accept_handover, cancel_handover, set_role,
                      remove_role, SetBlacklisted, propose_handover, SetAccess
  <2> QED
    BY <1>2, <2>1, SoundProposed, SoundApproved, SoundEnded DEF AC_Call
<1>3. ASSUME NEW s \in SUBSET Officers, NEW required \in 1..Cardinality(Officers),
             initialize_multisig(s, required)
      PROVE  SoundInv'
  <2>1. required \in Nat /\ proposals = << >> /\ proposals' = << >>
    <3>1. Cardinality(Officers) \in Nat
      BY FS_CardinalityType, AccessAssumption
    <3> QED
      BY <1>3, <3>1 DEF initialize_multisig, AccessInv
  <2>2. Sensible(Founding(s, required)) /\ validate(Founding(s, required))
        /\ board' = Founding(s, required)
    BY <1>3, <2>1, FoundingType DEF initialize_multisig
  <2>3. Sound(Founding(s, required))
    BY <2>2 DEF Sound, validate
  <2> HIDE DEF Founding
  <2>4. LocksEnd'
    BY <2>1 DEF LocksEnd
  <2>5. Sound(board')
    BY <2>2, <2>3
  <2> QED
    BY <2>4, <2>5 DEF SoundInv, Sound, Sensible, Listed
<1>4. CASE (LedgerCloses /\ UNCHANGED AC_state) \/ UNCHANGED AC_vars
  BY <1>1, <1>4 DEF AC_state, AC_vars
<1> QED
  BY <1>2, <1>3, <1>4, SoundEnded DEF AC_Next

LEMMA InitSound == AC_Init => SoundInv
<1> SUFFICES ASSUME AC_Init
             PROVE  Sound(board) /\ LocksEnd
  BY DEF SoundInv
<1>1. board = NoBoard /\ proposals = << >>
  BY DEF AC_Init
<1>2. Listed(board) = 0
  BY <1>1, SumZero, AccessAssumption DEF Listed, NoBoard
<1> QED
  BY <1>1, <1>2 DEF Sound, Sensible, LocksEnd, NoBoard

\* Open proposals are what is counted against the limit, and as long as no configuration
\* that was carried lists an address twice or locks a proposal for longer than it lives,
\* there are as many different administrators as the
\* highest threshold asks for, and every proposal has a time at which it may be carried,
\* for any founding board and any sequence of proposals (execute_proposal's RemoveAdmin
\* and UpdateMultisigConfig, create_proposal).
THEOREM BoardCanAlwaysAct == AC_Spec => []BoardCanAct
<1>1. AccessInv /\ SoundInv /\ PendingAgrees => BoardCanAct
  <2> SUFFICES ASSUME AccessInv, SoundInv, \A b \in Adopted : Sensible(b)
               PROVE  ThresholdsReachable /\ LocksEnd
    BY DEF BoardCanAct
  <2>1. Sound(board) /\ LocksEnd
    BY DEF SoundInv
  <2>2. \A o \in Officers : board.admins[o] \in {0, 1}
    BY <2>1 DEF Sound, Sensible, AccessInv, BoardRecord
  <2>3. Listed(board) = Cardinality({o \in Officers : board.admins[o] > 0})
    BY <2>2, SumCounts, AccessAssumption DEF Listed
  <2>4. Multisig => {o \in Officers : IsAdmin(o)} = {o \in Officers : board.admins[o] > 0}
    BY DEF IsAdmin
  <2> QED
    BY <2>1, <2>3, <2>4 DEF Sound, ThresholdsReachable
<1>2. AccessInv /\ SoundInv /\ [AC_Next]_AC_vars => SoundInv'
  BY SoundStep
<1> QED
  BY <1>1, <1>2, InitSound, PendingIsCounted, AccessHolds, PTL DEF AC_Spec

-----------------------------------------------------------------------------
\* The types of access control, with what they need: that proposals exist only where
\* there is a board, and that no effect of one makes a board look like none.
RolesOf == [Officers -> {"guest", "member", "admin"}]
Handovers == [to : Officers \cup {NoOfficer}, by : Officers \cup {NoOfficer}, expiry : Nat]

OfficesType ==
    /\ roles \in RolesOf
    /\ root \in Officers \cup {NoOfficer}
    /\ blacklisted \subseteq Officers
    /\ handover \in Handovers
    /\ Multisig => board.limit > 0
    /\ proposals # << >> => Multisig

OfficesInv == LedgerType /\ OfficesType /\ AccessInv /\ PendingInv

\* A carried proposal.
LEMMA EffectSeats ==
    ASSUME OfficesType, board \in BoardRecord, Multisig, NEW action \in ProposalActions,
           Effect(action)
    PROVE  /\ roles' \in RolesOf /\ blacklisted' \subseteq Officers
           /\ Multisig' /\ board'.limit > 0
<1>1. action.user \in Officers
      /\ (action.kind = "UpdateMultisigConfig" => action.board \in Boards)
  BY AccessAssumption
<1>2. roles' \in RolesOf
  BY <1>1 DEF Effect, OfficesType, RolesOf
<1>3. blacklisted' \subseteq Officers
  BY <1>1 DEF Effect, OfficesType
<1>4. board'.limit > 0
  BY DEF OfficesType, Effect, BoardAfter, validate, BoardRecord
<1>5. Multisig'
  BY <1>4 DEF Multisig, NoBoard
<1> QED
  BY <1>2, <1>3, <1>4, <1>5

LEMMA OfficeCalls ==
    ASSUME OfficesInv, NEW o \in Officers, AC_Call(o)
    PROVE  OfficesType' /\ UNCHANGED ledger
<1> USE DEF OfficesInv
<1>1. CASE initialize_access(o)
  BY <1>1 DEF initialize_access, OfficesType, RolesOf, Multisig
<1>2. ASSUME NEW other \in Officers, NEW role \in {"guest", "member", "admin"},
             set_role(o, other, role)
      PROVE  OfficesType' /\ UNCHANGED ledger
  BY <1>2 DEF set_role, OfficesType, RolesOf, Multisig
<1>3. ASSUME NEW other \in Officers, remove_role(o, other)
      PROVE  OfficesType' /\ UNCHANGED ledger
  BY <1>3 DEF remove_role, OfficesType, RolesOf, Multisig
<1>4. ASSUME NEW other \in Officers, NEW flag \in BOOLEAN, SetBlacklisted(o, other, flag)
      PROVE  OfficesType' /\ UNCHANGED ledger
  BY <1>4 DEF SetBlacklisted, OfficesType, Multisig
<1>5. ASSUME NEW other \in Officers, propose_handover(o, other)
      PROVE  OfficesType' /\ UNCHANGED ledger
  <2>1. now + LockTime \in Nat
    BY AccessAssumption DEF AccessInv
  <2> QED
    BY <1>5, <2>1 DEF propose_handover, OfficesType, Handovers, Multisig
<1>6. CASE accept_handover(o)
  <2>1. root' \in Officers /\ handover' \in Handovers /\ roles' \in RolesOf
    BY <1>6 DEF accept_handover, OfficesType, RolesOf, Handovers, NoHandover
  <2> QED
    BY <1>6, <2>1 DEF accept_handover, OfficesType, Multisig
<1>7. CASE cancel_handover(o)
  BY <1>7 DEF cancel_handover, OfficesType, Handovers, NoHandover, Multisig
<1>8. ASSUME NEW new, SetAccess(o, new)
      PROVE  OfficesType' /\ UNCHANGED ledger
  BY <1>8 DEF SetAccess, OfficesType, Multisig
<1>9. ASSUME NEW action \in ProposalActions, create_proposal(o, action)
      PROVE  OfficesType' /\ UNCHANGED ledger
  <2>1. Multisig /\ UNCHANGED <<ledger, root, handover>> /\ (Effect(action) \/ NoEffect)
    BY <1>9 DEF create_proposal
  <2>2. CASE Effect(action)
    BY <2>1, <2>2, EffectSeats DEF OfficesType, AccessInv
  <2>3. CASE NoEffect
    BY <2>1, <2>3 DEF OfficesType, NoEffect, Multisig
  <2> QED
    BY <2>1, <2>2, <2>3
<1>10. ASSUME NEW id \in DOMAIN proposals,
              \/ approve_proposal(o, id) \/ reject_proposal(o, id) \/ cancel_proposal(o, id)
       PROVE  OfficesType' /\ UNCHANGED ledger
  <2>1. Multisig /\ proposals[id].action \in ProposalActions
    <3>1. proposals \in Seq(Proposal) /\ proposals # << >>
      BY DEF AccessInv
    <3>2. proposals[id] \in Proposal
      BY <3>1
    <3> QED
      BY <3>1, <3>2 DEF OfficesType, Proposal
  <2>2. UNCHANGED <<ledger, root, handover>>
        /\ (NoEffect \/ Effect([proposals[id] EXCEPT !.approvals = @ \cup {o}].action))
    BY <1>10 DEF approve_proposal, reject_proposal, cancel_proposal
  <2>3. [proposals[id] EXCEPT !.approvals = @ \cup {o}].action = proposals[id].action
    <3>1. proposals[id] \in Proposal
      BY DEF AccessInv
    <3> QED
      BY <3>1 DEF Proposal
  <2>4. CASE Effect(proposals[id].action)
    BY <2>1, <2>2, <2>4, EffectSeats DEF OfficesType, AccessInv
  <2>5. CASE NoEffect
    BY <2>1, <2>2, <2>5 DEF OfficesType, NoEffect, Multisig
  <2> QED
    BY <2>2, <2>3, <2>4, <2>5
<1> QED
  BY <1>1, <1>2, <1>3, <1>4, <1>5, <1>6, <1>7, <1>8, <1>9, <1>10 DEF AC_Call

LEMMA OfficesStep ==
    ASSUME OfficesInv, [AC_Next]_AC_vars
    PROVE  OfficesInv'
<1>1. AccessInv' /\ PendingInv'
  BY AccessStep, PendingStep DEF OfficesInv
<1>2. UNCHANGED ledger => LedgerType'
  BY DEF OfficesInv, LedgerType, ledger
<1>3. OfficesType' /\ UNCHANGED ledger => OfficesInv'
  BY <1>1, <1>2 DEF OfficesInv
<1>4. ASSUME NEW o \in Officers, AC_Call(o)
      PROVE  OfficesInv'
  BY <1>4, <1>3, OfficeCalls
<1>5. ASSUME NEW s, NEW required, initialize_multisig(s, required)
      PROVE  OfficesInv'
  <2>1. board'.limit > 0
    BY <1>5 DEF initialize_multisig, validate
  <2>2. roles' \in RolesOf
    BY <1>5 DEF initialize_multisig, OfficesInv, OfficesType, RolesOf
  <2>3. Multisig'
    BY <2>1 DEF Multisig, NoBoard
  <2> QED
    BY <1>5, <1>3, <2>1, <2>2, <2>3 DEF initialize_multisig, OfficesInv, OfficesType
<1>6. CASE cleanup_expired_proposals
  <2>1. proposals # << >>
    <3>1. PICK id \in DOMAIN proposals : TRUE
      BY <1>6 DEF cleanup_expired_proposals, Open
    <3> QED
      BY <3>1 DEF OfficesInv, AccessInv
  <2> QED
    BY <1>6, <1>3, <2>1 DEF cleanup_expired_proposals, NoEffect, OfficesInv, OfficesType, Multisig
<1>7. CASE LedgerCloses /\ UNCHANGED AC_state
  <2>1. LedgerType'
    BY <1>7, LedgerAssumption DEF LedgerCloses, OfficesInv, LedgerType, Times
  <2>2. OfficesType'
    BY <1>7 DEF AC_state, OfficesInv, OfficesType, Multisig
  <2> QED
    BY <1>1, <2>1, <2>2 DEF OfficesInv
<1>8. CASE UNCHANGED AC_vars
  <2>1. OfficesType'
    BY <1>8 DEF AC_vars, AC_state, OfficesInv, OfficesType, Multisig
  <2> QED
    BY <1>8, <1>3, <2>1 DEF AC_vars
<1> QED
  BY <1>4, <1>5, <1>6, <1>7, <1>8 DEF AC_Next

LEMMA InitOffices == LedgerInit /\ AC_Init => OfficesInv
<1> SUFFICES ASSUME LedgerInit, AC_Init
             PROVE  OfficesInv
  OBVIOUS
<1>1. LedgerType
  BY LedgerAssumption DEF LedgerInit, LedgerType, Times, Parties
<1>2. OfficesType
  BY DEF AC_Init, OfficesType, RolesOf, Handovers, NoHandover, Multisig
<1> QED
  BY <1>1, <1>2, InitAccess, InitPending DEF OfficesInv

LEMMA OfficesTyped == OfficesInv => AC_Type
<1> SUFFICES ASSUME OfficesInv
             PROVE  AC_Type
  OBVIOUS
<1>1. pendingIds \subseteq DOMAIN proposals /\ pendingCount \in Nat
  BY FS_CardinalityType DEF OfficesInv, PendingInv, PendingAgrees
<1>2. roles \in RolesOf /\ root \in Officers \cup {NoOfficer} /\ blacklisted \subseteq Officers
      /\ board \in BoardRecord /\ handover \in Handovers /\ access \in AccessRecord
      /\ proposals \in Seq(Proposal)
  BY DEF OfficesInv, OfficesType, AccessInv
<1> QED
  BY <1>1, <1>2, Zenon DEF AccessRecord, AC_Type, RolesOf, Handovers

-----------------------------------------------------------------------------
(***************************************************************************)
(* The contracts together.  A behaviour calls one of them, whose invariant *)
(* holds; the others stay as they were, and share only the ledger.         *)
(***************************************************************************)
SubscriptionsInv == HubType /\ payable \in BOOLEAN /\ SubInv

LEMMA SubscriptionsStep ==
    ASSUME SubscriptionsInv, [HS_Next]_HS_vars
    PROVE  SubscriptionsInv'
<1>1. SubInv'
  BY NextSub DEF SubscriptionsInv
<1>2. payable' \in BOOLEAN
  BY DEF SubscriptionsInv, HS_Next, HS_Lifetime, renew_subscription, Renewal,
         pause_subscription, resume_subscription, cancel_subscription,
         create_subscription, set_usdc_contract, set_pause_config, HS_Tick, HS_state, HS_vars
<1>3. HubEnvironment \/ UNCHANGED hub
  BY DEF HS_Next, HS_Lifetime, renew_subscription, Renewal,
         pause_subscription, resume_subscription, cancel_subscription,
         create_subscription, set_usdc_contract, set_pause_config, HS_Tick, HS_vars,
         HubEnvironment
<1>4. UNCHANGED hub => HubType'
  BY DEF SubscriptionsInv, HubType, LedgerType, hub, ledger
<1> QED
  BY <1>1, <1>2, <1>3, <1>4, HubStep DEF SubscriptionsInv

TiersInv == HubType /\ payable \in BOOLEAN /\ promoList \in Seq(Promos) /\ TierInv

LEMMA TiersStep ==
    ASSUME TiersInv, [HR_Next]_HR_vars
    PROVE  TiersInv'
<1>1. TierInv'
  BY NextTier DEF TiersInv
<1>2. ASSUME NEW user \in Accounts, HR_Call(user)
      PROVE  UNCHANGED <<hub, payable, promoList>>
  BY <1>2 DEF HR_Call, create_subscription_with_tier, request_tier_change,
              process_tier_change, Processed, cancel_tier_change, HS_vars, HS_state
<1>3. ASSUME NEW i \in Tiers, create_tier(i) \/ \E active \in BOOLEAN : update_tier(i, active)
      PROVE  UNCHANGED <<hub, payable, promoList>>
  BY <1>3 DEF create_tier, update_tier, HS_vars, HS_state
<1>4. ASSUME NEW p \in Promos, NEW terms \in PromoTerms, create_promotion(p, terms)
      PROVE  UNCHANGED <<hub, payable>> /\ promoList' \in Seq(Promos)
  BY <1>4 DEF create_promotion, HS_vars, HS_state, TiersInv
<1>5. ASSUME NEW s \in Subs, RenewedWithTier(s) \/ (cancel_subscription(s) /\ UNCHANGED HR_state)
      PROVE  UNCHANGED <<hub, payable, promoList>>
  BY <1>5 DEF RenewedWithTier, renew_subscription, Renewal, cancel_subscription, HR_state
<1>6. ASSUME NEW s \in Subs, NEW user \in Accounts,
             create_subscription(s, user, Cycle) /\ UNCHANGED HR_state
      PROVE  UNCHANGED <<hub, payable, promoList>>
  BY <1>6 DEF create_subscription, HR_state
<1>7. CASE \/ (set_usdc_contract \/ HS_Tick) /\ UNCHANGED HR_state
           \/ HubGovernance /\ UNCHANGED <<HS_state, HR_state>>
  <2>1. payable' \in BOOLEAN /\ promoList' \in Seq(Promos)
    BY <1>7 DEF set_usdc_contract, HS_Tick, HS_state, HR_state, TiersInv
  <2>2. HubEnvironment \/ UNCHANGED hub
    BY <1>7 DEF set_usdc_contract, HS_Tick, HubEnvironment
  <2>3. UNCHANGED hub => HubType'
    BY DEF TiersInv, HubType, LedgerType, hub, ledger
  <2> QED
    BY <1>1, <2>1, <2>2, <2>3, HubStep DEF TiersInv
<1>8. CASE UNCHANGED hub /\ payable' \in BOOLEAN /\ promoList' \in Seq(Promos)
  BY <1>1, <1>8 DEF TiersInv, HubType, LedgerType, hub, ledger
<1>9. UNCHANGED HR_vars => UNCHANGED <<hub, payable, promoList>>
  BY DEF HR_vars, HS_vars, HS_state, HR_state
<1>10. payable \in BOOLEAN /\ promoList \in Seq(Promos)
  BY DEF TiersInv
<1> QED
  BY <1>2, <1>3, <1>4, <1>5, <1>6, <1>7, <1>8, <1>9, <1>10 DEF HR_Next

\* The one that is called keeps its invariant, the others their initial state.
ContractsInv ==
    /\ HubType
    /\ IF under = "booking" THEN BookingInv ELSE WB_Init
    /\ IF under = "credits" THEN CreditsInv ELSE RC_Init
    /\ IF under = "staking" THEN StakesInv ELSE SK_Init
    /\ IF under \in {"tokens", "metadata"} THEN TokensInv ELSE HT_Init
    /\ IF under = "metadata" THEN MetadataInv ELSE HD_Init
    /\ IF under = "memberships" THEN MembershipInv ELSE HM_Init
    /\ IF under \in {"subscriptions", "tiers"} THEN SubscriptionsInv ELSE HS_Init
    /\ IF under = "tiers" THEN TiersInv ELSE HR_Init
    /\ IF under = "access" THEN OfficesInv ELSE AC_Init

\* A step is one of the contract that is called, and leaves the others alone.
LEMMA OneIsCalled ==
    ASSUME [MCNext]_all
    PROVE  /\ under' = under
           /\ IF under = "booking" THEN [WB_Next]_WB_vars ELSE UNCHANGED WB_state
           /\ IF under = "credits" THEN [RC_Next]_RC_vars ELSE UNCHANGED RC_state
           /\ IF under = "staking" THEN [SK_Next]_SK_vars ELSE UNCHANGED SK_state
           /\ under = "governance" => [HubNext]_hub
           /\ under = "tokens" => [HT_Next]_HT_vars
           /\ IF under = "metadata" THEN [HD_Next]_HD_vars ELSE UNCHANGED HD_state
           /\ IF under = "memberships" THEN [HM_Next]_HM_vars ELSE UNCHANGED HM_state
           /\ under = "subscriptions" => [HS_Next]_HS_vars
           /\ IF under = "tiers" THEN [HR_Next]_HR_vars ELSE UNCHANGED HR_state
           /\ IF under = "access" THEN [AC_Next]_AC_vars ELSE UNCHANGED AC_state
           /\ under \notin {"tokens", "metadata"} => UNCHANGED tokens
           /\ under \notin {"subscriptions", "tiers"} => UNCHANGED HS_state
           /\ under \in {"booking", "credits", "staking", "access"} => UNCHANGED hubs
           /\ under \notin Contracts => UNCHANGED hub
<1> USE DEF Others, Contracts
<1>1. CASE UNCHANGED all
  <2>1. UNCHANGED <<ledger, under, WB_state, RC_state, SK_state, hubs, tokens, HD_state,
                    HM_state, HS_state, HR_state, AC_state>>
    BY <1>1 DEF all
  <2>2. UNCHANGED <<hub, HT_vars>>
    BY <2>1 DEF hubs, tokens, hub, HT_vars
  <2> QED
    BY <2>1, <2>2 DEF WB_vars, RC_vars, SK_vars, HD_vars, HM_vars, HS_vars, HR_vars, AC_vars
<1>2. CASE under = "booking" /\ BookingCalls /\ Others({"booking"})
  BY <1>2 DEF BookingCalls
<1>3. CASE under = "credits" /\ CreditsCalls /\ Others({"credits"})
  BY <1>3 DEF CreditsCalls
<1>4. CASE under = "staking" /\ StakingCalls /\ Others({"staking"})
  BY <1>4 DEF StakingCalls
<1>5. CASE under = "governance" /\ GovernanceCalls /\ Others({"hub"})
  BY <1>5 DEF GovernanceCalls
<1>6. CASE under = "tokens" /\ TokenOwnersCalls /\ Others({"hub", "tokens"})
  BY <1>6 DEF TokenOwnersCalls
<1>7. CASE under = "metadata" /\ TokenMetadataCalls /\ Others({"hub", "tokens", "metadata"})
  BY <1>7 DEF TokenMetadataCalls
<1>8. CASE under = "memberships" /\ MembershipsCalls /\ Others({"hub", "memberships"})
  BY <1>8 DEF MembershipsCalls
<1>9. CASE under = "subscriptions" /\ SubscriptionsCalls /\ Others({"hub", "subscriptions"})
  BY <1>9 DEF SubscriptionsCalls
<1>10. CASE under = "tiers" /\ SubscriptionTiersCalls /\ Others({"hub", "subscriptions", "tiers"})
  BY <1>10 DEF SubscriptionTiersCalls
<1>11. CASE under = "access" /\ AccessCalls /\ Others({"access"})
  BY <1>11 DEF AccessCalls
<1> QED
  BY <1>1, <1>2, <1>3, <1>4, <1>5, <1>6, <1>7, <1>8, <1>9, <1>10, <1>11 DEF MCNext

LEMMA ContractsStep ==
    ASSUME ContractsInv, [MCNext]_all
    PROVE  ContractsInv'
<1> USE DEF ContractsInv
<1>1. under' = under
  BY OneIsCalled
<1>2. IF under = "booking" THEN BookingInv' ELSE WB_Init'
  <2>1. WB_Init /\ UNCHANGED WB_state => WB_Init'
    BY DEF WB_Init, WB_state
  <2> QED
    BY <2>1, OneIsCalled, NextBooking
<1>3. IF under = "credits" THEN CreditsInv' ELSE RC_Init'
  <2>1. RC_Init /\ UNCHANGED RC_state => RC_Init'
    BY DEF RC_Init, RC_state
  <2> QED
    BY <2>1, OneIsCalled, NextCredits
<1>4. IF under = "staking" THEN StakesInv' ELSE SK_Init'
  <2>1. SK_Init /\ UNCHANGED SK_state => SK_Init'
    BY DEF SK_Init, SK_state
  <2> QED
    BY <2>1, OneIsCalled, NextStakes
<1>5. IF under = "metadata" THEN MetadataInv' ELSE HD_Init'
  <2>1. HD_Init /\ UNCHANGED HD_state => HD_Init'
    BY DEF HD_Init, HD_state
  <2> QED
    BY <2>1, OneIsCalled, MetadataStep
<1>6. IF under \in {"tokens", "metadata"} THEN TokensInv' ELSE HT_Init'
  <2>1. HT_Init /\ UNCHANGED tokens => HT_Init'
    BY DEF HT_Init, tokens, owners
  <2>2. MetadataInv' => TokensInv'
    BY DEF MetadataInv
  <2> QED
    BY <1>5, <2>1, <2>2, OneIsCalled, TokensStep
<1>7. IF under = "memberships" THEN MembershipInv' ELSE HM_Init'
  <2>1. HM_Init /\ UNCHANGED HM_state => HM_Init'
    BY DEF HM_Init, HM_state
  <2> QED
    BY <2>1, OneIsCalled, StepKeeps
<1>8. IF under = "tiers" THEN TiersInv' ELSE HR_Init'
  <2>1. HR_Init /\ UNCHANGED HR_state => HR_Init'
    BY DEF HR_Init, HR_state
  <2> QED
    BY <2>1, OneIsCalled, TiersStep
<1>9. IF under \in {"subscriptions", "tiers"} THEN SubscriptionsInv' ELSE HS_Init'
  <2>1. HS_Init /\ UNCHANGED HS_state => HS_Init'
    BY DEF HS_Init, HS_state, HS_history
  <2>2. TiersInv' => SubscriptionsInv'
    BY DEF TiersInv, TierInv, SubscriptionsInv
  <2> QED
    BY <1>8, <2>1, <2>2, OneIsCalled, SubscriptionsStep
<1>10. IF under = "access" THEN OfficesInv' ELSE AC_Init'
  <2>1. AC_Init /\ UNCHANGED AC_state => AC_Init'
    BY DEF AC_Init, AC_state
  <2> QED
    BY <2>1, OneIsCalled, OfficesStep
<1>11. HubType'
  <2>1. LedgerType' /\ UNCHANGED hubs => HubType'
    BY DEF HubType, hubs
  <2>2. CASE under \in {"booking", "credits", "staking", "access"}
    BY <1>2, <1>3, <1>4, <1>10, <2>1, <2>2, OneIsCalled
       DEF BookingInv, WB_TypeOK, CreditsInv, RC_TypeOK, StakesInv, SK_TypeOK, OfficesInv
  <2>3. CASE under \in {"tokens", "metadata", "memberships", "subscriptions", "tiers"}
    BY <1>6, <1>7, <1>9, <2>3 DEF TokensInv, MembershipInv, SubscriptionsInv
  <2>4. CASE under = "governance"
    BY <2>4, OneIsCalled, GovernanceStep
  <2>5. CASE under \notin Contracts
    BY <2>5, OneIsCalled, GovernanceStep
  <2> QED
    BY <2>2, <2>3, <2>4, <2>5 DEF Contracts
<1> QED
  BY <1>1, <1>2, <1>3, <1>4, <1>5, <1>6, <1>7, <1>8, <1>9, <1>10, <1>11

LEMMA ContractsStart == MCInit => ContractsInv
<1> SUFFICES ASSUME MCInit
             PROVE  ContractsInv
  OBVIOUS
<1>1. /\ HubInit /\ LedgerInit /\ WB_Init /\ RC_Init /\ SK_Init /\ HT_Init /\ HD_Init
      /\ HM_Init /\ HS_Init /\ HR_Init /\ AC_Init
  BY DEF MCInit, HubInit
<1>2. HubType
  BY <1>1, InitHub
<1>3. SubscriptionsInv
  BY <1>1, <1>2, InitSub DEF HS_Init, SubscriptionsInv
<1>4. TiersInv
  BY <1>1, <1>3, InitTier DEF HR_Init, SubscriptionsInv, TiersInv
<1> QED
  BY <1>1, <1>2, <1>3, <1>4, InitBooking, InitCredits, InitStakes, InitTokens, InitMetadata,
     InitMemberships, InitOffices
     DEF ContractsInv

\* A contract that is not called is typed as well.
LEMMA RestingTypes ==
    ASSUME HubType
    PROVE  /\ WB_Init => WB_TypeOK
           /\ RC_Init => RC_TypeOK
           /\ SK_Init => SK_TypeOK
           /\ HT_Init => HT_TypeOK
           /\ HD_Init => HD_Type
           /\ HM_Init => HM_Type
           /\ HS_Init => HS_Type
           /\ HR_Init => HR_Type
           /\ AC_Init => AC_Type
<1>1. LedgerType
  BY DEF HubType
<1>2. ASSUME WB_Init
      PROVE  WB_TypeOK
  <2>1. NoRecord \in WorkspaceRecord /\ NoBookingRecord \in BookingRecord
    BY LedgerAssumption, WorkspaceAssumption
       DEF NoRecord, WorkspaceRecord, NoBookingRecord, BookingRecord, BookingStatuses, Parties
  <2> QED
    BY <1>1, <1>2, <2>1 DEF WB_Init, WB_TypeOK
<1>3. RC_Init => RC_TypeOK
  BY <1>1 DEF RC_Init, RC_TypeOK, CreditRecord, NoCredit, Never
<1>4. ASSUME SK_Init
      PROVE  SK_TypeOK
  <2>1. NoStake \in StakeInfo
    BY LedgerAssumption DEF NoStake, StakeInfo, Times
  <2> QED
    BY <1>1, <1>4, <2>1 DEF SK_Init, SK_TypeOK
<1>5. ASSUME HT_Init
      PROVE  HT_TypeOK
  <2>1. /\ NoToken \in [user : Accounts \cup {NoAccount}, status : Statuses]
        /\ NoAllowance \in [amount : Nat, expires : Moment]
        /\ Whole \in [total : Nat, min : Nat] /\ Nobody \in [Accounts -> Nat]
    BY DEF NoToken, Statuses, NoAllowance, Moment, NoTime, Whole, Nobody
  <2> QED
    BY <1>5, <2>1 DEF HT_Init, HT_TypeOK
<1>6. HD_Init => HD_Type
  BY MetadataAssumption DEF HD_Init, HD_Type, NoMetadata, Attributes
<1>7. ASSUME HM_Init
      PROVE  HM_Type
  <2>1. NoFields \in Fields
    BY DEF NoFields, Fields, Membership
  <2>2. Unissued \in Token
    BY <2>1 DEF Unissued, Token, Moment
  <2> QED
    BY <1>7, <2>1, <2>2 DEF HM_Init, HM_Type
<1>8. ASSUME HS_Init
      PROVE  HS_Type
  <2>1. NoSub \in SubRecord
    BY SubscriptionAssumption DEF NoSub, SubRecord, Moment
  <2> QED
    BY <1>8, <2>1 DEF HS_Init, HS_Type, SubRecord
<1>9. HR_Init => HR_Type
  BY DEF HR_Init, HR_Type, Unset, NoRequest
<1>10. ASSUME AC_Init
       PROVE  AC_Type
  BY <1>10 DEF AC_Init, AC_Type, NoBoard, BoardRecord, NoHandover
<1> QED
  BY <1>2, <1>3, <1>4, <1>5, <1>6, <1>7, <1>8, <1>9, <1>10

\* Every contract's storage is of the types its code declares, through any calls of
\* any of them; no balance, share, reward or count becomes negative.
THEOREM ContractsAreTyped == ContractsSpec => []ContractsTypeOK
<1>1. ContractsInv /\ [MCNext]_all => ContractsInv'
  BY ContractsStep
<1>2. ASSUME ContractsInv
      PROVE  ContractsTypeOK
  <2> USE <1>2 DEF ContractsInv
  <2>1. WB_TypeOK /\ RC_TypeOK /\ SK_TypeOK
    BY RestingTypes DEF BookingInv, CreditsInv, StakesInv
  <2>2. HT_TypeOK
    <3>1. TokensInv => HT_TypeOK
      BY DEF TokensInv, FractionsInv, OwnersInv, OwnersType, RewardsType, HT_TypeOK,
             TokenRecord, AllowanceRecord, Split
    <3> QED
      BY <3>1, RestingTypes
  <2>3. HD_Type
    BY RestingTypes DEF MetadataInv, IndexInv, HD_Type
  <2>4. HM_Type
    BY RestingTypes DEF MembershipInv
  <2>5. HS_Type
    BY RestingTypes DEF SubscriptionsInv, SubInv, SubType, SubRecord, HS_Type
  <2>6. HR_Type
    BY RestingTypes DEF TiersInv, TierInv, TierType, HR_Type
  <2>7. AC_Type
    BY RestingTypes, OfficesTyped
  <2> QED
    BY <2>1, <2>2, <2>3, <2>4, <2>5, <2>6, <2>7 DEF ContractsTypeOK
<1> QED
  BY <1>1, <1>2, ContractsStart, PTL DEF ContractsSpec

-----------------------------------------------------------------------------
(* The hub as one contract: each part keeps its invariant.  They share the *)
(* ledger, the administrator and the halt, of which no invariant says more *)
(* than their types and that time goes on.                                 *)

HubInv ==
    /\ HubType
    /\ FractionsInv /\ IndexInv
    /\ MembershipInv
    /\ TierInv
    /\ StakesInv

\* A step of the hub that moves nothing is one of HubTogether as well.
LEMMA HubRests == UNCHANGED HubVars => HubTogether
BY DEF HubVars, HubTogether, TokensMove, MembershipsMove, SubscriptionsMove, StakesMove,
       AdministrationMoves, hub, ledger, HS_state

LEMMA TokensTogether ==
    ASSUME HubType, FractionsInv, IndexInv, TokensMove
    PROVE  FractionsInv' /\ IndexInv' /\ Guarded
<1>1. OwnersInv
  BY DEF FractionsInv
<1>2. CASE HT_Next /\ UNCHANGED HD_state
  <2>1. IndexInv'
    BY <1>2 DEF HD_state, IndexInv, IndexAgrees
  <2> QED
    BY <1>1, <1>2, <2>1, NextFractions, OwnersStep
<1>3. CASE HD_Next
  <2>1. [HT_Next]_HT_vars
    BY <1>3, MetadataIsOfTokens
  <2> QED
    BY <1>1, <1>3, <2>1, NextFractions, NextIndex, OwnersStep
<1>4. CASE UNCHANGED <<tokens, HD_state>>
  <2>1. UNCHANGED <<owners, distributed, HD_state>>
    BY <1>4 DEF tokens
  <2>2. Guarded
    BY <1>1, <2>1, OwnersUnchanged
  <2>3. FractionsInv'
    BY <2>1, <2>2, FractionsSame DEF owners, Guarded
  <2>4. IndexInv'
    BY <2>1 DEF HD_state, IndexInv, IndexAgrees
  <2> QED
    BY <2>2, <2>3, <2>4
<1> QED
  BY <1>2, <1>3, <1>4 DEF TokensMove

LEMMA MembershipsTogether ==
    ASSUME MembershipInv, HubType', MembershipsMove
    PROVE  MembershipInv' /\ Keeps
<1>1. CASE HM_Next
  BY <1>1, StepKeeps
<1>2. CASE UNCHANGED HM_state
  <2>1. HM_Type'
    BY <1>2 DEF HM_state, HM_Type, MembershipInv
  <2> QED
    BY <1>2, <2>1, OtherKeeps DEF HM_state, Keeps, MembershipInv
<1> QED
  BY <1>1, <1>2 DEF MembershipsMove

\* No call takes a subscription away.
LEMMA SubscriptionsStay ==
    ASSUME SubInv, HS_Next, NEW s \in Subs, sub'[s].status = "absent"
    PROVE  sub[s].status = "absent"
<1>1. sub \in [Subs -> SubRecord]
  BY DEF SubInv, SubType
<1>2. CASE UNCHANGED sub
  BY <1>2
<1>3. ASSUME NEW r \in Subs, HS_Lifetime(r)
      PROVE  sub[s].status = "absent"
  <2>1. /\ sub'[r].status # "absent"
        /\ \A q \in Subs \ {r} : sub'[q] = sub[q]
    <3>1. CASE \E duration \in Durations : renew_subscription(r, duration)
      BY <1>1, <3>1 DEF renew_subscription, Renewal, SubRecord
    <3>2. CASE \E byAdmin \in BOOLEAN : pause_subscription(r, byAdmin)
      BY <1>1, <3>2 DEF pause_subscription, SubRecord
    <3>3. CASE \E byAdmin \in BOOLEAN : resume_subscription(r, byAdmin)
      BY <1>1, <3>3 DEF resume_subscription, SubRecord
    <3>4. CASE cancel_subscription(r)
      BY <1>1, <3>4 DEF cancel_subscription, SubRecord
    <3> QED
      BY <1>3, <3>1, <3>2, <3>3, <3>4 DEF HS_Lifetime
  <2> QED
    BY <2>1
<1>4. ASSUME NEW r \in Subs, NEW user \in Accounts, NEW duration \in Durations,
             create_subscription(r, user, duration)
      PROVE  sub[s].status = "absent"
  BY <1>1, <1>4 DEF create_subscription, Created
<1> QED
  BY <1>2, <1>3, <1>4
     DEF HS_Next, HS_Tick, set_usdc_contract, set_pause_config, HS_state

LEMMA SubscriptionsTogether ==
    ASSUME TierInv, SubscriptionsMove
    PROVE  TierInv'
<1>1. CASE HR_Next
  BY <1>1, NextTier
<1>2. CASE HS_Next /\ UNCHANGED HR_state
  <2>1. SubInv /\ SubInv'
    BY <1>2, NextSub DEF TierInv
  <2> QED
    BY <1>2, <2>1, SubscriptionsStay, UntieredStep
<1>3. CASE UNCHANGED <<now, HS_state, HR_state>>
  <2>1. SubInv /\ UNCHANGED <<now, sub, bought, served, lossless, pausing>>
    BY <1>3 DEF HS_state, HS_history, TierInv
  <2>2. SubInv'
    BY <2>1, OtherStep DEF SubInv, SubType
  <2> QED
    BY <1>3, <2>1, <2>2, UntieredStep
<1> QED
  BY <1>1, <1>2, <1>3 DEF SubscriptionsMove

LEMMA StakesTogether ==
    ASSUME StakesInv,
           SK_Next \/ (UNCHANGED <<wallet, SK_state>> /\ LedgerType' /\ now <= now')
    PROVE  StakesInv'
<1>1. CASE SK_Next
  BY <1>1, NextStakes
<1>2. CASE UNCHANGED <<wallet, SK_state>> /\ LedgerType' /\ now <= now'
  <2>1. UNCHANGED <<wallet, config, stakingTiers, stake, mixed>> /\ SK_TypeOK'
    BY <1>2 DEF SK_state, StakesInv, SK_TypeOK
  <2>2. StakesBacked' /\ \A a \in Accounts : Staking(a)' <=> Staking(a)
    BY <2>1 DEF StakesInv, StakesBacked, Stakes, Staking
  <2>3. ASSUME NEW a \in Accounts, Staking(a)
        PROVE  stake[a].staked_at <= now'
    <3>1. stake[a].staked_at <= now /\ stake[a].staked_at \in Int
      BY <2>3, LedgerAssumption DEF StakesInv, SK_TypeOK, StakeInfo, Times
    <3>2. now \in Int /\ now' \in Int
      BY <1>2, LedgerAssumption DEF StakesInv, SK_TypeOK, LedgerType, Times
    <3> QED
      BY <1>2, <3>1, <3>2
  <2> QED
    BY <2>1, <2>2, <2>3 DEF StakesInv
<1> QED
  BY <1>1, <1>2

\* The administration never takes time back.
LEMMA TimeGoesOn ==
    ASSUME HubType, HubNext \/ UNCHANGED now
    PROVE  now <= now'
<1>1. now \in Int
  BY LedgerAssumption DEF HubType, LedgerType, Times
<1>2. UNCHANGED now \/ now' = now + 1
  BY DEF HubNext, HubCall, HubTick, LedgerCloses, set_admin, propose_admin_transfer,
         rotate_admin_key, accept_admin_transfer, cancel_admin_transfer, emergency_pause,
         emergency_unpause, ledger
<1> QED
  BY <1>1, <1>2

LEMMA HubTogetherStep ==
    ASSUME HubInv, [HubTogether]_HubVars
    PROVE  HubInv' /\ Guarded /\ Keeps
<1>1. HubTogether
  BY HubRests
<1>2. HubType'
  <2>1. CASE HubNext
    BY <2>1, GovernanceStep DEF HubInv
  <2>2. CASE UNCHANGED <<now, admin, transfer, halt>>
    <3>1. wallet' \in [Coins -> [Parties -> Nat]]
      <4>1. CASE SK_Next
        BY <4>1, NextStakes DEF HubInv, StakesInv, SK_TypeOK, LedgerType
      <4>2. CASE UNCHANGED <<wallet, SK_state>>
        BY <4>2 DEF HubInv, HubType, LedgerType
      <4> QED
        BY <1>1, <4>1, <4>2 DEF HubTogether, StakesMove
    <3> QED
      BY <2>2, <3>1 DEF HubInv, HubType, LedgerType
  <2> QED
    BY <1>1, <2>1, <2>2 DEF HubTogether, AdministrationMoves
<1>3. FractionsInv' /\ IndexInv' /\ Guarded
  BY <1>1, TokensTogether DEF HubInv, HubTogether
<1>4. MembershipInv' /\ Keeps
  BY <1>1, <1>2, MembershipsTogether DEF HubInv, HubTogether
<1>5. TierInv'
  BY <1>1, SubscriptionsTogether DEF HubInv, HubTogether
<1>6. StakesInv'
  BY <1>1, <1>2, TimeGoesOn, StakesTogether
     DEF HubInv, HubTogether, StakesMove, AdministrationMoves, HubType
<1> QED
  BY <1>2, <1>3, <1>4, <1>5, <1>6 DEF HubInv

LEMMA HubTogetherStart ==
    ASSUME HubStart
    PROVE  HubInv
<1> USE DEF HubStart
<1>1. LedgerInit
  BY DEF HubInit
<1> QED
  BY <1>1, InitHub, InitFractions, InitIndex, InitMemberships, InitTier, InitStakes
     DEF HubInv

\* The parts of the hub do not disturb one another.  With tokens, metadata,
\* memberships, subscriptions, tiers and staking called in any order on one ledger,
\* under the real administration, every part keeps what it keeps alone.
THEOREM HubKeepsAll ==
    HubSpec => /\ [](FractionsAddUp /\ IndexAgrees /\ TimeAccounted
                        /\ SubscribersCounted /\ StakesBacked)
               /\ OwnershipGuarded
               /\ MembershipsKept
<1>1. HubInv /\ [HubTogether]_HubVars => HubInv'
  BY HubTogetherStep
<1>2. HubInv => /\ FractionsAddUp /\ IndexAgrees /\ TimeAccounted
                /\ SubscribersCounted /\ StakesBacked
  <2>1. TierInv => TimeAccounted
    BY DEF TierInv, SubInv, Fair, TimeAccounted, Left, LeftOf
  <2>2. TierInv => SubscribersCounted
    BY DEF TierInv, Covered, Counted, Having, SubscribersCounted,
           CountsCoverSubscribers, PromotionsCounted
  <2> QED
    BY <2>1, <2>2 DEF HubInv, FractionsInv, IndexInv, StakesInv
<1>3. HubInv /\ [HubTogether]_HubVars
      => [\A t \in Tokens :
            Fractionalized(t) /\ token'[t].user # token[t].user =>
                /\ ~Fractionalized(t)'
                /\ shares[t][token'[t].user] = split[t].total]_HT_vars
  BY HubTogetherStep DEF Guarded, SplitStays
<1>4. HubInv /\ [HubTogether]_HubVars
      => [~NotPaused =>
            /\ UNCHANGED <<split, shares, pending>>
            /\ \A t \in Tokens :
                 /\ token'[t].user = token[t].user
                 /\ \A a, s \in Accounts :
                      allowance'[t][a][s] \in {allowance[t][a][s], NoAllowance}]_HT_vars
  BY HubTogetherStep DEF Guarded, HaltFreezes
<1>5. HubInv /\ [HubTogether]_HubVars
      => [\A t \in Tokens, v \in 0..MaxVersion :
            snapshot[t][v] # NoFields => snapshot'[t][v] = snapshot[t][v]]_HM_vars
  BY HubTogetherStep DEF Keeps
<1>6. HubInv /\ [HubTogether]_HubVars
      => [\A t \in Tokens :
            /\ Issued(t) /\ member'[t].version = member[t].version
            /\ member'[t].is.expiry # member[t].is.expiry
            => /\ member'[t].is.expiry >= Later(member[t].is.expiry, now) + Month
               /\ member'[t].is.status = "active"]_HM_vars
  BY HubTogetherStep DEF Keeps, Extends
<1> QED
  BY <1>1, <1>2, <1>3, <1>4, <1>5, <1>6, HubTogetherStart, PTL
     DEF HubSpec, OwnershipGuarded, SplitTokenStays, HaltFreezesOwnership,
         MembershipsKept, SnapshotsKept, RenewalsExtend
=============================================================================

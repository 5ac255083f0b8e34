# BeaconPay: TLA+ models, checks and proofs

BeaconPay runs a co-working hub: members and guests book workspaces, pay through
Paystack, and part of the money and of the membership lives in Soroban contracts
on Stellar. This directory holds TLA+ models of its core, the TLC runs that check
them on small instances, and proofs, checked by TLAPS, of what matters most for
every instance. Paths below are relative to the repository's root.

Run a check with `tlc -config <run>.cfg <module>.tla` (modules and runs are in
`PROJECT.json`) and a proof with `tlapm <module>.tla`.

## 1. The system

### Parts and their state

Backend (`backend/src`, NestJS on a relational database):

| Part | Code | State it keeps | Changed by |
|---|---|---|---|
| Bookings | `bookings` | rows of `bookings`: PENDING, CONFIRMED, CANCELLED, COMPLETED; `sorobanEscrowId` | create, day pass, confirm, cancel, complete, auto-complete job |
| Payments | `payments` | rows of `payments`: PENDING, SUCCESS, FAILED, REFUNDED; `providerReference` | initialize, webhook, reconcile job, refund |
| Workspaces | `workspaces` | `totalSeats`, `availableSeats`, `isActive` | create, update, soft delete, and the booking handlers |
| Accounts | `auth`, `users` | user rows: address, password, one-time codes, TOTP secret, backup codes, status | register, verify, login, reset, two-factor set-up, suspend, erase |
| Attendance | `workspace-tracking`, `jobs/stale-checkin.job.ts` | open and closed logs | check-in, check-out, hourly job |
| Invoices | `invoices` | rows of `invoices`, a number sequence | generateForPayment |
| Parking | `parking` | spots and their holders | create, update, assign, unassign |
| Plans | `membership-plans` | plans, user memberships | update, subscribe, cancel |
| Visitors | `visitors` | visits and their status | announce, check-in, check-out, cancel |
| Newsletter | `newsletter` | readers with their tokens | subscribe, confirm, unsubscribe |
| Leads | `leads` | leads with a log of activities | upsert, stage change, won |

Contracts (`contracts`, Soroban):

| Part | Code | State it keeps | Changed by |
|---|---|---|---|
| Escrow | `payment_escrow` | escrows, two indexes, dispute window, pause; token balances | create, release, refund, dispute, resolve, claim, admin |
| Booking | `workspace_booking` | workspaces, bookings, two indexes, pause; token balances | register, rate, availability, book, cancel, complete |
| Credits | `resource_credits` | balances, total supply, one expiry record per holder | mint, mint with expiry, transfer, spend, expire |
| Access control | `access_control` | roles, black list, board, proposals with their list and count, pause | initialize, role calls, handover, propose, approve, reject, cancel, clean up |
| Hub: governance | `BeaconPay` | administrator, proposed transfer, emergency pause | set, propose, accept, rotate, pause, unpause |
| Hub: tokens | `BeaconPay` | tokens, allowances, fractions, pending rewards, metadata and its index | issue, transfer, approve, split, trade, recombine, distribute, metadata calls |
| Hub: memberships | `BeaconPay` | expiry, grace, automatic renewal, versions with snapshots | renew, grace, upgrade, batch upgrade, roll back |
| Hub: staking | `BeaconPay` | configuration, tiers, stakes; token balances | configure, stake, unstake, emergency unstake |
| Hub: subscriptions | `BeaconPay` | subscriptions, tiers and counts, promotions, change requests | create, pause, resume, cancel, renew, change tier |

`PROJECT.json` lists every part with its files, and section 5 says what is not
modelled and why.

### How they interact

* A customer creates a booking (transaction with the workspace row locked), asks
  for a payment (`initialize`), and pays on Paystack's page. Paystack's webhook,
  or the reconcile job that asks Paystack about PENDING payments every 15 minutes,
  calls `PaymentOutcomeProvider`, which saves the payment, calls
  `ConfirmBookingProvider.confirm`, and for long-term plans sends an escrow
  transaction. Confirm also activates the member.
* `cancel` saves the booking, applies the refund policy (`refundCore` at
  Paystack), then gives the seats back through
  `UpdateWorkspaceProvider.adjustAvailableSeats`. The admin's `refund` does
  `refundCore` first and `cancel` after it.
* E-mail, notifications and invoices are started and not waited for.
* The other services touch tables of their own; what they share with each other is
  the database and the way handlers run (module `Requests`).
* The contracts call token contracts and nothing else. The hub's parts share its
  administrator and its emergency pause.

### What is hard

* **Interleaving.** Node runs one handler until it awaits. Handlers read an
  entity, wait for a database or for Paystack, change their copy and `save` it.
  Nothing carries a version: the last save wins. Only booking creation uses a
  transaction with a row lock, and the handlers that save the same workspace row
  do not take that lock.
* **Failure.** Paystack calls fail, with or without having arrived; webhooks come
  late, twice or never; the process may stop between two saves.
* **Order.** charge.success and charge.failed of one reference, the job and the
  webhook, refund and cancel.
* **Half-done requests.** A handler of a small service makes several saves with no
  transaction around them; the later ones may fail, and what they would have told a
  member, a host or a counter is lost.
* **Contracts.** One invocation is atomic, so what can go wrong is a *sequence* of
  legal calls: claim after dispute, payout twice, a rate or configuration changed
  meanwhile, an allowance older than the split of its token, a rollback over a
  snapshot, a vote after the expiry, arithmetic at the edge of u64, u128 and i128.

The full list, line by line and with the properties that watch each hazard, is
`hazards` in `PROJECT.json`.

## 2. Modules

| Module | Models | Notes |
|---|---|---|
| `BookingPayments` | bookings and payments of the backend | one action per stretch of code between two awaits |
| `SeatAllocation` | capacity of one workspace | row lock, two-step `save` |
| `Requests` | how handlers and jobs run | a frame per worker; whole-row save; failure |
| `Accounts`, `CheckIns`, `Invoices`, `Parking`, `MembershipPlans`, `Visitors`, `Newsletter`, `Leads` | the services of those names | EXTEND `Requests` |
| `EscrowPromise` | what an escrow promises | abstract specification |
| `PaymentEscrow` | `contracts/payment_escrow` | implements `EscrowPromise` |
| `Ledger` | clock, balances, administrator | what the other contracts EXTEND |
| `SlotCalendar` | what a booking contract promises | abstract specification |
| `WorkspaceBooking` | `contracts/workspace_booking` | implements `SlotCalendar` |
| `ResourceCredits` | `contracts/resource_credits` | |
| `AccessControl` | `contracts/access_control` | one administrator, or a board with proposals |
| `Hub` | the hub's administrator and emergency pause | the hub's other parts EXTEND it |
| `HubTokens`, `HubMetadata`, `HubMemberships` | ownership and fractions; attributes; lifetime and versions of tokens | `HubMetadata` EXTENDS `HubTokens` |
| `HubStaking` | staking in the hub | |
| `HubSubscriptions`, `HubTiers` | lifetime of subscriptions; tiers, promotions, changes | `HubTiers` EXTENDS `HubSubscriptions` |
| `BeaconPay` | the hub as one contract: all its parts at once | subject of the theorem `HubKeepsAll` |
| `SumTheorems`, `BookingPaymentsProofs`, `SeatAllocationProofs`, `PaymentEscrowProofs`, `HubProofs`, `HubSubscriptionsProofs`, `ContractsProofs`, `ServicesProofs` | - | section 4 |
| `MCBookingPayments`, `MCSeatAllocation`, `MCPaymentEscrow`, `MCAccessControl`, `MCContracts`, `MCBackend` | - | small instances for TLC |

Operators named `Mut_...` are deliberate mistakes next to the definition they
distort. No specification uses them; replacing the original by one must make the
property named for it in `PROJECT.json` fail, which shows the property is alive.

### BookingPayments

`booking` and `payment` are the two tables, `member` the users with `memberSince`.
`frame[w]` is the handler in flight in worker `w`: its step (`pc`), the booking
and payment it works on, and the entity copies (`bk`, `pay`) it will save. A
worker stands for a slot of the event loop, so `Workers` bounds how many handlers
overlap. `Return` ends a handler; inside the reconcile loop it goes to the next
payment, for a return and for an exception alike, as the loop's try/catch does.

| Code | Actions |
|---|---|
| `initialize` | `InitializeStart`, `FindPending`, then `Reopen` or `Insert`, `OpenCheckout`, `SaveReference` |
| webhook, reconcile job | `Webhook`, `ReconcileStart`, `ReconcileVerify` |
| `handleChargeSuccess/Failed` | `ChargeSuccessFind/Save`, `ChargeFailedFind/Save` |
| `confirm` | `ConfirmStart` (admin) or from `ChargeSuccessSave`; `ConfirmRead/Save`, `Activate` |
| `recordSorobanEscrow` | `CreateEscrow`, `LinkEscrow` |
| `cancel`, `applyRefundPolicy` | `CancelStart/Read/Save`, `CancelFindPaid`, `FreeSeats` |
| `complete` | `CompleteStart/Save`, `FreeSeats` |
| `refund`, `refundCore` | `RefundStart`, `CallRefund`, `SaveRefunded`, `RefundThenCancel` |
| outside | `CustomerPays`, `CardDeclined`, `PaymentAges`, `RefundWindowCloses`, `Crash` |

Abstractions:
* `save(entity)` overwrites the row with the copy. TypeORM selects the row and
  updates the columns that differ, which has that effect when select and update
  are one step; for the workspace row, where the update may have to wait for a
  lock, `SeatAllocation` has two steps.
* A payment's id doubles as its Paystack reference, as in the code
  (`initialize-payment.provider.ts:84`); `ref` says whether `providerReference`
  was saved. The webhook finds a row only by it.
* Paystack is what it may answer. `refund` records what the backend asked:
  nothing, asked and not acknowledged, acknowledged, or asked again after an
  acknowledgement. `verifyTransaction` may also fail or say "still pending".
* Time is two clocks without numbers: the refund window of a booking, and the age
  of a payment as the job's two cut-offs see it (`fresh`, `due`, `stale`).
* `CreateEscrow` may succeed, succeed unseen, or never be sent. Today the
  provider is handed a user id where the SDK wants a Stellar address
  (`payment-outcome.provider.ts:227`), so the third case is the usual one; the
  model keeps the other two because the code around the call handles them.
* `crashes`, `freed` and `onChain` are bounded: `MaxCrashes`, and two stands for
  "twice or more" (`CountCap`).
* The auto-complete job calls `complete` on bookings it listed; `complete` reads
  the row again, so the job is one more caller of `CompleteStart`.
* Not modelled: guests' day-pass payments, which have no user; amounts; database
  errors other than a crash.

### SeatAllocation

`rows` are the bookings of one workspace, `workspace` its row, `lock` the
transaction that holds the row lock. `LockWorkspace`, `CheckSeats` and
`CommitBooking` are the booking creation (the day pass differs in three fields:
one day, one seat, and it leaves `availableSeats` alone). `ReadBooking` and
`SaveStatus` are confirm, cancel and complete, the last two going on to
`AdjustRead`. `UpdateRead` and `SoftDeleteRead` are the workspace endpoints.
`SaveWorkspace` and `UpdateColumns` are the two halves of TypeORM's `save`: the
select that finds out which columns differ, and the update, which waits for the
row lock. `shrunk` and `revived` are history: a save lowered `totalSeats`, or
made an ended booking live again.

### PaymentEscrow and EscrowPromise

A failed invocation changes nothing, so errors and panics are guards. A transfer
needs funds; the profile's overflow checks (`src/contracts/Cargo.toml`) make an
overflowing addition a panic, modelled with `MaxU64`. `Accounts` sign calls,
`Vault` is the contract. Indexes, lists in the code, are sets here. An amount of
0 stands for the refused amounts (the guard treats negative ones alike).
`paidBy` is history. `EscrowPromise` knows only deals and balances: `Deposit`
takes the amount once, `PayOut` gives all of it, once, to one of the two parties.
`DealOf` is the refinement mapping: pending and disputed escrows are held deals,
released and refunded ones settled.

`contracts/pause_control/src/board.rs` is another copy of this contract which no
crate compiles; it is not modelled.

### Ledger, and what the contract modules share

An invocation is atomic, so a call that returns an error or panics is no step at
all: errors are guards, and an error *after* a write reverts the write. `Ledger`
has the clock, a balance per coin and party, and the administrator. Each contract's
`..._Call(caller)` is the disjunction of its entry points, its `..._Next` adds the
clock. Records are functions with a default for "no entry". Fields nothing reads
(names, descriptions, event data, created-at dates) are left out.

* **WorkspaceBooking.** Entry points under their own names. `Cost` is the rate times
  the hours rounded up, refused above u128; `AsI128` is the cast with which it
  reaches the token, so a price in the upper half is negative there and the
  transfer panics. The index keeps cancelled and completed bookings, as the code's
  lists do. `SlotOf` maps a booking to the calendar: active is held, completed and
  cancelled are gone.
* **ResourceCredits.** A dated mint replaces the holder's one expiry record;
  `expire_credits` burns the lesser of the balance and the record, and anyone may
  call it. `dated` and `burnt` are history.
* **AccessControl.** `initialize_multisig` makes a board; then `pause`,
  `update_config` and the handover are refused (`SetAccess` is the four calls a
  single administrator has) and proposals decide. `Effect` is
  `execute_proposal`; `BoardAfter` is empty where it fails. The administrators are
  a list: `admins` says how often each address is on it, `Listed` is its length.
  `validate` compares the thresholds with that length and, unlike
  `initialize_multisig` and `AddAdmin`, does not look for duplicates; a removal
  takes every copy of an address off; lock and expiry come with a carried
  configuration too. So `UpdateMultisigConfig` may carry a board that can never
  reach its highest threshold, or never execute a locked proposal before it expires,
  and what `BoardCanAct` promises is conditional: as long as the configurations
  carried so far (`Adopted`) are `Sensible`. Outside `initialize` the contract never calls `require_auth`: who calls
  and who approves are addresses passed as arguments, in the code as in the model,
  so "approved by" means that somebody passed that address.
  The code has some surprises the model keeps: a rejection that passes the threshold returns an error and is reverted, so
  nothing is ever rejected away; `execute_proposal` is not exported, so a locked
  proposal whose last vote came before its lock ended stays until it expires;
  three kinds of proposal (`TransferAdmin`, `ScheduleUpgrade`,
  `EmergencyAdminTransfer`) have no case and always fail; a board cannot leave
  emergency mode; approvals of an administrator removed since still count; a root
  who accepts a handover to itself loses the role.

### The hub

`Hub` is who may call and whether calls run: `set_admin` (anyone may call it),
the two-step transfer, rotation, and the pause with its automatic end and time
lock, which pausing again replaces. The parts do not repeat all of it: they use
`HubEnvironment`, in which the administrator may become anybody and a halt begin or
end at any time. `BeaconPay` puts them together under the real `HubNext`: in a step
every part makes one of its own steps or rests. That has too many states to explore;
it is proved (`HubKeepsAll`, section 4) that the parts keep what each keeps alone.

* **HubTokens.** `Transferable` is the shared check of transfer, approval and
  delegated transfer. Batches are their single calls in a row. Splitting a token
  gives its owner all shares; `transfer_fraction` moves whole fractions and leaves
  none or at least the minimum; `distribute_fraction_rewards` rounds down and gives
  the remainder to the first holder of the map, whichever that is. Calls on shares
  do not ask whether the single token is paused.
* **HubMetadata.** `Reindexed` is the removal of old and the addition of new index
  entries for the keys a call writes. Writing does not ask whether the token is
  paused, and the removal of attributes makes a version without a history entry.
* **HubMemberships.** Renewals, grace and automatic renewal; `NewVersion` is
  snapshot, new version, record of the upgrade. What a token had is `Fields`
  (status, expiry, tier); a rollback restores these and keeps the grace deadline.
* **HubSubscriptions, HubTiers.** `bought`, `served` and `lossless` are history:
  seconds paid for, seconds of service, and whether nothing was given up by a
  cancellation or a pause beyond the longest one credited. A change request is
  stored under the second it was made in; two of one second are one. Whoever made a
  request may process it, also a downgrade.
* **HubStaking.** `Pays` moves principal and rewards; the code pays rewards out of
  whatever the contract holds of the reward coin. `mixed` is history: rewards were
  in the staking coin, or the coin was changed under an open stake. Then one
  staker's rewards may come out of another's principal, which the model allows and
  `StakesBacked` excludes.

### Requests and the services

`frame[w]` is what worker `w` is in the middle of: the operation and the row it has
in hand. `Start` begins a request (its reads and checks), the service's own action
saves, `Fails` drops a request before its next write (the database refuses it, or
the process ends). `overlap` is chosen at the start: whether requests may come in
between. Several services promise something only when they do not; then the
property says `~overlap => ...` and the hazards list names the line where an overlap
breaks it. `Cron` is the worker of the hourly job.

* **Accounts.** One `Handle` per endpoint computes the row it will save;
  `AccountSaved` writes it. `Keep` is `undefined`, which a save leaves out: that is
  how a used `passwordResetCode` stays until it lapses. Codes are numbers and a
  password is the code it was set with, so whose request set it can be told.
  Whether there is a secret for two-factor login is a boolean: that a second set-up
  replaces the secret of an enabled one is not visible. An erasure sets the names to
  null, which the columns do not allow, so its save never succeeds: `AccountSaved`
  refuses that row and only `Fails` follows.
* **CheckIns.** Hours for time. The job reads at most `Cap` stale logs, then saves
  them one by one as it read them; a failed save is skipped, and `isRunning` is
  reset at the end.
* **Invoices.** Find, draw a number, insert, mail. The unique column is the number:
  the entity has no constraint on `paymentId`, which the comments count on.
* **Parking, Visitors.** The save and the notice after it are two steps. Whether
  `unassign` clears the holder, whose relation is loaded beside the column, is left
  open: both outcomes are possible. `told` is what the last notice of a member said; it
  forgets the member when a later notice is lost, so nothing is said of members who
  were not told.
* **MembershipPlans.** Subscribing is the cancellation of the old subscription and
  the insert of the new one, two saves.
* **Newsletter.** `softRemove` writes the time of deletion only, so a row stays
  active; a subscription after it makes the row pending again.
* **Leads.** A second insert for one address is taken as done by the first.
  The module is not imported by `app.module.ts`.

## 3. Runs

| Run | Instance | Shows |
|---|---|---|
| `payments_concurrent` | 1 booking, 1 payment, 2 workers, 1 crash | What survives any interleaving and a restart: refunds only of charges, paid rows only for charges, a cause for every confirmation, escrow, invoice and activation, nothing returns to PENDING |
| `payments_sequential` | 1 booking, 2 payments, 1 worker, fairness | What the handlers keep when they do not overlap: refunded once, final statuses final, seats freed exactly once, a recorded charge settles its booking, one escrow transaction; and every findable charge leaves PENDING before it is 24 h old |
| `seats` | 2 bookings of two kinds, 2 creations, 2 other handlers | The lock protects the capacity it read; no overbooking unless a save revived a booking or lowered `totalSeats`; the gauge stays in range unless one lowered it |
| `escrow` | 2 escrows, 2 accounts, times 0..2 | Solvency, time lock, dispute window, indexes, and the refinement of `EscrowPromise` |
| `contracts` | each other contract and part of the hub in turn | The table below |
| `backend` | each small service in turn, with and without overlapping requests | The table below, and that the hourly job closes every stale log |

In `contracts` the variable `under` says which contract a behaviour calls; the
others stay in their initial state. `serving` does the same in `backend`. They
share no state (the hub's parts share the administrator, the halt and the ledger: see
`BeaconPay`), so a composed run would show no more.

| Property | Part | Says |
|---|---|---|
| `CalendarKept` | booking contract | it implements `SlotCalendar`: no slot is given twice, moved or restored |
| `RefundsCovered` | booking contract | the vault holds what active and completed bookings paid, whatever the rate is now |
| `CreditsAddUp` | credits | balances add up to the supply; dated credits are burnt at most once |
| `StakesBacked` | staking | the vault holds every open stake (see above for when) |
| `OwnershipGuarded` | tokens | a split token moves only as a whole; nothing moves in a halt |
| `FractionsAddUp` | tokens | shares and rewards are conserved, remainders included |
| `IndexAgrees` | metadata | the index finds exactly the tokens that have an attribute |
| `MembershipsKept` | memberships | snapshots are not replaced; a renewal gives the whole period |
| `TimeAccounted` | subscriptions | served and left never exceed bought, and equal it unless given up |
| `SubscribersCounted` | tiers | counts cover subscribers; promotions are redeemed within their limit |
| `BoardCanAct` | access control | list and count of pending proposals are those of the open ones (`PendingAgrees`); while carried configurations are sensible, enough different administrators stay for the highest threshold and every lock ends in time |
| `OnlyProposalsDecide` | access control | a board changes nothing but by a carried, unlocked, unexpired proposal, once |
| `AccountsKept` | accounts | without overlap: no handler undoes what another did, codes work once |
| `RecordsKept` | check-ins, invoices | always: only stale sessions are swept, numbers are distinct, mailed invoices exist; without overlap: one session at a time, ends not overwritten, one invoice a payment, in order |
| `DeskKept` | parking, plans, visitors, newsletter, leads | what people are told agrees with the rows; one membership at its agreed price; mail only to those who asked; the lead's log |
| `StaleLogsClose` | check-ins | a stale log is closed in the end |

The other six runs check one sentence of a comment each and find it refuted by
what the code does:

| Run | Sentence | Counterexample |
|---|---|---|
| `refund_twice` | a refund "stays idempotent if called twice" | two refunds in flight both read SUCCESS and both call Paystack |
| `lost_reference` | "Re-initialize using same reference" | Paystack's first call fails, the second opens a checkout whose row has no `providerReference`; the charge is never found |
| `early_cancel` | an early cancellation refunds automatically | a booking charged on two payments gets one refund |
| `overbooking` | the lock prevents "concurrent seat over-booking" | confirm reads, cancel saves, the seat is sold again, confirm saves its copy |
| `dispute_overflow` | the depositor "may raise a dispute" within the window | `created_at + dispute_window` exceeds u64 and panics |
| `double_invoice` | "the unique constraint on paymentId rejects THIS insert" | two requests for one payment both find no invoice and both insert one |

What the code does against expectation without a run of its own, as no property
holds and nothing of the repository is quoted for it in `findings`:

* `handleChargeSuccess` saves the copy it read: of two deliveries of one charge that
  both read PENDING, the later save turns a payment that was refunded in between from
  REFUNDED into SUCCESS (`payment-outcome.provider.ts:67`).
* Two check-ins at once open two logs (`check-in.provider.ts:30`), two assignments of
  a parking spot at once both succeed and both members are told
  (`parking.service.ts:62`), a handler that read an account before a login by backup
  code saves the used code back (`verify-totp.provider.ts:71`).
* An erasure never succeeds (`account-erasure.provider.ts:26-34`: null names).
* A carried configuration that lists the one administrator twice, with an emergency
  threshold of 1, lets one `RemoveAdmin` take both entries: nobody is left to vote,
  although the contract's README has an error "Cannot remove the last admin"
  (`access_control.rs:888-894`, `945-955`).

### Bounds

Two workers give every pair of handlers at every pair of awaits; the properties
of `payments_concurrent` concern one payment and its booking, and rows of other
bookings are touched by none of their handlers. Two payments of one booking
matter where a booking may be paid twice; there one worker is enough because the
question is the order of whole handlers. One crash: after it all handlers are
gone and the tables are an arbitrary reachable state, from which handlers start
again. In `seats` the overlap query matters from two bookings on; three kinds of
contention (creation against creation, against a status change, against a
workspace save) need two creations and two handlers. Seats range over 1..2 so
that a workspace can be full, grow and shrink. In `escrow` the second escrow is
the one whose money a wrong payout would take; accounts include the vault as a
beneficiary.

In `contracts` there are two accounts, one of which may be the administrator (both
in the hub's governance; three officers in access control), and two bookings,
stakes, tokens with metadata, subscriptions with tiers and promotions, so that one
can be disturbed by a call on another; ownership, lifetime and versions concern one
token at a time, and there one is used. Amounts are up to 4 and u128 ends
at 7, with i128 at 3, so that prices reach the values where the cast changes sign
and sums the values that panic. Boards may be given two configurations: one with
fewer signatures for a critical proposal, all for an emergency and room for one
proposal, and one that lists an administrator twice and locks
proposals for longer than they live. Slots 0, 1, 3 with two-second hours make slots
inside, next to and around one another, and partial hours. Two dated credits, two
staking tiers, splits that leave remainders, two versions of a token with rollback,
pauses within and beyond the credited length are the smallest on which the
mistakes of the mutants show. `MCContracts` adds bounds per part (who is
administrator, the last time, how many ids of a kind are used): each cuts off one
more call of a kind the part already has.

In `backend` two workers and the cron give each pair of overlapping requests with
the job; a run without overlap needs one worker. Accounts and plans promise
nothing of overlapping requests and are checked without. Two logs with a cap of
one make the job come twice; two users who may register with one address make
the second be refused; three codes are a registration's and a pair of backup codes.

Symmetry is used for interchangeable workers, ids and creations and in no run with
liveness.

### Fairness

`FairSpec` assumes: a handler in flight makes its next step (the event loop);
time passes 15 minutes; the cron timer keeps firing, so a job enabled again and
again runs (strong fairness, as the job is disabled whenever the worker is
busy); and `verifyTransaction` does not fail for ever. Nothing is assumed of
webhooks or customers, nor that the 24 hours have not passed: `ChargesLeavePending`
allows for a payment that became too old, which the code leaves to a person.

`CheckInsFairness` (run `backend`): the cron keeps firing, so the job starts when it
is enabled again and again (strong, since a run in progress disables it); not every
save of it fails for ever (strong, since another failure may come first); a request
ends or fails (weak). Nothing is assumed of members: `StaleLogsClose` holds of logs
nobody checks out of.

## 4. Proofs

All safety and action properties of the passing runs, and both refinements, are
theorems for any number of rows, members, handlers, accounts, tokens, slots,
amounts and restarts. `PROJECT.json` lists them under `theorems`; 54 theorems rest
on some three hundred lemmas. What stays with TLC is at the end of this section.

### Assumptions

Only the named assumptions of the modules are used, and TLC evaluates each on every
run of its module: `ParamsAssumption`, `SeatsAssumption`, `EscrowAssumption`,
`LedgerAssumption`, `WorkspaceAssumption`, `CreditsAssumption`, `StakingAssumption`,
`HubAssumption`, `TokensAssumption`, `MetadataAssumption`, `MembershipAssumption`,
`SubscriptionAssumption`, `TierAssumption`, `AccessAssumption`,
`RequestsAssumption` and those of the services. They say that bounds are numbers, that a "nothing"
(`NoAccount`, `None`, `NoPromo`) is none of the things it stands beside, and what the
code's types say of settings. Accounts and parties are finite (an address
is 32 bytes), or the sum of their balances would have no meaning; ids of bookings,
escrows and subscriptions may be infinitely many, and the proofs show that only finitely many are in use.

Two hypotheses are not about constants but are part of what is claimed:

* `OneAtATime` (there is one worker) in the theorems about `RefundedOnce`,
  `SeatsFreedOnce`, `ChargeSettlesBooking`, `EscrowedOnce` and `FinalStatusStays`.
  Without it they are false: `refund_twice` is the counterexample to the first.
* `~overlap` inside the properties of the services, for the same reason.

The specifications are the modules' own (`Spec`, `WB_Spec`, `HT_Spec`, ...), without
the bounds `MCContracts` adds; only `ContractsAreTyped` and the theorems on
`BackendSpec` are about the compositions the runs use.

### Sums: `SumTheorems`

`SumFunctionOnSet` is a fold that takes elements in the order `CHOOSE` picks them, and
the balances, shares, seats and stakes of the models are added up with it. That the
sum does not depend on the order is an induction over finite sets; the library's
induction theorem cannot be instantiated here, so the lemmas take a smallest
counterexample instead: among the subsets of a finite set for which an equation
fails, one is minimal (`MinimalSubset`), and taking the picked element out of it
leads to a contradiction. From this follow `SumTakeOut`, `SumAdd`,
`SumChange`, `SumMonotone`, `SumCounts` and the others: what happens to a sum when an
entry is added, removed or changed, and when every entry is one or none.

### Payments: `BookingPaymentsProofs`

In two layers. **Any interleaving.** `PaidRowsWereCharged` is not inductive: a
handler may *hold* a copy that says SUCCESS and save it later. `IInv` says of every
copy what the property says of the rows and ties a frame's step to it (`FramesGood`).
`HInv` adds what a frame knows of the tables at each step (`Knows`), that a row
being opened at Paystack is still PENDING and opened by one handler only (`Fresh`,
`OpenedOnce`), and the history (`Facts`): who confirmed a booking, and that an escrow,
an invoice or an activation belongs to such a confirmation. What a
frame knows is stable because events, references and causes only grow (`Grows`). Hence
`TypeCorrect`, `PaidRowsAreReal`, `RefundsAreReal`, `ConfirmationsHaveACause`,
`EffectsHaveACharge` and the action property `SettledStaysSettled`.

**One handler at a time.** `SInv` adds that the copy is the row (`CopyCurrent`), and for
every effect that is still missing that the handler in flight *owes* it: the
release of seats, the confirmation, the invoice, the escrow, the refund to be
recorded. When no handler is in flight nothing is owed, which is what the properties
say. A crash cancels debts, so each says what it says of restarts (`crashes = 0`, or
"asked and not acknowledged").

### Seats: `SeatAllocationProofs`

`LockedCapacityIsCurrent` is inductive with the types, because the update waits for
the lock. `GaugeInRange` needs that the copies in flight are in range unless a save
lowered the total (`CopiesInRange`). `NeverSoldTwice` is the sum per day:
`DayInv` adds that a copy to be saved has the request of its row (`CopiesAgree`), that
finitely many rows exist, and `CheckHolds`: what a creation found
free is still free when it inserts, since it holds the lock and every other change of live rows
is by a handler that makes none live (`revived`).

### Escrow: `PaymentEscrowProofs`

`EscrowInv` joins the types with `ClaimsRespectTimeLock`, `DisputesInWindow` and
`UndisputedUntilRaised`. `StepShapes` reduces the entry points to five shapes
(configuration, deposit, dispute, payout, clock); `AlwaysSolvent` follows shape by
shape from the sum over the open escrows, and `KeepsPromise` maps each shape to a step
or a stutter of `EscrowPromise`. `PayoutsAreFunded` draws the conclusion a user cares about: no
payout of an open escrow fails for want of money.

### The other contracts and the hub

`ContractsProofs` EXTENDS `HubProofs` and `HubSubscriptionsProofs`.

| Theorem | Invariant | Why it is needed |
|---|---|---|
| `ContractKeepsCalendar`, `NeverDoubleBooked` | `BookingInv`: types and `Indexed` | the contract looks for clashes in the index of a workspace, so every active booking must be in it |
| `RefundsAreCovered` | `RefundInv`: also that paid bookings are finitely many | the sum of what is due; the price is what was paid, not the rate of the day |
| `CreditsAlwaysAddUp` | `CreditsInv` | calls are mints, passes and burns of one holder (`CreditSteps`) |
| `StakesAreBacked` | `StakesInv` | a penalty is at most the whole (`PenaltyIsAPart`), no stake is open without a configuration, and the coins differ unless `mixed` |
| `BoardDecides` | `AccessInv` | no second initialization past the board; thresholds fit the length of every list `BoardAfter` leads to |
| `PendingIsCounted` | `PendingInv` | a proposal leaves the list and the count in the step that ends it |
| `BoardCanAlwaysAct` | `SoundInv` | while carried configurations are sensible nobody is listed twice and every board's lock fits its expiry, so a list is as long as it has different administrators (`SumCounts`); what was carried stays carried (`ProposalsKept`), so a board that is not sensible now falsifies the condition for good |
| `OwnershipIsGuarded` | `OwnersInv`: types and `SplitTokensExist` | an issue could otherwise give a split token to somebody else |
| `FractionsAlwaysAddUp`, `TokensAreTyped` | `FractionsInv`, `TokensInv` | what is rounded off is at most what is shared out (`PortionsFit`), so the remainder is a natural number |
| `IndexIsExact` | `IndexInv` | the three writing calls share `IndexStep` |
| `NothingIsTakenAway` | `MembershipInv` | a snapshot is stored under the current version; none has that version or a later one (`SnapshotsBelow`) |
| `ServedAsBought` | `SubInv` | a paused subscription was paused before its end, a cancelled one has lost some (`Fair`) |
| `CountsAreKept`, `TieredTimeAccounted` | `TierInv` | absent subscriptions have no tier and redeemed nothing; a pending request names a tier; cardinalities of the finite sets counted (`HavingMoves`) |
| `ContractsAreTyped` | `ContractsInv` | the contract that is called keeps its invariant, the others their initial state |
| `HubKeepsAll` | `HubInv` | see below |

The theorems on one part of the hub see the others as `HubEnvironment`. `HubKeepsAll`
is about all of them: in `BeaconPay` every step may move any of the parts, they share
the ledger, and `HubNext` administers them, with its lapsing
pauses and expiring transfers. Each part's lemmas say what the part's own calls do;
that a part left alone keeps its invariant while the rest moves is
`TokensTogether`, `MembershipsTogether`, `SubscriptionsTogether`, `StakesTogether`. So
the abstraction in `HubEnvironment` loses nothing the properties depend on.

### The services: `ServicesProofs`

The argument is the same for each of the eight. `Framed` says that workers hold frames
of the service's kinds and, without overlap, that one of them is busy at most
(`Serial`). A *sound* frame agrees with the types and with what only grows
(`NumberSound`, `CheckInSound`); a *good* one, which needs `~overlap`, agrees with the
row it was read from (`SpotGood`, `VisitGood`, `NumberGood`, ...), so that saving it
undoes nothing. Two need more. What the hourly job read was stale then
and stays so, since `in` is never changed (`CheckInsInv`); in `AccountsInv`, codes still to be
issued are in no row and unused (`Fresh`, `Unused`), no row holds a code twice
(`Apart`), and a row to be saved differs from the table
only in the facts its request is about (`Agree`). `BackendInv` composes
them: the service that serves keeps its invariant, the tables of the others stay empty.

### Only model-checked

* Liveness: `ChargesLeavePending` and `StaleLogsClose`. ENABLED: the claim of
  `dispute_overflow` that a dispute can be raised.
* The six violations, of course.

## 5. What is left

Not modelled, and why:

* `staking_rewards`: every administrative call reads `DataKey::Admin`, which no call
  writes, so the contract cannot be configured and no stake can be made. The hub's
  own staking is modelled.
* `membership_token`: a reduced copy of calls the hub has. `common_types`,
  `subscription_tier`, `attendance_batch`, `token_upgrade`: types and stubs.
  `pause_control/src/board.rs` and the hub copy outside the workspace: not compiled.
* The hub's attendance log: it is only appended to, and the rest is arithmetic over
  it. Royalties: a setting and an event, no money moves. Revenue figures of tiers.
* The pending-booking expiry job: its file holds a copy of its test; the class
  `jobs.module.ts` imports does not exist.
* Pricing: one multiplication. Referrals and NPS: one insert that a unique
  constraint guards. Events and waitlist: arrays in memory, no await.
  Resources, maintenance, contact, onboarding: single rows without a protocol.
* Dashboards, reports, exports, PDFs, queue statistics: they only read. E-mail,
  notifications, uploads: nobody waits for them.
* Of modelled parts: guests' day-pass payments (no user), amounts of payments,
  access and refresh tokens, the creation of plans.
* The frontend keeps no state of the system.

Next, in this order:

1. Composition of `BookingPayments` with `PaymentEscrow` as its ledger, once the
   backend calls the contract's release and refund.
2. An abstract account per service (what a sequence of requests that do not overlap
   may do to a row) which `Accounts`, `Visitors` and `Newsletter` implement.
3. Guests' day-pass payments in `BookingPayments`.

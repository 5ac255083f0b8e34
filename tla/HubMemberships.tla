--------------------------- MODULE HubMemberships ---------------------------
(***************************************************************************)
(* The lifetime of a membership token of the hub: expiry, renewal by hand  *)
(* and automatic, grace period, versions with snapshots and rollback       *)
(* (membership_token.rs, upgrade.rs, migration.rs).  Ownership changes in  *)
(* HubTokens; here a token just gets another owner.  The pause of a single *)
(* token, and a tier or payment coin that is not accepted, only disable a  *)
(* call (an auto-renewal that fails is reverted whole) and are left out.   *)
(***************************************************************************)
EXTENDS Hub, Sequences

CONSTANTS
    RenewalConfigs,  \* [grace, notice : Nat, enabled : BOOLEAN]
    UpgradeConfigs,  \* [enabled, adminOnly : BOOLEAN, max : Nat]
    Month,           \* seconds a monthly renewal adds (30 days)
    Annual,          \* seconds an annual one adds (365 days)
    GivenDates,      \* expiry dates an administrator gives
    GivenStatuses,   \* statuses an upgrade gives
    MaxExpiry,       \* bound: last expiry date
    MaxVersion       \* bound: versions of a token

ASSUME MembershipAssumption ==
    /\ RenewalConfigs \subseteq [grace : Nat, notice : Nat, enabled : BOOLEAN]
    /\ UpgradeConfigs \subseteq [enabled : BOOLEAN, adminOnly : BOOLEAN, max : Nat]
    /\ Month \in Nat \ {0} /\ Annual \in Nat /\ Month <= Annual
    /\ MaxExpiry \in Nat /\ MaxVersion \in Nat
    /\ GivenDates \subseteq 0..MaxExpiry
    /\ GivenStatuses \subseteq {"active", "grace", "other"}

VARIABLES
    member,    \* Token(id)
    renewals,  \* RenewalConfig
    auto,      \* AutoRenewalSettings(address): the token it is enabled for
    upgrades,  \* UpgradeConfig
    snapshot,  \* VersionSnapshot(id, version)
    history    \* UpgradeHistory(id): is_rollback of each record

HM_state == <<member, renewals, auto, upgrades, snapshot, history>>
HM_vars == <<hub, HM_state>>

NoUpgrades == [enabled |-> FALSE, adminOnly |-> TRUE, max |-> -1]
NoSetting == "no setting"

Membership == {"absent", "active", "grace", "other"}
Fields == [status : Membership, expiry : Nat, tier : BOOLEAN]
NoFields == [status |-> "absent", expiry |-> 0, tier |-> FALSE]
Token == [is : Fields, user : Accounts \cup {NoAccount}, grace : Moment,
          version : Nat]
Unissued == [is |-> NoFields, user |-> NoAccount, grace |-> NoTime, version |-> 0]

HM_Init ==
    /\ member = [t \in Tokens |-> Unissued]
    /\ renewals \in RenewalConfigs
    /\ auto = [a \in Accounts |-> NoSetting]
    /\ upgrades = NoUpgrades
    /\ snapshot = [t \in Tokens |-> [v \in 0..MaxVersion |-> NoFields]]
    /\ history = [t \in Tokens |-> << >>]

HM_Type ==
    /\ member \in [Tokens -> Token]
    /\ renewals \in RenewalConfigs
    /\ auto \in [Accounts -> Tokens \cup {NoSetting}]
    /\ upgrades \in UpgradeConfigs \cup {NoUpgrades}
    /\ snapshot \in [Tokens -> [0..MaxVersion -> Fields]]
    /\ history \in [Tokens -> Seq(BOOLEAN)]

Issued(t) == member[t].is.status # "absent"
Later(m, n) == IF m < n THEN n ELSE m

-----------------------------------------------------------------------------
(* Issue, change of owner, renewal and grace.                              *)

issue_membership(t, user, expiry) ==
    /\ admin # NoAccount /\ NotPaused
    /\ ~Issued(t) /\ now < expiry
    /\ member' = [member EXCEPT ![t] =
            [Unissued EXCEPT !.is = [status |-> "active", expiry |-> expiry,
                                     tier |-> FALSE],
                             !.user = user]]
    /\ UNCHANGED <<renewals, auto, upgrades, snapshot, history>>

\* transfer, delegated transfer or recombination of fractions.
OwnerChanges(t, user) ==
    /\ Issued(t) /\ user # member[t].user
    /\ member' = [member EXCEPT ![t].user = user]
    /\ UNCHANGED <<renewals, auto, upgrades, snapshot, history>>

set_renewal_config(config) ==
    /\ admin # NoAccount /\ NotPaused
    /\ renewals' = config
    /\ UNCHANGED <<member, auto, upgrades, snapshot, history>>

Renewed(token, expiry) ==
    [token EXCEPT !.is = [status |-> "active", expiry |-> expiry, tier |-> TRUE],
                  !.grace = NoTime]

\* Whatever the status; only the owner may call.
renew_token(t, cycle) ==
    LET expiry == Later(member[t].is.expiry, now) + cycle
    IN /\ NotPaused /\ renewals.enabled /\ Issued(t)
       /\ expiry <= MaxExpiry
       /\ member' = [member EXCEPT ![t] = Renewed(@, expiry)]
       /\ UNCHANGED <<renewals, auto, upgrades, snapshot, history>>

\* Anyone may call it, also during a pause.  A call after the deadline fails.
check_and_apply_grace_period(t) ==
    /\ member[t].is.status = "active"
    /\ member[t].is.expiry < now
    /\ member' = [member EXCEPT ![t].is.status = "grace",
                                ![t].grace = now + renewals.grace]
    /\ UNCHANGED <<renewals, auto, upgrades, snapshot, history>>

\* One record per address: naming another token replaces it.
set_auto_renewal(t, enabled) ==
    /\ NotPaused /\ Issued(t)
    /\ auto' = [auto EXCEPT ![member[t].user] = IF enabled THEN t ELSE NoSetting]
    /\ UNCHANGED <<member, renewals, upgrades, snapshot, history>>

check_auto_renewal_eligibility(t) ==
    /\ renewals.notice <= member[t].is.expiry
    /\ member[t].is.expiry - renewals.notice <= now
    /\ now < member[t].is.expiry
    /\ member[t].is.status = "active"

\* Unlike a renewal by hand it does not ask whether renewals are enabled.  When
\* the payment coin is refused, the error reverts the grace period just entered.
process_auto_renewal(t) ==
    /\ NotPaused /\ Issued(t)
    /\ auto[member[t].user] = t
    /\ check_auto_renewal_eligibility(t)
    /\ member[t].is.tier
    /\ member[t].is.expiry + Month <= MaxExpiry
    /\ member' = [member EXCEPT ![t].is.expiry = @ + Month]
    /\ UNCHANGED <<renewals, auto, upgrades, snapshot, history>>

-----------------------------------------------------------------------------
(* Versions.  None of these calls asks whether the hub or token is paused. *)

set_upgrade_config(config) ==
    /\ admin # NoAccount
    /\ upgrades' = config
    /\ UNCHANGED <<member, renewals, auto, snapshot, history>>

\* capture_snapshot, store_snapshot, record_upgrade; the grace deadline stays.
NewVersion(t, fields, rollback) ==
    LET old == member[t]
    IN /\ Issued(t) /\ old.version < MaxVersion
       /\ snapshot' = [snapshot EXCEPT ![t][old.version] = old.is]
       /\ member' = [member EXCEPT ![t].is = fields, ![t].version = @ + 1]
       /\ history' = [history EXCEPT ![t] = Append(@, rollback)]
       /\ UNCHANGED <<renewals, auto, upgrades>>

Migrated(fields, expiry, tier, status) ==
    [expiry |-> IF expiry = NoTime THEN fields.expiry ELSE expiry,
     tier |-> fields.tier \/ tier,
     status |-> IF status = "absent" THEN fields.status ELSE status]

upgrade_token(caller, t, expiry, tier, status) ==
    /\ admin # NoAccount /\ upgrades.enabled
    /\ upgrades.adminOnly => caller = admin
    /\ caller \in {admin, member[t].user}
    /\ NewVersion(t, Migrated(member[t].is, expiry, tier, status), FALSE)

\* One call for several tokens; those that do not exist are only reported.
batch_upgrade_tokens(ids, expiry) ==
    LET done == {t \in ids : Issued(t)}
    IN /\ admin # NoAccount /\ upgrades.enabled
       /\ done # {} /\ \A t \in done : member[t].version < MaxVersion
       /\ snapshot' = [t \in Tokens |-> IF t \in done
                THEN [snapshot[t] EXCEPT ![member[t].version] = member[t].is]
                ELSE snapshot[t]]
       /\ member' = [t \in Tokens |-> IF t \in done
                THEN [member[t] EXCEPT !.is = Migrated(@, expiry, FALSE, "absent"),
                                       !.version = @ + 1]
                ELSE member[t]]
       /\ history' = [t \in Tokens |-> IF t \in done THEN Append(history[t], FALSE)
                                       ELSE history[t]]
       /\ UNCHANGED <<renewals, auto, upgrades>>

count_rollbacks(t) == Cardinality({i \in DOMAIN history[t] : history[t][i]})

\* Mutant: the token takes the number of the version restored.
Mut_rollback_token_upgrade(t, target) ==
    /\ upgrades # NoUpgrades
    /\ upgrades.max > 0 => count_rollbacks(t) < upgrades.max
    /\ target < member[t].version
    /\ snapshot' = [snapshot EXCEPT ![t][member[t].version] = member[t].is]
    /\ member' = [member EXCEPT ![t].is = snapshot[t][target],
                                ![t].version = target]
    /\ history' = [history EXCEPT ![t] = Append(@, TRUE)]
    /\ Len(history[t]) < MaxVersion
    /\ UNCHANGED <<renewals, auto, upgrades>>

\* max_rollbacks 0 is no limit.  Not refused while upgrades are disabled.
rollback_token_upgrade(t, target) ==
    /\ upgrades # NoUpgrades
    /\ upgrades.max > 0 => count_rollbacks(t) < upgrades.max
    /\ snapshot[t][target] # NoFields
    /\ NewVersion(t, snapshot[t][target], TRUE)

HM_Call(t) ==
    \/ \E user \in Accounts : \/ \E expiry \in GivenDates :
                                    issue_membership(t, user, expiry)
                              \/ OwnerChanges(t, user)
    \/ \E cycle \in {Month, Annual} : renew_token(t, cycle)
    \/ check_and_apply_grace_period(t)
    \/ \E enabled \in BOOLEAN : set_auto_renewal(t, enabled)
    \/ process_auto_renewal(t)
    \/ \E caller \in Accounts, expiry \in GivenDates \cup {NoTime}, tier \in BOOLEAN,
          status \in GivenStatuses \cup {"absent"} : upgrade_token(caller, t, expiry, tier, status)
    \/ \E target \in 0..MaxVersion : rollback_token_upgrade(t, target)

HM_Setting ==
    \/ \E config \in RenewalConfigs : set_renewal_config(config)
    \/ \E config \in UpgradeConfigs : set_upgrade_config(config)
    \/ \E ids \in SUBSET Tokens, expiry \in GivenDates \cup {NoTime} :
          batch_upgrade_tokens(ids, expiry)

HM_Next ==
    \/ \E t \in Tokens : HM_Call(t) /\ UNCHANGED hub
    \/ HM_Setting /\ UNCHANGED hub
    \/ HubEnvironment /\ UNCHANGED HM_state

HM_Spec == HubInit /\ HM_Init /\ [][HM_Next]_HM_vars

-----------------------------------------------------------------------------

\* A stored snapshot is never replaced, whatever upgrades and rollbacks follow, so
\* a token can always be taken back to what it was (upgrade.rs store_snapshot).
SnapshotsKept ==
    [][\A t \in Tokens, v \in 0..MaxVersion :
          snapshot[t][v] # NoFields => snapshot'[t][v] = snapshot[t][v]]_HM_vars

\* A renewal, by hand or automatic, leaves the token active and expiring a whole
\* period after both the old date and the present (renew_token): who pays after
\* the expiry, or in the grace period, gets all the time paid for.
RenewalsExtend ==
    [][\A t \in Tokens :
          /\ Issued(t) /\ member'[t].version = member[t].version
          /\ member'[t].is.expiry # member[t].is.expiry
          => /\ member'[t].is.expiry >= Later(member[t].is.expiry, now) + Month
             /\ member'[t].is.status = "active"]_HM_vars

\* Neither renewals nor versions take from a token what it had.
MembershipsKept == SnapshotsKept /\ RenewalsExtend
=============================================================================

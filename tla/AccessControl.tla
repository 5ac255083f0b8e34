---------------------------- MODULE AccessControl ----------------------------
(***************************************************************************)
(* The access_control contract: roles, the pause, the administrator of a   *)
(* single-admin instance, and the proposals of a multi-signature one.  The *)
(* exported functions unwrap what the module returns, so a call that ends  *)
(* in an error is reverted whole: clean-up on the way to an error is lost. *)
(* Counted access attempts, statistics other than the number of pending    *)
(* proposals, and the tier functions the contract does not export are left *)
(* out.                                                                    *)
(***************************************************************************)
EXTENDS Ledger, Sequences

CONSTANTS
    Officers,         \* addresses
    ProposalActions,  \* [kind, user, board] of create_proposal
    Boards,           \* configurations that proposals to change it carry
    LockTime,         \* default time_lock_duration, and time to take over (86400)
    ExpiryTime,       \* default proposal_expiry_duration (604800)
    PendingLimit,     \* default max_pending_proposals (50)
    MaxProposals      \* bound: proposals created

\* The administrators are a list of which the code uses the length, who is on it,
\* and to take every copy of an address off it: how often each is on it.
BoardRecord == [admins : [Officers -> Nat], required : Nat, critical : Nat,
                emergency : Nat, limit : Nat, lock : Nat, expiry : Nat]

ASSUME AccessAssumption ==
    /\ IsFiniteSet(Officers)
    /\ Boards \subseteq BoardRecord
    /\ \A a \in ProposalActions :
          a.user \in Officers /\ (a.kind = "UpdateMultisigConfig" => a.board \in Boards)
    /\ LockTime \in Nat \ {0} /\ ExpiryTime \in Nat /\ LockTime <= ExpiryTime
    /\ PendingLimit \in Nat \ {0} /\ MaxProposals \in Nat

VARIABLES
    roles,        \* UserRole(address)
    root,         \* Admin, of a single-admin instance
    board,        \* MultiSigConfig
    access,       \* Initialized, Paused, EmergencyMode, require_membership_for_roles
    blacklisted,  \* Blacklisted(address)
    handover,     \* PendingAdminTransfer
    proposals,    \* Proposal(id), in the order of ProposalCounter
    pendingIds,   \* PendingProposalsList: every id is pushed once, none is read by place
    pendingCount  \* ProposalStats.pending_count

AC_state == <<roles, root, board, access, blacklisted, handover, proposals,
              pendingIds, pendingCount>>
AC_vars == <<ledger, AC_state>>

NoOfficer == "nobody"
NoBoard == [admins |-> [o \in Officers |-> 0], required |-> 0, critical |-> 0,
            emergency |-> 0, limit |-> 0, lock |-> 0, expiry |-> 0]
NoHandover == [to |-> NoOfficer, by |-> NoOfficer, expiry |-> 0]
Multisig == board # NoBoard

AC_Init ==
    /\ roles = [o \in Officers |-> "guest"]
    /\ root = NoOfficer
    /\ board = NoBoard
    /\ access = [initialized |-> FALSE, paused |-> FALSE, emergency |-> FALSE,
                 membersOnly |-> FALSE]
    /\ blacklisted = {}
    /\ handover = NoHandover
    /\ proposals = << >>
    /\ pendingIds = {}
    /\ pendingCount = 0

Proposal == [proposer : Officers, action : ProposalActions,
             approvals : SUBSET Officers, rejections : SUBSET Officers,
             state : {"open", "executed", "removed"}, expiry : Nat, lock : Nat,
             required : Nat]

AC_Type ==
    /\ roles \in [Officers -> {"guest", "member", "admin"}]
    /\ root \in Officers \cup {NoOfficer}
    /\ board \in BoardRecord
    /\ access \in [initialized : BOOLEAN, paused : BOOLEAN, emergency : BOOLEAN,
                   membersOnly : BOOLEAN]
    /\ blacklisted \subseteq Officers
    /\ handover \in [to : Officers \cup {NoOfficer}, by : Officers \cup {NoOfficer},
                     expiry : Nat]
    /\ proposals \in Seq(Proposal)
    /\ pendingIds \subseteq DOMAIN proposals
    /\ pendingCount \in Nat

IsAdmin(o) == IF Multisig THEN board.admins[o] > 0 ELSE roles[o] = "admin"

Listed(b) == SumFunctionOnSet(b.admins, Officers)   \* admins.len()

\* It does not ask whether an address is listed twice, nor that a lock ends in time.
validate(b) ==
    /\ Listed(b) > 0 /\ b.limit > 0 /\ b.lock > 0 /\ b.expiry > 0
    /\ 0 < b.required /\ b.required <= b.critical
    /\ b.critical <= b.emergency /\ b.emergency <= Listed(b)

-----------------------------------------------------------------------------
(* Initialization and what a single administrator decides.                 *)

initialize_access(o) ==
    /\ ~access.initialized
    /\ root' = o
    /\ roles' = [roles EXCEPT ![o] = "admin"]
    /\ access' = [access EXCEPT !.initialized = TRUE]
    /\ UNCHANGED <<ledger, board, blacklisted, handover, proposals, pendingIds,
                   pendingCount>>

NotAbove(n, max) == IF n > max THEN max ELSE n

\* The first board: each of s listed once, thresholds one above the other.
Founding(s, required) ==
    LET critical == NotAbove(required + 1, Cardinality(s))
    IN [admins |-> [o \in Officers |-> IF o \in s THEN 1 ELSE 0],
        required |-> required, critical |-> critical,
        emergency |-> NotAbove(critical + 1, Cardinality(s)),
        limit |-> PendingLimit, lock |-> LockTime, expiry |-> ExpiryTime]

\* A list with duplicates is refused here.
initialize_multisig(s, required) ==
    /\ ~access.initialized
    /\ 0 < required /\ required <= Cardinality(s)
    /\ validate(Founding(s, required))
    /\ board' = Founding(s, required)
    /\ roles' = [o \in Officers |-> IF o \in s THEN "admin" ELSE roles[o]]
    /\ access' = [access EXCEPT !.initialized = TRUE]
    /\ UNCHANGED <<ledger, root, blacklisted, handover, proposals, pendingIds,
                   pendingCount>>

\* By one administrator also when there are several, who keep their board seat.
\* require_membership_for_roles without a token contract refuses every role but
\* guest; with one, the token's answer can refuse it.
set_role(caller, o, role) ==
    /\ access.initialized /\ ~access.paused
    /\ o \notin blacklisted /\ IsAdmin(caller)
    /\ roles' = [roles EXCEPT ![o] = role]
    /\ UNCHANGED <<ledger, root, board, access, blacklisted, handover, proposals,
                   pendingIds, pendingCount>>

remove_role(caller, o) ==
    /\ IsAdmin(caller)
    /\ o # root
    /\ ~(caller = o /\ roles[o] = "admin")
    /\ roles' = [roles EXCEPT ![o] = "guest"]
    /\ UNCHANGED <<ledger, root, board, access, blacklisted, handover, proposals,
                   pendingIds, pendingCount>>

SetBlacklisted(caller, o, flag) ==
    /\ IsAdmin(caller)
    /\ blacklisted' = IF flag THEN blacklisted \cup {o} ELSE blacklisted \ {o}
    /\ UNCHANGED <<ledger, roles, root, board, access, handover, proposals,
                   pendingIds, pendingCount>>

\* Mutant: one administrator of several may pause.
Mut_SetAccess(caller, new) ==
    /\ IsAdmin(caller)
    /\ access' = new
    /\ UNCHANGED <<ledger, roles, root, board, blacklisted, handover, proposals,
                   pendingIds, pendingCount>>

\* update_config, pause, unpause and deactivate_emergency_mode.
SetAccess(caller, new) ==
    /\ ~Multisig /\ IsAdmin(caller)
    /\ \/ \E flag \in BOOLEAN : new = [access EXCEPT !.membersOnly = flag]
       \/ \E flag \in BOOLEAN : new = [access EXCEPT !.paused = flag]
       \/ new = [access EXCEPT !.emergency = FALSE]
    /\ access' = new
    /\ UNCHANGED <<ledger, roles, root, board, blacklisted, handover, proposals,
                   pendingIds, pendingCount>>

\* Whoever has the role may propose; a new proposal replaces the pending one.
propose_handover(caller, o) ==
    /\ IsAdmin(caller) /\ ~Multisig /\ caller # o
    /\ handover' = [to |-> o, by |-> caller, expiry |-> now + LockTime]
    /\ UNCHANGED <<ledger, roles, root, board, access, blacklisted, proposals,
                   pendingIds, pendingCount>>

\* The old Admin loses the role last, also when it is the new one.
accept_handover(o) ==
    /\ handover.to = o /\ now <= handover.expiry
    /\ root' = o
    /\ roles' = [[roles EXCEPT ![o] = "admin"] EXCEPT ![root] = "guest"]
    /\ handover' = NoHandover
    /\ UNCHANGED <<ledger, board, access, blacklisted, proposals, pendingIds,
                   pendingCount>>

cancel_handover(caller) ==
    /\ IsAdmin(caller) /\ handover # NoHandover /\ handover.by = caller
    /\ handover' = NoHandover
    /\ UNCHANGED <<ledger, roles, root, board, access, blacklisted, proposals,
                   pendingIds, pendingCount>>

-----------------------------------------------------------------------------
(* Proposals.                                                              *)

classify_type(action) ==
    CASE action.kind \in {"SetRole", "Unpause"} -> "Standard"
      [] action.kind \in {"EmergencyPause", "EmergencyAdminTransfer"} -> "Emergency"
      [] action.kind = "ScheduleUpgrade" -> "TimeLocked"
      [] OTHER -> "Critical"

get_required_signatures(action) ==
    CASE classify_type(action) = "Standard" -> board.required
      [] classify_type(action) = "Emergency" -> board.emergency
      [] OTHER -> board.critical

requires_time_lock(action) == classify_type(action) \in {"TimeLocked", "Critical"}

\* Mutant: one administrator too many may be removed.
Mut_BoardAfter(action) ==
    CASE action.kind = "UpdateMultisigConfig" -> {b \in {action.board} : validate(b)}
      [] action.kind = "AddAdmin" ->
            {b \in {[board EXCEPT !.admins[action.user] = 1]} :
                board.admins[action.user] = 0}
      [] action.kind = "RemoveAdmin" ->
            {b \in {[board EXCEPT !.admins[action.user] = 0]} :
                Listed(board) >= board.emergency}
      [] OTHER -> {board}

\* The boards an action can lead to: none when the call fails on it.
BoardAfter(action) ==
    CASE action.kind = "UpdateMultisigConfig" -> {b \in {action.board} : validate(b)}
      [] action.kind = "AddAdmin" ->
            {b \in {[board EXCEPT !.admins[action.user] = 1]} :
                board.admins[action.user] = 0}
      [] action.kind = "RemoveAdmin" ->
            {b \in {[board EXCEPT !.admins[action.user] = 0]} :
                Listed(board) > board.emergency}
      [] OTHER -> {board}

Supported == {"SetRole", "UpdateConfig", "AddAdmin", "RemoveAdmin", "Pause", "Unpause",
              "UpdateMultisigConfig", "EmergencyPause", "BatchBlacklist"}

\* The effect of execute_proposal; a kind it has no case for fails.
Effect(action) ==
    /\ action.kind \in Supported
    /\ board' \in BoardAfter(action)
    /\ roles' = CASE action.kind = "SetRole" -> [roles EXCEPT ![action.user] = "member"]
                  [] action.kind = "AddAdmin" -> [roles EXCEPT ![action.user] = "admin"]
                  [] action.kind = "RemoveAdmin" -> [roles EXCEPT ![action.user] = "guest"]
                  [] OTHER -> roles
    /\ access' = CASE action.kind = "Pause" -> [access EXCEPT !.paused = TRUE]
                   [] action.kind = "Unpause" -> [access EXCEPT !.paused = FALSE]
                   [] action.kind = "EmergencyPause" ->
                         [access EXCEPT !.paused = TRUE, !.emergency = TRUE]
                   [] action.kind = "UpdateConfig" -> [access EXCEPT !.membersOnly = ~@]
                   [] OTHER -> access
    /\ blacklisted' = IF action.kind = "BatchBlacklist"
                      THEN blacklisted \cup {action.user} ELSE blacklisted

NoEffect == UNCHANGED <<board, roles, access, blacklisted>>
Ready(p) == Cardinality(p.approvals) >= p.required

create_proposal(o, action) ==
    LET p == [proposer |-> o, action |-> action, approvals |-> {o}, rejections |-> {},
              state |-> "open", expiry |-> now + board.expiry,
              lock |-> IF requires_time_lock(action) THEN now + board.lock ELSE now,
              required |-> get_required_signatures(action)]
        atOnce == ~requires_time_lock(action) /\ Ready(p)
    IN /\ Multisig /\ IsAdmin(o)
       /\ pendingCount < board.limit
       /\ Len(proposals) < MaxProposals
       /\ IF atOnce
          THEN /\ Effect(action)
               /\ proposals' = Append(proposals, [p EXCEPT !.state = "executed"])
               /\ UNCHANGED <<pendingIds, pendingCount>>
          ELSE /\ NoEffect
               /\ proposals' = Append(proposals, p)
               /\ pendingIds' = pendingIds \cup {Len(proposals) + 1}
               /\ pendingCount' = pendingCount + 1
       /\ UNCHANGED <<ledger, root, handover>>

Open(id) == id \in DOMAIN proposals /\ proposals[id].state = "open"
Votable(o, id) ==
    /\ IsAdmin(o) /\ Open(id) /\ now <= proposals[id].expiry
    /\ o \notin proposals[id].approvals \cup proposals[id].rejections

\* remove_from_pending_list and the count, which does not go below zero.
Settled(id) ==
    /\ pendingIds' = pendingIds \ {id}
    /\ pendingCount' = IF pendingCount > 0 THEN pendingCount - 1 ELSE 0

\* The vote that completes a proposal executes it, unless its time lock is running:
\* then a later vote has to, and when there is none left nothing does.
approve_proposal(o, id) ==
    LET p == [proposals[id] EXCEPT !.approvals = @ \cup {o}]
    IN /\ Votable(o, id)
       /\ IF Ready(p) /\ now >= p.lock
          THEN /\ Effect(p.action)
               /\ proposals' = [proposals EXCEPT ![id] = [p EXCEPT !.state = "executed"]]
               /\ Settled(id)
          ELSE /\ NoEffect
               /\ proposals' = [proposals EXCEPT ![id] = p]
               /\ UNCHANGED <<pendingIds, pendingCount>>
       /\ UNCHANGED <<ledger, root, handover>>

\* The rejection that passes the threshold removes the proposal and returns an
\* error, which reverts the call: a proposal keeps at most that many.
reject_proposal(o, id) ==
    /\ Votable(o, id)
    /\ LET third == Listed(board) \div 3
       IN  Cardinality(proposals[id].rejections) < (IF third > 1 THEN third ELSE 1)
    /\ proposals' = [proposals EXCEPT ![id].rejections = @ \cup {o}]
    /\ NoEffect
    /\ UNCHANGED <<ledger, root, handover, pendingIds, pendingCount>>

cancel_proposal(o, id) ==
    /\ Open(id) /\ proposals[id].proposer = o
    /\ proposals' = [proposals EXCEPT ![id].state = "removed"]
    /\ Settled(id)
    /\ NoEffect
    /\ UNCHANGED <<ledger, root, handover>>

\* Anyone may call it: all listed that are over go, and the count with each.
cleanup_expired_proposals ==
    LET over == {id \in pendingIds : Open(id) /\ now > proposals[id].expiry}
    IN /\ over # {}
       /\ proposals' = [id \in DOMAIN proposals |-> IF id \in over
                THEN [proposals[id] EXCEPT !.state = "removed"] ELSE proposals[id]]
       /\ pendingIds' = pendingIds \ over
       /\ pendingCount' = IF pendingCount > Cardinality(over)
                          THEN pendingCount - Cardinality(over) ELSE 0
       /\ NoEffect
       /\ UNCHANGED <<ledger, root, handover>>

AC_Call(o) ==
    \/ initialize_access(o)
    \/ \E other \in Officers :
          \/ \E role \in {"guest", "member", "admin"} : set_role(o, other, role)
          \/ remove_role(o, other)
          \/ \E flag \in BOOLEAN : SetBlacklisted(o, other, flag)
          \/ propose_handover(o, other)
    \/ accept_handover(o) \/ cancel_handover(o)
    \/ \E new \in [initialized : {TRUE}, paused : BOOLEAN, emergency : BOOLEAN,
                   membersOnly : BOOLEAN] : SetAccess(o, new)
    \/ \E action \in ProposalActions : create_proposal(o, action)
    \/ \E id \in DOMAIN proposals : \/ approve_proposal(o, id)
                                   \/ reject_proposal(o, id)
                                   \/ cancel_proposal(o, id)

AC_Next ==
    \/ \E o \in Officers : AC_Call(o)
    \/ \E s \in SUBSET Officers, required \in 1..Cardinality(Officers) :
          initialize_multisig(s, required)
    \/ cleanup_expired_proposals
    \/ LedgerCloses /\ UNCHANGED AC_state

AC_Spec == LedgerInit /\ AC_Init /\ [][AC_Next]_AC_vars

-----------------------------------------------------------------------------

\* The list and the count of pending proposals are those of the stored ones that are
\* not executed, whichever way each ended: the limit on new ones rests on the count.
PendingAgrees ==
    /\ pendingIds = {id \in DOMAIN proposals : proposals[id].state = "open"}
    /\ Cardinality(pendingIds) = pendingCount

\* The configurations that carried proposals have put.
Adopted ==
    {proposals[id].action.board : id \in
        {i \in DOMAIN proposals : /\ proposals[i].state = "executed"
                                  /\ proposals[i].action.kind = "UpdateMultisigConfig"}}

\* What validate leaves to those who vote: nobody is listed twice, and a lock is over
\* before the proposal is.
Sensible(b) == (\A o \in Officers : b.admins[o] <= 1) /\ b.lock <= b.expiry

\* There are as many different administrators as the highest threshold asks for.
ThresholdsReachable ==
    Multisig => /\ board.emergency <= Cardinality({o \in Officers : IsAdmin(o)})
                /\ board.required <= board.critical /\ board.critical <= board.emergency

\* There is a time at which a proposal may be carried.
LocksEnd == \A id \in DOMAIN proposals : proposals[id].lock <= proposals[id].expiry

\* What is counted against the limit on proposals is what is open; and as long as no
\* carried configuration lists an address twice or has a lock longer than its expiry,
\* enough administrators stay for the highest threshold, however they come and go, and
\* no proposal is locked for longer than it lives (RemoveAdmin, UpdateMultisigConfig,
\* create_proposal).
BoardCanAct ==
    /\ PendingAgrees
    /\ (\A b \in Adopted : Sensible(b)) => (ThresholdsReachable /\ LocksEnd)

\* With several administrators, the board, the configuration and the pause change
\* only by a proposal carried by its number of signatures, in its time and after its
\* lock; and no proposal is executed twice.
OnlyProposalsDecide ==
    [][Multisig /\ <<board, access>>' # <<board, access>> =>
         \E id \in DOMAIN proposals' :
            LET p == proposals'[id]
            IN /\ p.state = "executed"
               /\ id \in DOMAIN proposals => proposals[id].state = "open"
               /\ Cardinality(p.approvals) >= p.required
               /\ p.lock <= now /\ now <= p.expiry]_AC_vars
=============================================================================

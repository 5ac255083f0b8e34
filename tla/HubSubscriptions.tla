-------------------------- MODULE HubSubscriptions --------------------------
(***************************************************************************)
(* The lifetime of a subscription of the hub: creation, pause, resume,     *)
(* cancellation and renewal (subscription.rs).  No coins move (the code    *)
(* checks an amount and a coin only); the pause history, the total paused  *)
(* time and the attendance entry a call also writes are left out.          *)
(***************************************************************************)
EXTENDS Hub

CONSTANTS
    Subs,          \* subscription ids
    Durations,     \* seconds a call buys
    PauseConfigs,  \* [max, count, active : Nat]
    MaxPauses      \* bound: pauses of one subscription

ASSUME SubscriptionAssumption ==
    /\ Durations \subseteq Nat
    /\ PauseConfigs \subseteq [max : Nat \ {0}, count : Nat \ {0}, active : Nat]
    /\ MaxPauses \in Nat

VARIABLES
    sub,       \* Subscription(id)
    pausing,   \* PauseConfig
    payable,   \* the USDC contract is set
    bought,    \* history: seconds bought
    served,    \* history: seconds the subscription was active and not expired
    lossless   \* history: never cancelled, no pause beyond the longest credited

HS_history == <<bought, served, lossless>>
HS_state == <<sub, pausing, payable, HS_history>>
HS_vars == <<hub, HS_state>>

NoSub == [status |-> "absent", user |-> NoAccount, expires |-> 0,
          pausedAt |-> NoTime, resumed |-> 0, count |-> 0]

HS_Init ==
    /\ sub = [s \in Subs |-> NoSub]
    /\ pausing \in PauseConfigs
    /\ payable = FALSE
    /\ bought = [s \in Subs |-> 0]
    /\ served = [s \in Subs |-> 0]
    /\ lossless = [s \in Subs |-> TRUE]

HS_Type ==
    /\ sub \in [Subs -> [status : {"absent", "active", "paused", "inactive"},
                         user : Accounts \cup {NoAccount}, expires : Nat,
                         pausedAt : Moment, resumed : Nat, count : 0..MaxPauses]]
    /\ pausing \in PauseConfigs
    /\ payable \in BOOLEAN
    /\ bought \in [Subs -> Nat] /\ served \in [Subs -> Nat]
    /\ lossless \in [Subs -> BOOLEAN]

InService(s) == sub[s].status = "active" /\ now < sub[s].expires

\* Anyone may call it, and choose the coin.
set_usdc_contract ==
    /\ payable' = TRUE
    /\ UNCHANGED <<hub, sub, pausing, HS_history>>

set_pause_config(config) ==
    /\ admin # NoAccount
    /\ pausing' = config
    /\ UNCHANGED <<hub, sub, payable, HS_history>>

Created(s, user, duration) ==
    /\ NotPaused /\ payable
    /\ sub[s].status = "absent"
    /\ sub' = [sub EXCEPT ![s] = [NoSub EXCEPT !.status = "active", !.user = user,
                         !.expires = now + duration, !.resumed = now]]
    /\ bought' = [bought EXCEPT ![s] = duration]

create_subscription(s, user, duration) ==
    /\ Created(s, user, duration)
    /\ UNCHANGED <<hub, pausing, payable, served, lossless>>

\* Only the owner's pauses are limited in number and frequency; the number is never
\* reset.  The hub's own halt is not asked about, here and in resume.
pause_subscription(s, byAdmin) ==
    /\ InService(s)
    /\ sub[s].count < MaxPauses
    /\ IF byAdmin THEN admin # NoAccount
       ELSE /\ sub[s].count < pausing.count
            /\ now - sub[s].resumed >= pausing.active
    /\ sub' = [sub EXCEPT ![s].status = "paused", ![s].pausedAt = now,
                          ![s].count = @ + 1]
    /\ UNCHANGED <<hub, pausing, payable, HS_history>>

resume_subscription(s, byAdmin) ==
    LET paused == now - sub[s].pausedAt
        extension == IF ~byAdmin /\ paused > pausing.max THEN pausing.max ELSE paused
    IN /\ sub[s].status = "paused"
       /\ byAdmin => admin # NoAccount
       /\ sub' = [sub EXCEPT ![s].status = "active", ![s].pausedAt = NoTime,
                             ![s].resumed = now, ![s].expires = @ + extension]
       /\ lossless' = [lossless EXCEPT ![s] = @ /\ extension = paused]
       /\ UNCHANGED <<hub, pausing, payable, bought, served>>

\* Also of one that is paused, expired or cancelled already.
cancel_subscription(s) ==
    /\ NotPaused /\ sub[s].status # "absent"
    /\ sub' = [sub EXCEPT ![s].status = "inactive", ![s].pausedAt = NoTime]
    /\ lossless' = [lossless EXCEPT ![s] = FALSE]
    /\ UNCHANGED <<hub, pausing, payable, bought, served>>

Renewal(s, duration) ==
    /\ NotPaused /\ payable
    /\ bought[s] + duration <= MaxTime        \* bound of the model
    /\ sub' = [sub EXCEPT ![s].status = "active",
                  ![s].expires = (IF @ > now THEN @ ELSE now) + duration]
    /\ bought' = [bought EXCEPT ![s] = @ + duration]
    /\ UNCHANGED <<hub, pausing, payable, served, lossless>>

\* Mutant: a paused subscription is renewed as any other.
Mut_renew_subscription(s, duration) ==
    sub[s].status # "absent" /\ Renewal(s, duration)

\* What is left of a cancelled subscription is there again when it is renewed.
renew_subscription(s, duration) ==
    /\ sub[s].status \in {"active", "inactive"}
    /\ Renewal(s, duration)

HS_Tick ==
    /\ HubTick
    /\ served' = [s \in Subs |-> served[s] + (IF InService(s) THEN 1 ELSE 0)]
    /\ UNCHANGED <<sub, pausing, payable, bought, lossless>>

HS_Lifetime(s) ==
    \/ \E duration \in Durations : renew_subscription(s, duration)
    \/ \E byAdmin \in BOOLEAN : \/ pause_subscription(s, byAdmin)
                                \/ resume_subscription(s, byAdmin)
    \/ cancel_subscription(s)

HS_Next ==
    \/ \E s \in Subs : HS_Lifetime(s)
    \/ \E s \in Subs, user \in Accounts, duration \in Durations :
          create_subscription(s, user, duration)
    \/ set_usdc_contract
    \/ \E config \in PauseConfigs : set_pause_config(config)
    \/ HubGovernance /\ UNCHANGED HS_state
    \/ HS_Tick

HS_Spec == HubInit /\ HS_Init /\ [][HS_Next]_HS_vars

-----------------------------------------------------------------------------
Positive(n) == IF n > 0 THEN n ELSE 0
Left(s) == Positive(sub[s].expires -
              (IF sub[s].status = "paused" THEN sub[s].pausedAt ELSE now))

\* A subscriber is served what was bought and no more, whatever pauses, resumes,
\* renewals and expiries come between; and all of it, unless the subscription was
\* cancelled or a pause lasted longer than is credited (resume_subscription).
TimeAccounted ==
    \A s \in Subs : /\ served[s] + Left(s) <= bought[s]
                    /\ lossless[s] => served[s] + Left(s) = bought[s]
=============================================================================

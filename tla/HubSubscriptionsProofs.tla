----------------------- MODULE HubSubscriptionsProofs -----------------------
(***************************************************************************)
(* Proofs about subscriptions of the hub: what is served and what is left  *)
(* add up to what was bought.  By itself that is not inductive: a paused   *)
(* subscription must have been paused before it ended (or resuming it      *)
(* would give time that was not left), a cancelled one has lost some, and  *)
(* one that does not exist yet has neither been served nor bought.         *)
(***************************************************************************)
EXTENDS HubTiers, FiniteSetTheorems, TLAPS

SubRecord == [status : {"absent", "active", "paused", "inactive"},
              user : Accounts \cup {NoAccount}, expires : Nat,
              pausedAt : Moment, resumed : Nat, count : 0..MaxPauses]

\* A subscription x of which b seconds were bought and v served, at time n; l says
\* that none were lost.
LeftOf(x, n) == Positive(x.expires - (IF x.status = "paused" THEN x.pausedAt ELSE n))

Fair(x, b, v, l, n) ==
    /\ v + LeftOf(x, n) <= b
    /\ l => v + LeftOf(x, n) = b
    /\ x.status = "absent" => v = 0 /\ b = 0 /\ x.expires = 0
    /\ x.status = "paused" => x.pausedAt \in 0..n /\ x.pausedAt < x.expires
    /\ x.status = "inactive" => ~l

SubType ==
    /\ now \in Nat
    /\ pausing \in PauseConfigs
    /\ sub \in [Subs -> SubRecord]
    /\ bought \in [Subs -> Nat] /\ served \in [Subs -> Nat]
    /\ lossless \in [Subs -> BOOLEAN]

SubInv ==
    /\ SubType
    /\ \A s \in Subs : Fair(sub[s], bought[s], served[s], lossless[s], now)

-----------------------------------------------------------------------------
\* A call that changes one subscription to x, fairly.
Becomes(s, x) ==
    /\ x \in SubRecord
    /\ sub' = [sub EXCEPT ![s] = x]
    /\ bought' \in [Subs -> Nat] /\ lossless' \in [Subs -> BOOLEAN]
    /\ \A r \in Subs \ {s} : bought'[r] = bought[r] /\ lossless'[r] = lossless[r]
    /\ UNCHANGED <<now, pausing, served>>
    /\ Fair(x, bought'[s], served[s], lossless'[s], now)

LEMMA FairStep ==
    ASSUME SubInv, NEW s \in Subs, NEW x, Becomes(s, x)
    PROVE  SubInv'
<1>1. SubType'
  BY DEF SubInv, SubType, Becomes
<1>2. sub'[s] = x /\ \A r \in Subs \ {s} : sub'[r] = sub[r]
  BY DEF SubInv, SubType, Becomes
<1>3. Fair(sub'[s], bought'[s], served'[s], lossless'[s], now')
  BY <1>2 DEF Becomes
<1>4. \A r \in Subs \ {s} : Fair(sub'[r], bought'[r], served'[r], lossless'[r], now')
  BY <1>2 DEF SubInv, Becomes
<1> QED
  BY <1>1, <1>3, <1>4 DEF SubInv

LEMMA SubCreateStep ==
    ASSUME SubInv, NEW s \in Subs, NEW user \in Accounts, NEW duration \in Nat,
           Created(s, user, duration), UNCHANGED <<hub, pausing, served, lossless>>
    PROVE  SubInv'
<1> DEFINE x == [NoSub EXCEPT !.status = "active", !.user = user,
                              !.expires = now + duration, !.resumed = now]
<1>1. now \in Nat /\ duration \in Nat /\ sub[s] \in SubRecord
      /\ bought[s] \in Nat /\ served[s] \in Nat
  BY SubscriptionAssumption DEF SubInv, SubType
<1>2. x \in SubRecord /\ x.status = "active" /\ x.expires = now + duration
  <2>1. NoSub \in SubRecord
    BY SubscriptionAssumption DEF NoSub, SubRecord, Moment
  <2>2. now + duration \in Nat
    BY <1>1
  <2> QED
    BY <1>1, <2>1, <2>2 DEF SubRecord
<1>3. sub' = [sub EXCEPT ![s] = x] /\ bought' = [bought EXCEPT ![s] = duration]
      /\ UNCHANGED <<now, pausing, served, lossless>>
  BY DEF Created, hub, ledger
<1>4. served[s] = 0
  BY DEF SubInv, Fair, Created
<1> HIDE DEF x
<1>5. bought'[s] = duration
  BY <1>3 DEF SubInv, SubType
<1>6. Fair(x, duration, 0, lossless[s], now)
  <2>1. LeftOf(x, now) = duration
    BY <1>1, <1>2 DEF LeftOf, Positive
  <2> QED
    BY <1>1, <1>2, <2>1 DEF Fair
<1>7. Becomes(s, x)
  BY <1>1, <1>2, <1>3, <1>4, <1>5, <1>6 DEF Becomes, SubInv, SubType
<1> QED
  BY <1>7, FairStep

LEMMA PauseStep ==
    ASSUME SubInv, NEW s \in Subs, NEW byAdmin \in BOOLEAN,
           pause_subscription(s, byAdmin)
    PROVE  SubInv'
<1> DEFINE x == [sub[s] EXCEPT !.status = "paused", !.pausedAt = now, !.count = @ + 1]
<1>1. now \in Nat /\ sub[s] \in SubRecord /\ sub[s].expires \in Nat
      /\ sub[s].status = "active" /\ now < sub[s].expires /\ sub[s].count < MaxPauses
  BY DEF SubInv, SubType, SubRecord, pause_subscription, InService
<1>2. x \in SubRecord /\ x.status = "paused" /\ x.pausedAt = now
      /\ x.expires = sub[s].expires
  <2>1. sub[s].count + 1 \in 0..MaxPauses
    BY <1>1, SubscriptionAssumption DEF SubRecord
  <2>2. now \in Moment
    BY <1>1 DEF Moment
  <2> QED
    BY <1>1, <2>1, <2>2 DEF SubRecord
<1>3. sub' = [sub EXCEPT ![s] = x]
      /\ UNCHANGED <<now, pausing, served, bought, lossless>>
  BY DEF pause_subscription, hub, ledger, HS_history
<1>4. Fair(sub[s], bought[s], served[s], lossless[s], now)
  BY DEF SubInv
<1> HIDE DEF x
<1>5. LeftOf(x, now) = LeftOf(sub[s], now)
  BY <1>1, <1>2 DEF LeftOf
<1>6. Fair(x, bought[s], served[s], lossless[s], now)
  BY <1>1, <1>2, <1>4, <1>5 DEF Fair
<1>7. Becomes(s, x)
  BY <1>2, <1>3, <1>6 DEF Becomes, SubInv, SubType
<1> QED
  BY <1>7, FairStep

LEMMA ResumeStep ==
    ASSUME SubInv, NEW s \in Subs, NEW byAdmin \in BOOLEAN,
           resume_subscription(s, byAdmin)
    PROVE  SubInv'
<1> DEFINE paused == now - sub[s].pausedAt
           extension == IF ~byAdmin /\ paused > pausing.max THEN pausing.max ELSE paused
           x == [sub[s] EXCEPT !.status = "active", !.pausedAt = NoTime, !.resumed = now,
                               !.expires = @ + extension]
<1>1. Fair(sub[s], bought[s], served[s], lossless[s], now)
  BY DEF SubInv
<1>2. /\ now \in Nat /\ sub[s] \in SubRecord /\ sub[s].expires \in Nat
      /\ sub[s].status = "paused" /\ pausing.max \in Nat
      /\ bought[s] \in Nat /\ served[s] \in Nat /\ lossless[s] \in BOOLEAN
  BY SubscriptionAssumption DEF SubInv, SubType, SubRecord, resume_subscription
<1>3. sub[s].pausedAt \in 0..now /\ sub[s].pausedAt < sub[s].expires
  BY <1>1, <1>2 DEF Fair
<1>4. paused \in Nat /\ extension \in Nat /\ extension <= paused
  BY <1>2, <1>3
<1> HIDE DEF extension
<1>5. x \in SubRecord /\ x.status = "active" /\ x.expires = sub[s].expires + extension
  <2>1. sub[s].expires + extension \in Nat /\ NoTime \in Moment
    BY <1>2, <1>4 DEF Moment
  <2> QED
    BY <1>2, <2>1 DEF SubRecord
<1>6. /\ sub' = [sub EXCEPT ![s] = x]
      /\ lossless' = [lossless EXCEPT ![s] = @ /\ extension = paused]
      /\ UNCHANGED <<now, pausing, served, bought>>
  BY DEF resume_subscription, hub, ledger, extension
<1>7. lossless' \in [Subs -> BOOLEAN] /\ \A r \in Subs \ {s} : lossless'[r] = lossless[r]
  BY <1>6 DEF SubInv, SubType
<1>8. lossless'[s] => lossless[s] /\ extension = paused
  BY <1>6 DEF SubInv, SubType
<1> HIDE DEF x
<1>9. LeftOf(sub[s], now) = sub[s].expires - sub[s].pausedAt
  BY <1>2, <1>3 DEF LeftOf, Positive
<1>10. /\ LeftOf(x, now) \in Nat /\ LeftOf(x, now) <= sub[s].expires - sub[s].pausedAt
       /\ extension = paused => LeftOf(x, now) = sub[s].expires - sub[s].pausedAt
  <2>1. LeftOf(x, now) = Positive(x.expires - now)
    BY <1>5 DEF LeftOf
  <2>2. x.expires \in Nat /\ x.expires = sub[s].expires + extension
    BY <1>2, <1>4, <1>5
  <2> QED
    BY <2>1, <2>2, <1>2, <1>3, <1>4 DEF Positive
<1>11. served[s] + LeftOf(x, now) <= bought[s]
  BY <1>1, <1>2, <1>3, <1>9, <1>10 DEF Fair
<1>12. lossless'[s] => served[s] + LeftOf(x, now) = bought[s]
  BY <1>1, <1>8, <1>9, <1>10 DEF Fair
<1>13. Fair(x, bought[s], served[s], lossless'[s], now)
  BY <1>5, <1>11, <1>12 DEF Fair
<1>14. Becomes(s, x)
  BY <1>5, <1>6, <1>7, <1>13 DEF Becomes, SubInv, SubType
<1> QED
  BY <1>14, FairStep

LEMMA CancelStep ==
    ASSUME SubInv, NEW s \in Subs, cancel_subscription(s)
    PROVE  SubInv'
<1> DEFINE x == [sub[s] EXCEPT !.status = "inactive", !.pausedAt = NoTime]
<1>1. Fair(sub[s], bought[s], served[s], lossless[s], now)
  BY DEF SubInv
<1>2. /\ now \in Nat /\ sub[s] \in SubRecord /\ sub[s].expires \in Nat
      /\ bought[s] \in Nat /\ served[s] \in Nat
  BY DEF SubInv, SubType, SubRecord
<1>3. x \in SubRecord /\ x.status = "inactive" /\ x.expires = sub[s].expires
  BY <1>2 DEF SubRecord, Moment, NoTime
<1>4. sub' = [sub EXCEPT ![s] = x] /\ lossless' = [lossless EXCEPT ![s] = FALSE]
      /\ UNCHANGED <<now, pausing, served, bought>>
  BY DEF cancel_subscription, hub, ledger
<1>5. lossless' \in [Subs -> BOOLEAN] /\ ~lossless'[s]
      /\ \A r \in Subs \ {s} : lossless'[r] = lossless[r]
  BY <1>4 DEF SubInv, SubType
<1> HIDE DEF x
<1>6. sub[s].status = "paused" => sub[s].pausedAt \in 0..now
  BY <1>1 DEF Fair
<1>7. LeftOf(x, now) \in Nat /\ LeftOf(sub[s], now) \in Nat
      /\ LeftOf(x, now) <= LeftOf(sub[s], now)
  BY <1>2, <1>3, <1>6 DEF LeftOf, Positive
<1>8. served[s] + LeftOf(x, now) <= bought[s]
  BY <1>1, <1>2, <1>7 DEF Fair
<1>9. Fair(x, bought[s], served[s], lossless'[s], now)
  BY <1>3, <1>5, <1>8 DEF Fair
<1>10. Becomes(s, x)
  BY <1>3, <1>4, <1>5, <1>9 DEF Becomes, SubInv, SubType
<1> QED
  BY <1>10, FairStep

LEMMA SubRenewStep ==
    ASSUME SubInv, NEW s \in Subs, NEW duration \in Nat,
           renew_subscription(s, duration)
    PROVE  SubInv'
<1> DEFINE expires == (IF sub[s].expires > now THEN sub[s].expires ELSE now) + duration
           x == [sub[s] EXCEPT !.status = "active", !.expires = expires]
<1>1. Fair(sub[s], bought[s], served[s], lossless[s], now)
  BY DEF SubInv
<1>2. /\ now \in Nat /\ duration \in Nat /\ sub[s] \in SubRecord
      /\ sub[s].expires \in Nat /\ sub[s].status # "paused"
      /\ bought[s] \in Nat /\ served[s] \in Nat
  BY SubscriptionAssumption DEF SubInv, SubType, SubRecord, renew_subscription
<1>3. expires \in Nat
  BY <1>2
<1>4. x \in SubRecord /\ x.status = "active" /\ x.expires = expires
  BY <1>2, <1>3 DEF SubRecord
<1>5. sub' = [sub EXCEPT ![s] = x] /\ bought' = [bought EXCEPT ![s] = @ + duration]
      /\ UNCHANGED <<now, pausing, served, lossless>>
  BY DEF renew_subscription, Renewal, hub, ledger
<1>6. bought' \in [Subs -> Nat] /\ bought'[s] = bought[s] + duration
      /\ \A r \in Subs \ {s} : bought'[r] = bought[r]
  BY <1>2, <1>5 DEF SubInv, SubType
<1>7. LeftOf(x, now) = LeftOf(sub[s], now) + duration /\ LeftOf(sub[s], now) \in Nat
  BY <1>2, <1>4 DEF LeftOf, Positive
<1> HIDE DEF x, expires
<1>8. /\ served[s] + LeftOf(x, now) <= bought'[s]
      /\ lossless[s] => served[s] + LeftOf(x, now) = bought'[s]
  BY <1>1, <1>2, <1>6, <1>7 DEF Fair
<1>9. Fair(x, bought'[s], served[s], lossless'[s], now)
  BY <1>4, <1>5, <1>8 DEF Fair
<1>10. Becomes(s, x)
  BY <1>4, <1>5, <1>6, <1>9 DEF Becomes, SubInv, SubType
<1> QED
  BY <1>10, FairStep

LEMMA TickStep ==
    ASSUME SubInv, HS_Tick
    PROVE  SubInv'
<1>1. now \in Nat /\ now' = now + 1 /\ UNCHANGED <<sub, pausing, bought, lossless>>
  BY DEF SubInv, SubType, HS_Tick, HubTick, LedgerCloses
<1>2. ASSUME NEW s \in Subs
      PROVE  /\ served'[s] = served[s] + (IF InService(s) THEN 1 ELSE 0)
             /\ served'[s] \in Nat
  BY DEF SubInv, SubType, HS_Tick
<1>3. SubType'
  BY <1>1, <1>2 DEF SubInv, SubType, HS_Tick
<1>4. ASSUME NEW s \in Subs
      PROVE  Fair(sub[s], bought[s], served'[s], lossless[s], now + 1)
  <2>1. Fair(sub[s], bought[s], served[s], lossless[s], now)
    BY DEF SubInv
  <2>2. /\ sub[s] \in SubRecord /\ sub[s].expires \in Nat
        /\ bought[s] \in Nat /\ served[s] \in Nat
    BY DEF SubInv, SubType, SubRecord
  <2>3. CASE sub[s].status = "active"
    <3>1. served'[s] + LeftOf(sub[s], now + 1) = served[s] + LeftOf(sub[s], now)
      BY <1>1, <1>2, <2>2, <2>3 DEF LeftOf, Positive, InService
    <3> QED
      BY <2>1, <2>3, <3>1 DEF Fair
  <2>4. CASE sub[s].status = "paused"
    <3>1. served'[s] = served[s] /\ LeftOf(sub[s], now + 1) = LeftOf(sub[s], now)
      BY <1>2, <2>2, <2>4 DEF LeftOf, InService
    <3>2. sub[s].pausedAt \in 0..(now + 1)
      BY <1>1, <2>1, <2>4 DEF Fair
    <3> QED
      BY <2>1, <2>4, <3>1, <3>2 DEF Fair
  <2>5. CASE sub[s].status = "inactive"
    <3>1. served'[s] = served[s] /\ LeftOf(sub[s], now) \in Nat
          /\ LeftOf(sub[s], now + 1) \in Nat
          /\ LeftOf(sub[s], now + 1) <= LeftOf(sub[s], now)
      BY <1>1, <1>2, <2>2, <2>5 DEF LeftOf, InService, Positive
    <3>2. served'[s] + LeftOf(sub[s], now + 1) <= bought[s]
      BY <2>1, <2>2, <3>1 DEF Fair
    <3> QED
      BY <2>1, <2>5, <3>2 DEF Fair
  <2>6. CASE sub[s].status = "absent"
    <3>1. served'[s] = 0 /\ bought[s] = 0 /\ sub[s].expires = 0
      BY <1>2, <2>1, <2>2, <2>6 DEF Fair, InService
    <3>2. LeftOf(sub[s], now + 1) = 0
      BY <1>1, <2>6, <3>1 DEF LeftOf, Positive
    <3> QED
      BY <2>6, <3>1, <3>2 DEF Fair
  <2> QED
    BY <2>2, <2>3, <2>4, <2>5, <2>6 DEF SubRecord
<1> QED
  BY <1>1, <1>3, <1>4 DEF SubInv

LEMMA OtherStep ==
    ASSUME SubInv, UNCHANGED <<now, sub, bought, served, lossless>>,
           pausing' \in PauseConfigs
    PROVE  SubInv'
BY DEF SubInv, SubType

LEMMA NextSub ==
    ASSUME SubInv, [HS_Next]_HS_vars
    PROVE  SubInv'
<1>1. ASSUME NEW s \in Subs, HS_Lifetime(s)
      PROVE  SubInv'
  BY <1>1, SubRenewStep, PauseStep, ResumeStep, CancelStep, SubscriptionAssumption
     DEF HS_Lifetime
<1>2. CASE set_usdc_contract
  BY <1>2, OtherStep DEF set_usdc_contract, hub, ledger, HS_history, SubInv, SubType
<1>3. ASSUME NEW config \in PauseConfigs, set_pause_config(config)
      PROVE  SubInv'
  BY <1>3, OtherStep DEF set_pause_config, hub, ledger, HS_history
<1>4. CASE HubGovernance /\ UNCHANGED HS_state
  <2>1. UNCHANGED now
    BY <1>4 DEF HubGovernance, set_admin, emergency_pause, emergency_unpause, ledger
  <2> QED
    BY <1>4, <2>1, OtherStep DEF HS_state, HS_history, SubInv, SubType
<1>5. CASE UNCHANGED HS_vars
  BY <1>5, OtherStep DEF HS_vars, hub, ledger, HS_state, HS_history, SubInv, SubType
<1>6. ASSUME NEW s \in Subs, NEW user \in Accounts, NEW duration \in Durations,
             create_subscription(s, user, duration)
      PROVE  SubInv'
  <2>1. duration \in Nat
    BY SubscriptionAssumption
  <2> QED
    BY <1>6, <2>1, SubCreateStep DEF create_subscription
<1> QED
  BY <1>1, <1>2, <1>3, <1>4, <1>5, <1>6, TickStep DEF HS_Next

LEMMA InitSub == HubInit /\ HS_Init => SubInv
<1> SUFFICES ASSUME HubInit, HS_Init
             PROVE  SubInv
  OBVIOUS
<1>1. NoSub \in SubRecord
  BY SubscriptionAssumption DEF NoSub, SubRecord, Moment
<1>2. SubType
  BY <1>1 DEF HubInit, LedgerInit, HS_Init, SubType
<1>3. Fair(NoSub, 0, 0, TRUE, 0)
  BY DEF Fair, LeftOf, Positive, NoSub
<1> QED
  BY <1>2, <1>3 DEF HubInit, LedgerInit, HS_Init, SubInv

\* A subscriber is served what was bought and no more, and all of it unless it was
\* cancelled or paused for too long, for any subscriptions, durations and pauses
\* (pause_subscription, resume_subscription, renew_subscription).
THEOREM ServedAsBought == HS_Spec => []TimeAccounted
<1>1. SubInv /\ [HS_Next]_HS_vars => SubInv'
  BY NextSub
<1>2. SubInv => TimeAccounted
  BY DEF SubInv, Fair, TimeAccounted, Left, LeftOf
<1> QED
  BY <1>1, <1>2, InitSub, PTL DEF HS_Spec

-----------------------------------------------------------------------------
(***************************************************************************)
(* Tiers and promotions count their subscriptions.  That needs to know     *)
(* that an absent subscription has no tier and redeemed nothing, that a    *)
(* pending request names a tier, and that the sets counted are finite,     *)
(* however many subscriptions there may be.                                *)
(***************************************************************************)
Having(f, v) == {s \in Subs : f[s] = v}

TierType ==
    /\ tiers \in [Tiers -> [known : BOOLEAN, active : BOOLEAN, subscribers : Nat]]
    /\ tierOf \in [Subs -> Tiers \cup {NoTier}]
    /\ promo \in [Promos -> [tier : Tiers \cup {NoTier}, from : Nat, until : Nat,
                             max : Nat, used : Nat]]
    /\ redeemed \in [Subs -> Promos \cup {NoPromo}]
    /\ request \in [Times -> [user : Accounts \cup {NoAccount},
                     from : Tiers \cup {NoTier}, to : Tiers \cup {NoTier},
                     kind : {"upgrade", "downgrade", "lateral"},
                     status : {"none", "pending", "completed", "cancelled"}]]

RequestsNameTiers ==
    \A id \in Times : request[id].status = "pending" => request[id].to \in Tiers

AbsentHasNothing ==
    \A s \in Subs : sub[s].status = "absent" => tierOf[s] = NoTier /\ redeemed[s] = NoPromo

Covered(i) ==
    /\ IsFiniteSet(Having(tierOf, i))
    /\ tiers[i].subscribers >= Cardinality(Having(tierOf, i))

Counted(p) ==
    /\ IsFiniteSet(Having(redeemed, p))
    /\ promo[p].used = Cardinality(Having(redeemed, p))
    /\ promo[p].max > 0 => promo[p].used <= promo[p].max

TierInv ==
    /\ SubInv
    /\ TierType
    /\ RequestsNameTiers
    /\ AbsentHasNothing
    /\ \A i \in Tiers : Covered(i)
    /\ \A p \in Promos : Counted(p)

\* Giving one subscription another value moves it from one set counted to another.
Reassigned(f, g, s) == \A r \in Subs \ {s} : g[r] = f[r]

LEMMA HavingMoves ==
    ASSUME NEW f, NEW g, NEW s \in Subs, NEW w,
           Reassigned(f, g, s), IsFiniteSet(Having(f, w))
    PROVE  /\ IsFiniteSet(Having(g, w))
           /\ g[s] = w /\ f[s] # w =>
                 Cardinality(Having(g, w)) = Cardinality(Having(f, w)) + 1
           /\ g[s] # w /\ f[s] = w =>
                 Cardinality(Having(g, w)) = Cardinality(Having(f, w)) - 1
           /\ (g[s] = w <=> f[s] = w) =>
                 Cardinality(Having(g, w)) = Cardinality(Having(f, w))
<1> DEFINE S == Having(f, w)
           T == Having(g, w)
<1>1. CASE g[s] = w
  <2>1. T = S \cup {s} /\ (s \in S <=> f[s] = w)
    BY <1>1 DEF Having, Reassigned
  <2>2. IsFiniteSet(S \cup {s})
        /\ Cardinality(S \cup {s}) = IF s \in S THEN Cardinality(S) ELSE Cardinality(S) + 1
    BY FS_AddElement
  <2> QED
    BY <1>1, <2>1, <2>2
<1>2. CASE g[s] # w
  <2>1. T = S \ {s} /\ (s \in S <=> f[s] = w)
    BY <1>2 DEF Having, Reassigned
  <2>2. IsFiniteSet(S \ {s})
        /\ Cardinality(S \ {s}) = IF s \in S THEN Cardinality(S) - 1 ELSE Cardinality(S)
    BY FS_RemoveElement
  <2> QED
    BY <1>2, <2>1, <2>2
<1> QED
  BY <1>1, <1>2

\* The tiers keep their counts, whatever becomes of the subscriptions that exist.
LEMMA TiersSame ==
    ASSUME TierInv, SubInv', UNCHANGED <<tierOf, promo, redeemed, request>>,
           tiers' \in [Tiers -> [known : BOOLEAN, active : BOOLEAN, subscribers : Nat]],
           \A i \in Tiers : tiers'[i].subscribers >= tiers[i].subscribers,
           \A s \in Subs : sub'[s].status = "absent" => sub[s].status = "absent"
    PROVE  TierInv'
<1>1. TierType' /\ RequestsNameTiers' /\ AbsentHasNothing'
  BY DEF TierInv, TierType, RequestsNameTiers, AbsentHasNothing
<1>2. ASSUME NEW p \in Promos
      PROVE  Counted(p)'
  BY DEF TierInv, Counted, Having
<1>3. ASSUME NEW i \in Tiers
      PROVE  Covered(i)'
  <2>1. tiers[i].subscribers \in Nat /\ tiers'[i].subscribers \in Nat
    BY DEF TierInv, TierType
  <2>2. Covered(i) /\ Having(tierOf', i) = Having(tierOf, i)
    BY DEF TierInv, Having
  <2>3. Cardinality(Having(tierOf, i)) \in Nat
    BY <2>2, FS_CardinalityType DEF Covered
  <2>4. tiers'[i].subscribers >= Cardinality(Having(tierOf, i))
    BY <2>1, <2>2, <2>3 DEF Covered
  <2> QED
    BY <2>2, <2>4 DEF Covered
<1> QED
  BY <1>1, <1>2, <1>3 DEF TierInv

LEMMA SubscribedMore ==
    ASSUME TierInv, NEW t \in Tiers, Subscribed(t)
    PROVE  /\ tiers' \in [Tiers -> [known : BOOLEAN, active : BOOLEAN, subscribers : Nat]]
           /\ tiers'[t].subscribers = tiers[t].subscribers + 1
           /\ \A i \in Tiers \ {t} : tiers'[i].subscribers = tiers[i].subscribers
<1> DEFINE x == [tiers[t] EXCEPT !.subscribers = @ + 1]
           K == [known : BOOLEAN, active : BOOLEAN, subscribers : Nat]
<1>1. tiers \in [Tiers -> K] /\ tiers[t] \in K
  BY DEF TierInv, TierType
<1>2. x \in K /\ x.subscribers = tiers[t].subscribers + 1
  BY <1>1
<1>3. tiers' = [tiers EXCEPT ![t] = x]
  BY DEF Subscribed
<1> HIDE DEF x, K
<1> QED
  BY <1>1, <1>2, <1>3 DEF K

LEMMA TieredCreateStep ==
    ASSUME TierInv, NEW s \in Subs, NEW user \in Accounts, NEW t \in Tiers,
           NEW p \in Promos \cup {NoPromo}, create_subscription_with_tier(s, user, t, p)
    PROVE  TierInv'
<1>1. SubInv'
  <2>1. Created(s, user, Cycle) /\ UNCHANGED <<hub, pausing, served, lossless>>
    BY DEF create_subscription_with_tier
  <2> QED
    BY <2>1, SubCreateStep, TierAssumption DEF TierInv
<1>2. /\ sub[s].status = "absent" /\ sub'[s].status = "active"
      /\ \A r \in Subs \ {s} : sub'[r] = sub[r]
  BY DEF TierInv, SubInv, SubType, create_subscription_with_tier, Created
<1>3. tierOf[s] = NoTier /\ redeemed[s] = NoPromo
  BY <1>2 DEF TierInv, AbsentHasNothing
<1>4. /\ tierOf' = [tierOf EXCEPT ![s] = t] /\ redeemed' = [redeemed EXCEPT ![s] = p]
      /\ Subscribed(t) /\ UNCHANGED request
  BY DEF create_subscription_with_tier
<1>5. /\ tiers' \in [Tiers -> [known : BOOLEAN, active : BOOLEAN, subscribers : Nat]]
      /\ tiers'[t].subscribers = tiers[t].subscribers + 1
      /\ \A i \in Tiers \ {t} : tiers'[i].subscribers = tiers[i].subscribers
  BY <1>4, SubscribedMore
<1>6. /\ p = NoPromo => promo' = promo
      /\ p # NoPromo => /\ promo' = [promo EXCEPT ![p].used = @ + 1]
                        /\ promo[p].max > 0 => promo[p].used < promo[p].max
  BY DEF create_subscription_with_tier, apply_promotion
<1>7. p # NoPromo => p \in Promos /\ promo[p].used \in Nat /\ promo[p].max \in Nat
  BY DEF TierInv, TierType
<1>8. promo' \in [Promos -> [tier : Tiers \cup {NoTier}, from : Nat, until : Nat,
                             max : Nat, used : Nat]]
  <2>1. CASE p = NoPromo
    BY <1>6, <2>1 DEF TierInv, TierType
  <2>2. CASE p # NoPromo
    <3> DEFINE x == [promo[p] EXCEPT !.used = @ + 1]
               K == [tier : Tiers \cup {NoTier}, from : Nat, until : Nat,
                     max : Nat, used : Nat]
    <3>1. promo \in [Promos -> K] /\ p \in Promos /\ promo[p] \in K
      BY <1>7, <2>2 DEF TierInv, TierType
    <3>2. x \in K
      BY <3>1
    <3>3. promo' = [promo EXCEPT ![p] = x]
      BY <1>6, <2>2
    <3> HIDE DEF x, K
    <3>4. promo' \in [Promos -> K]
      BY <3>1, <3>2, <3>3
    <3> QED
      BY <3>4 DEF K
  <2> QED
    BY <2>1, <2>2
<1>9. TierType'
  BY <1>4, <1>5, <1>8 DEF TierInv, TierType
<1>10. RequestsNameTiers' /\ AbsentHasNothing'
  BY <1>2, <1>4 DEF TierInv, TierType, RequestsNameTiers, AbsentHasNothing
<1>11. ASSUME NEW i \in Tiers
       PROVE  Covered(i)'
  <2>1. tierOf \in [Subs -> Tiers \cup {NoTier}] /\ Covered(i) /\ i # NoTier
        /\ tiers[i].subscribers \in Nat
    BY TierAssumption DEF TierInv, TierType
  <2>2. IsFiniteSet(Having(tierOf, i)) /\ tiers[i].subscribers >= Cardinality(Having(tierOf, i))
        /\ Cardinality(Having(tierOf, i)) \in Nat
    BY <2>1, FS_CardinalityType DEF Covered
  <2>3. IsFiniteSet(Having(tierOf', i)) /\
        Cardinality(Having(tierOf', i)) =
          IF i = t THEN Cardinality(Having(tierOf, i)) + 1 ELSE Cardinality(Having(tierOf, i))
    <3>1. Reassigned(tierOf, tierOf', s) /\ tierOf'[s] = t /\ tierOf[s] # i
      BY <1>3, <1>4, <2>1 DEF Reassigned
    <3> QED
      BY <2>2, <3>1, HavingMoves
  <2>4. tiers'[i].subscribers >= Cardinality(Having(tierOf', i))
    BY <1>5, <2>1, <2>2, <2>3
  <2> QED
    BY <2>3, <2>4 DEF Covered
<1>12. ASSUME NEW q \in Promos
       PROVE  Counted(q)'
  <2>1. redeemed \in [Subs -> Promos \cup {NoPromo}] /\ Counted(q) /\ q # NoPromo
        /\ promo[q].used \in Nat /\ promo[q].max \in Nat
    BY TierAssumption DEF TierInv, TierType
  <2>2. IsFiniteSet(Having(redeemed, q)) /\ promo[q].used = Cardinality(Having(redeemed, q))
    BY <2>1 DEF Counted
  <2>3. IsFiniteSet(Having(redeemed', q)) /\
        Cardinality(Having(redeemed', q)) =
          IF q = p THEN Cardinality(Having(redeemed, q)) + 1
                   ELSE Cardinality(Having(redeemed, q))
    <3>1. Reassigned(redeemed, redeemed', s) /\ redeemed'[s] = p /\ redeemed[s] # q
      BY <1>3, <1>4, <2>1 DEF Reassigned
    <3> QED
      BY <2>2, <3>1, HavingMoves
  <2>4. promo'[q].max = promo[q].max
        /\ promo'[q].used = IF q = p THEN promo[q].used + 1 ELSE promo[q].used
    BY <1>6, <2>1 DEF TierInv, TierType
  <2>5. promo'[q].max > 0 => promo'[q].used <= promo'[q].max
    BY <1>6, <2>1, <2>4 DEF Counted
  <2> QED
    BY <2>2, <2>3, <2>4, <2>5 DEF Counted
<1> QED
  BY <1>1, <1>9, <1>10, <1>11, <1>12 DEF TierInv

LEMMA ProcessStep ==
    ASSUME TierInv, NEW user \in Accounts, NEW id \in Times, NEW s \in Subs,
           process_tier_change(user, id, s)
    PROVE  TierInv'
<1> DEFINE from == tierOf[s]
           to == request[id].to
           K == [known : BOOLEAN, active : BOOLEAN, subscribers : Nat]
           left == IF from = NoTier THEN tiers
                   ELSE [tiers EXCEPT ![from].subscribers = Positive(@ - 1)]
<1>1. /\ sub[s].status # "absent" /\ request[id].status = "pending"
      /\ tierOf' = [tierOf EXCEPT ![s] = to]
      /\ request' = [request EXCEPT ![id].status = "completed"]
      /\ UNCHANGED <<HS_vars, promo, redeemed>>
      /\ tiers' = [left EXCEPT ![to].subscribers = @ + 1]
  BY DEF process_tier_change, Processed, Moved
<1>2. to \in Tiers /\ from \in Tiers \cup {NoTier} /\ tiers \in [Tiers -> K]
      /\ tierOf \in [Subs -> Tiers \cup {NoTier}]
  BY <1>1 DEF TierInv, RequestsNameTiers, TierType
<1>3. /\ left \in [Tiers -> K]
      /\ \A i \in Tiers : left[i].subscribers =
            IF i = from THEN Positive(tiers[i].subscribers - 1) ELSE tiers[i].subscribers
  <2>1. CASE from = NoTier
    BY <1>2, <2>1, TierAssumption
  <2>2. CASE from # NoTier
    <3> DEFINE x == [tiers[from] EXCEPT !.subscribers = Positive(@ - 1)]
    <3>1. from \in Tiers /\ tiers[from] \in K /\ tiers[from].subscribers \in Nat
      BY <1>2, <2>2
    <3>2. x \in K /\ x.subscribers = Positive(tiers[from].subscribers - 1)
      BY <3>1 DEF Positive
    <3>3. left = [tiers EXCEPT ![from] = x]
      BY <2>2
    <3> HIDE DEF x, K, left
    <3> QED
      BY <1>2, <3>1, <3>2, <3>3
  <2> QED
    BY <2>1, <2>2
<1>4. /\ tiers' \in [Tiers -> K]
      /\ \A i \in Tiers : tiers'[i].subscribers =
            IF i = to THEN left[i].subscribers + 1 ELSE left[i].subscribers
  <2> DEFINE x == [left[to] EXCEPT !.subscribers = @ + 1]
  <2>1. left[to] \in K /\ left[to].subscribers \in Nat
    BY <1>2, <1>3
  <2>2. x \in K /\ x.subscribers = left[to].subscribers + 1
    BY <2>1
  <2>3. tiers' = [left EXCEPT ![to] = x]
    BY <1>1
  <2> HIDE DEF x, K, left
  <2> QED
    BY <1>2, <1>3, <2>2, <2>3
<1> HIDE DEF left
<1>5. SubInv' /\ sub' = sub
  BY <1>1, NextSub DEF TierInv, HS_vars, HS_state
<1>6. TierType'
  <2> DEFINE x == [request[id] EXCEPT !.status = "completed"]
             Q == [user : Accounts \cup {NoAccount},
                   from : Tiers \cup {NoTier}, to : Tiers \cup {NoTier},
                   kind : {"upgrade", "downgrade", "lateral"},
                   status : {"none", "pending", "completed", "cancelled"}]
  <2>1. request \in [Times -> Q] /\ x \in Q /\ request' = [request EXCEPT ![id] = x]
    BY <1>1 DEF TierInv, TierType
  <2> HIDE DEF x, Q
  <2>2. request' \in [Times -> Q]
    BY <2>1
  <2>3. tierOf' \in [Subs -> Tiers \cup {NoTier}]
    BY <1>1, <1>2
  <2> QED
    BY <1>1, <1>4, <2>2, <2>3 DEF TierInv, TierType, Q
<1>7. RequestsNameTiers' /\ AbsentHasNothing'
  BY <1>1, <1>2, <1>5 DEF TierInv, TierType, RequestsNameTiers, AbsentHasNothing
<1>8. ASSUME NEW p \in Promos
      PROVE  Counted(p)'
  BY <1>1 DEF TierInv, Counted, Having
<1>9. ASSUME NEW i \in Tiers
      PROVE  Covered(i)'
  <2>1. /\ IsFiniteSet(Having(tierOf, i)) /\ tiers[i].subscribers \in Nat
        /\ tiers[i].subscribers >= Cardinality(Having(tierOf, i))
        /\ Cardinality(Having(tierOf, i)) \in Nat
    BY <1>2, FS_CardinalityType DEF TierInv, Covered
  <2>2. /\ IsFiniteSet(Having(tierOf', i))
        /\ i = to /\ from # to =>
              Cardinality(Having(tierOf', i)) = Cardinality(Having(tierOf, i)) + 1
        /\ i # to /\ from = i =>
              Cardinality(Having(tierOf', i)) = Cardinality(Having(tierOf, i)) - 1
        /\ (i = to <=> from = i) =>
              Cardinality(Having(tierOf', i)) = Cardinality(Having(tierOf, i))
    <3>1. Reassigned(tierOf, tierOf', s) /\ tierOf'[s] = to /\ tierOf[s] = from
      BY <1>1, <1>2 DEF Reassigned
    <3> HIDE DEF from, to
    <3> QED
      BY <2>1, <3>1, HavingMoves
  <2>3. tiers'[i].subscribers >= Cardinality(Having(tierOf', i))
    <3>1. CASE i = to /\ from # to
      BY <1>3, <1>4, <2>1, <2>2, <3>1
    <3>2. CASE i = to /\ from = to
      BY <1>3, <1>4, <2>1, <2>2, <3>2 DEF Positive
    <3>3. CASE i # to /\ from = i
      BY <1>3, <1>4, <2>1, <2>2, <3>3 DEF Positive
    <3>4. CASE i # to /\ from # i
      BY <1>3, <1>4, <2>1, <2>2, <3>4
    <3> QED
      BY <3>1, <3>2, <3>3, <3>4
  <2> QED
    BY <2>2, <2>3 DEF Covered
<1> QED
  BY <1>5, <1>6, <1>7, <1>8, <1>9 DEF TierInv

LEMMA TieredRenewStep ==
    ASSUME TierInv, NEW s \in Subs, RenewedWithTier(s)
    PROVE  TierInv'
<1>1. renew_subscription(s, Cycle) /\ UNCHANGED <<tierOf, promo, redeemed, request>>
  BY DEF RenewedWithTier
<1>2. SubInv'
  BY <1>1, SubRenewStep, TierAssumption DEF TierInv
<1>3. \A r \in Subs : sub'[r].status = "absent" => sub[r].status = "absent"
  BY <1>1 DEF renew_subscription, Renewal, TierInv, SubInv, SubType, SubRecord
<1>4. CASE tierOf[s] = NoTier
  <2>1. tiers' = tiers
    BY <1>4 DEF RenewedWithTier
  <2>2. tiers \in [Tiers -> [known : BOOLEAN, active : BOOLEAN, subscribers : Nat]]
        /\ \A i \in Tiers : tiers'[i].subscribers >= tiers[i].subscribers
    BY <2>1 DEF TierInv, TierType
  <2> QED
    BY <1>1, <1>2, <1>3, <2>1, <2>2, TiersSame
<1>5. CASE tierOf[s] # NoTier
  <2>1. tierOf[s] \in Tiers /\ Subscribed(tierOf[s])
    BY <1>5 DEF RenewedWithTier, TierInv, TierType
  <2>2. \A i \in Tiers : tiers[i].subscribers \in Nat
    BY DEF TierInv, TierType
  <2>3. tiers' \in [Tiers -> [known : BOOLEAN, active : BOOLEAN, subscribers : Nat]]
        /\ \A i \in Tiers : tiers'[i].subscribers >= tiers[i].subscribers
    BY <2>1, <2>2, SubscribedMore
  <2> QED
    BY <1>1, <1>2, <1>3, <2>3, TiersSame
<1> QED
  BY <1>4, <1>5

\* A call that leaves tiers, promotions and requests alone.
LEMMA UntieredStep ==
    ASSUME TierInv, SubInv', UNCHANGED HR_state,
           \A s \in Subs : sub'[s].status = "absent" => sub[s].status = "absent"
    PROVE  TierInv'
<1>1. UNCHANGED <<tiers, tierOf, promo, redeemed, request>>
  BY DEF HR_state
<1>2. tiers \in [Tiers -> [known : BOOLEAN, active : BOOLEAN, subscribers : Nat]]
      /\ \A i \in Tiers : tiers'[i].subscribers >= tiers[i].subscribers
  BY <1>1 DEF TierInv, TierType
<1> QED
  BY <1>1, <1>2, TiersSame

LEMMA CatalogueStep ==
    ASSUME TierInv, NEW t \in Tiers, NEW active \in BOOLEAN,
           create_tier(t) \/ update_tier(t, active)
    PROVE  TierInv'
<1> DEFINE K == [known : BOOLEAN, active : BOOLEAN, subscribers : Nat]
<1>1. UNCHANGED <<HS_vars, tierOf, promo, redeemed, request>>
  BY DEF create_tier, update_tier
<1>2. SubInv' /\ sub' = sub
  BY <1>1, NextSub DEF TierInv, HS_vars, HS_state
<1>3. PICK x \in K : tiers' = [tiers EXCEPT ![t] = x]
                      /\ x.subscribers = tiers[t].subscribers
  <2>1. tiers[t] \in K
    BY DEF TierInv, TierType
  <2>2. CASE create_tier(t)
    <3> DEFINE x == [tiers[t] EXCEPT !.known = TRUE, !.active = TRUE]
    <3>1. tiers' = [tiers EXCEPT ![t] = x]
      BY <2>2 DEF create_tier
    <3>2. x \in K /\ x.subscribers = tiers[t].subscribers
      BY <2>1
    <3> QED
      BY <3>1, <3>2
  <2>3. CASE update_tier(t, active)
    <3> DEFINE x == [tiers[t] EXCEPT !.active = active]
    <3>1. tiers' = [tiers EXCEPT ![t] = x]
      BY <2>3 DEF update_tier
    <3>2. x \in K /\ x.subscribers = tiers[t].subscribers
      BY <2>1
    <3> QED
      BY <3>1, <3>2
  <2> QED
    BY <2>2, <2>3
<1>4. tiers \in [Tiers -> K] /\ \A i \in Tiers : tiers[i].subscribers \in Nat
  BY DEF TierInv, TierType
<1>5. tiers' \in [Tiers -> K] /\ \A i \in Tiers : tiers'[i].subscribers >= tiers[i].subscribers
  BY <1>3, <1>4
<1> QED
  BY <1>1, <1>2, <1>5, TiersSame

LEMMA PromotionStep ==
    ASSUME TierInv, NEW p \in Promos, NEW terms \in PromoTerms, create_promotion(p, terms)
    PROVE  TierInv'
<1> DEFINE x == [tier |-> terms.tier, from |-> terms.from,
                 until |-> terms.until, max |-> terms.max, used |-> 0]
           K == [tier : Tiers \cup {NoTier}, from : Nat, until : Nat, max : Nat, used : Nat]
<1>1. promo[p] = Unset /\ promo' = [promo EXCEPT ![p] = x]
      /\ UNCHANGED <<HS_vars, tiers, tierOf, redeemed, request>>
  BY DEF create_promotion
<1>2. SubInv' /\ sub' = sub
  BY <1>1, NextSub DEF TierInv, HS_vars, HS_state
<1>3. promo \in [Promos -> K] /\ x \in K
  BY TierAssumption DEF TierInv, TierType
<1>4. x.used = 0 /\ x.max \in Nat /\ promo[p].used = 0
  BY <1>1, <1>3 DEF Unset
<1> HIDE DEF x, K
<1>5. promo' \in [Promos -> K] /\ promo'[p] = x
      /\ \A q \in Promos \ {p} : promo'[q] = promo[q]
  BY <1>1, <1>3
<1>6. TierType' /\ RequestsNameTiers' /\ AbsentHasNothing'
  BY <1>1, <1>2, <1>5 DEF TierInv, TierType, RequestsNameTiers, AbsentHasNothing, K
<1>7. \A i \in Tiers : Covered(i)'
  BY <1>1 DEF TierInv, Covered, Having
<1>8. ASSUME NEW q \in Promos
      PROVE  Counted(q)'
  <2>1. Counted(q) /\ Having(redeemed', q) = Having(redeemed, q)
    BY <1>1 DEF TierInv, Having
  <2>2. CASE q = p
    BY <1>4, <1>5, <2>1, <2>2 DEF Counted
  <2>3. CASE q # p
    BY <1>5, <2>1, <2>3 DEF Counted
  <2> QED
    BY <2>2, <2>3
<1> QED
  BY <1>2, <1>6, <1>7, <1>8 DEF TierInv

\* Asking for a change of tier, or taking the request back.
LEMMA RequestStep ==
    ASSUME TierInv, NEW user \in Accounts,
           \/ \E s \in Subs, t \in Tiers : request_tier_change(user, s, t)
           \/ \E id \in Times : cancel_tier_change(user, id)
    PROVE  TierInv'
<1> DEFINE Q == [user : Accounts \cup {NoAccount},
                 from : Tiers \cup {NoTier}, to : Tiers \cup {NoTier},
                 kind : {"upgrade", "downgrade", "lateral"},
                 status : {"none", "pending", "completed", "cancelled"}]
<1>1. UNCHANGED <<HS_vars, tiers, tierOf, promo, redeemed>>
  BY DEF request_tier_change, cancel_tier_change
<1>2. SubInv' /\ sub' = sub
  BY <1>1, NextSub DEF TierInv, HS_vars, HS_state
<1>3. request \in [Times -> Q]
  BY DEF TierInv, TierType
<1>4. PICK x \in Q : /\ \E i : request' = [request EXCEPT ![i] = x]
                     /\ x.status = "pending" => x.to \in Tiers
  <2>1. ASSUME NEW s \in Subs, NEW t \in Tiers, request_tier_change(user, s, t)
        PROVE  \E x \in Q : /\ \E i : request' = [request EXCEPT ![i] = x]
                            /\ x.status = "pending" => x.to \in Tiers
    <3> DEFINE x == [user |-> user, from |-> tierOf[s], to |-> t, status |-> "pending",
                     kind |-> determine_change_type(tierOf[s], t)]
    <3>1. request' = [request EXCEPT ![now] = x]
      BY <2>1 DEF request_tier_change
    <3>2. tierOf[s] \in Tiers \cup {NoTier}
          /\ determine_change_type(tierOf[s], t) \in {"upgrade", "downgrade", "lateral"}
      BY DEF determine_change_type, TierInv, TierType
    <3>3. x \in Q /\ x.to \in Tiers
      BY <3>2
    <3> QED
      BY <3>1, <3>3
  <2>2. ASSUME NEW id \in Times, cancel_tier_change(user, id)
        PROVE  \E x \in Q : /\ \E i : request' = [request EXCEPT ![i] = x]
                            /\ x.status = "pending" => x.to \in Tiers
    <3> DEFINE x == [request[id] EXCEPT !.status = "cancelled"]
    <3>1. request' = [request EXCEPT ![id] = x]
      BY <2>2 DEF cancel_tier_change
    <3>2. x \in Q /\ x.status = "cancelled"
      BY <1>3
    <3> QED
      BY <3>1, <3>2
  <2> QED
    BY <2>1, <2>2
<1>5. PICK i : request' = [request EXCEPT ![i] = x]
  BY <1>4
<1> HIDE DEF Q
<1>6. /\ request' \in [Times -> Q]
      /\ \A id \in Times : request'[id] = request[id] \/ request'[id] = x
  BY <1>3, <1>4, <1>5
<1>7. RequestsNameTiers'
  BY <1>4, <1>6 DEF TierInv, RequestsNameTiers
<1>8. TierType' /\ AbsentHasNothing'
  BY <1>1, <1>2, <1>6 DEF TierInv, TierType, AbsentHasNothing, Q
<1>9. (\A t \in Tiers : Covered(t)') /\ \A p \in Promos : Counted(p)'
  BY <1>1 DEF TierInv, Covered, Counted, Having
<1> QED
  BY <1>2, <1>7, <1>8, <1>9 DEF TierInv

LEMMA NextTier ==
    ASSUME TierInv, [HR_Next]_HR_vars
    PROVE  TierInv'
<1>1. ASSUME NEW s \in Subs, NEW user \in Accounts,
             create_subscription(s, user, Cycle), UNCHANGED HR_state
      PROVE  TierInv'
  <2>1. SubInv'
    BY <1>1, SubCreateStep, TierAssumption DEF TierInv, create_subscription
  <2>2. \A r \in Subs : sub'[r].status = "absent" => sub[r].status = "absent"
    BY <1>1 DEF create_subscription, Created, TierInv, SubInv, SubType
  <2> QED
    BY <1>1, <2>1, <2>2, UntieredStep
<1>2. ASSUME NEW s \in Subs, cancel_subscription(s), UNCHANGED HR_state
      PROVE  TierInv'
  <2>1. SubInv'
    BY <1>2, CancelStep DEF TierInv
  <2>2. \A r \in Subs : sub'[r].status = "absent" => sub[r].status = "absent"
    BY <1>2 DEF cancel_subscription, TierInv, SubInv, SubType
  <2> QED
    BY <1>2, <2>1, <2>2, UntieredStep
<1>3. ASSUME UNCHANGED sub, HS_Next \/ UNCHANGED HS_vars, UNCHANGED HR_state
      PROVE  TierInv'
  <2>1. SubInv'
    BY <1>3, NextSub DEF TierInv
  <2> QED
    BY <1>3, <2>1, UntieredStep
<1>4. CASE (set_usdc_contract \/ HS_Tick) /\ UNCHANGED HR_state
  BY <1>3, <1>4 DEF set_usdc_contract, HS_Tick, HS_Next
<1>5. CASE HubGovernance /\ UNCHANGED <<HS_state, HR_state>>
  BY <1>3, <1>5 DEF HS_Next, HS_state
<1>6. CASE UNCHANGED HR_vars
  BY <1>3, <1>6 DEF HR_vars, HS_vars, HS_state
<1>7. ASSUME NEW user \in Accounts, HR_Call(user)
      PROVE  TierInv'
  <2>1. ASSUME NEW s \in Subs, NEW t \in Tiers, NEW p \in Promos \cup {NoPromo},
               create_subscription_with_tier(s, user, t, p)
        PROVE  TierInv'
    BY <2>1, TieredCreateStep
  <2>2. ASSUME NEW id \in Times, NEW s \in Subs, process_tier_change(user, id, s)
        PROVE  TierInv'
    BY <2>2, ProcessStep
  <2>3. CASE \/ \E s \in Subs, t \in Tiers : request_tier_change(user, s, t)
             \/ \E id \in Times : cancel_tier_change(user, id)
    BY <2>3, RequestStep
  <2> QED
    BY <1>7, <2>1, <2>2, <2>3 DEF HR_Call
<1>8. ASSUME NEW t \in Tiers, NEW active \in BOOLEAN, create_tier(t) \/ update_tier(t, active)
      PROVE  TierInv'
  BY <1>8, CatalogueStep
<1>9. ASSUME NEW p \in Promos, NEW terms \in PromoTerms, create_promotion(p, terms)
      PROVE  TierInv'
  BY <1>9, PromotionStep
<1>10. ASSUME NEW s \in Subs, RenewedWithTier(s)
       PROVE  TierInv'
  BY <1>10, TieredRenewStep
<1> QED
  BY <1>1, <1>2, <1>4, <1>5, <1>6, <1>7, <1>8, <1>9, <1>10 DEF HR_Next

LEMMA InitTier == HubInit /\ HS_Init /\ HR_Init => TierInv
<1> SUFFICES ASSUME HubInit, HS_Init, HR_Init
             PROVE  TierInv
  OBVIOUS
<1>1. SubInv /\ AbsentHasNothing
  BY InitSub DEF HR_Init, AbsentHasNothing
<1>2. Unset \in [tier : Tiers \cup {NoTier}, from : Nat, until : Nat, max : Nat, used : Nat]
      /\ Unset.used = 0 /\ Unset.max = 0
  BY DEF Unset
<1>3. TierType /\ RequestsNameTiers
  BY <1>2 DEF HR_Init, TierType, RequestsNameTiers, NoRequest
<1>4. ASSUME NEW i \in Tiers
      PROVE  Covered(i)
  <2>1. Having(tierOf, i) = {} /\ tiers[i].subscribers = 0
    BY TierAssumption DEF HR_Init, Having
  <2> QED
    BY <2>1, FS_EmptySet DEF Covered
<1>5. ASSUME NEW p \in Promos
      PROVE  Counted(p)
  <2>1. Having(redeemed, p) = {} /\ promo[p].used = 0 /\ promo[p].max = 0
    BY <1>2, TierAssumption DEF HR_Init, Having
  <2> QED
    BY <2>1, FS_EmptySet DEF Counted
<1> QED
  BY <1>1, <1>3, <1>4, <1>5 DEF TierInv

\* A tier never counts fewer subscribers than it has, and a promotion counts
\* exactly the subscriptions created with it, within its limit, for any number of
\* subscriptions, tiers and promotions and whatever stale requests to change tier
\* are processed (create_subscription_with_tier, process_tier_change).
THEOREM CountsAreKept == HR_Spec => []SubscribersCounted
<1>1. TierInv /\ [HR_Next]_HR_vars => TierInv'
  BY NextTier
<1>2. TierInv => SubscribersCounted
  BY DEF TierInv, Covered, Counted, Having, SubscribersCounted,
         CountsCoverSubscribers, PromotionsCounted
<1> QED
  BY <1>1, <1>2, InitTier, PTL DEF HR_Spec

\* Time is accounted for in the same way when subscriptions are made and renewed
\* with a tier, for the billing cycle (create_subscription_with_tier).
THEOREM TieredTimeAccounted == HR_Spec => []TimeAccounted
<1>1. TierInv /\ [HR_Next]_HR_vars => TierInv'
  BY NextTier
<1>2. TierInv => TimeAccounted
  BY DEF TierInv, SubInv, Fair, TimeAccounted, Left, LeftOf
<1> QED
  BY <1>1, <1>2, InitTier, PTL DEF HR_Spec
=============================================================================

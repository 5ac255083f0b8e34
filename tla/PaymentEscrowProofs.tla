------------------------ MODULE PaymentEscrowProofs ------------------------
(***************************************************************************)
(* Proofs about the payment_escrow contract: its type invariant, the time  *)
(* lock and dispute window invariants, that it holds what it owes, and     *)
(* that it keeps EscrowPromise.                                            *)
(***************************************************************************)
EXTENDS PaymentEscrow, SumTheorems

\* A token transfer the payer can afford leaves every balance a natural number.
LEMMA MoveType ==
    ASSUME NEW w \in [Parties -> Nat], NEW from \in Parties, NEW to \in Parties,
           NEW amount \in Nat, amount <= w[from]
    PROVE  Move(w, from, to, amount) \in [Parties -> Nat]
<1>1. CASE from = to
  BY <1>1 DEF Move
<1>2. CASE from # to
  <2> DEFINE v == [w EXCEPT ![from] = @ - amount, ![to] = @ + amount]
  <2>1. \A a \in Parties : v[a] \in Nat
    BY <1>2
  <2> QED
    BY <1>2, <2>1 DEF Move
<1> QED
  BY <1>1, <1>2

\* The shapes a successful call of the contract has: configuration, a new escrow,
\* a dispute, or a payout to one of the two parties; or time passes.
Configures == UNCHANGED <<escrows, indexes, wallet, now, paidBy>>

Pays(e) ==
    \E recipient \in {escrows[e].depositor, escrows[e].beneficiary},
       status \in {"released", "refunded"}, who \in {"admin", "beneficiary"} :
        /\ Open(e)
        /\ who = "beneficiary" =>
               /\ status = "released"
               /\ escrows[e].status = "pending"
               /\ escrows[e].release_after # 0
               /\ now >= escrows[e].release_after
        /\ Settle(e, recipient, status, who)

\* Every step is one of these shapes.
LEMMA StepShapes ==
    ASSUME TypeOK, [Next]_vars
    PROVE  \/ Configures /\ admin' \in Accounts \cup {NoAccount}
                         /\ window' \in 0..MaxU64 /\ paused' \in BOOLEAN
           \/ \E d \in Accounts, e \in Ids, b \in Parties, a \in 0..MaxAmount,
                 r \in ReleaseTimes : create_escrow(d, e, b, a, r)
           \/ \E d \in Accounts, e \in Ids : raise_dispute(d, e)
           \/ \E e \in Ids : Pays(e)
           \/ LedgerCloses
<1>1. CASE UNCHANGED vars
  BY <1>1 DEF vars, Configures, indexes, TypeOK
<1>2. CASE LedgerCloses
  BY <1>2
<1>3. ASSUME NEW caller \in Accounts, Call(caller)
      PROVE  \/ Configures /\ admin' \in Accounts \cup {NoAccount}
                           /\ window' \in 0..MaxU64 /\ paused' \in BOOLEAN
             \/ \E d \in Accounts, e \in Ids, b \in Parties, a \in 0..MaxAmount,
                   r \in ReleaseTimes : create_escrow(d, e, b, a, r)
             \/ \E d \in Accounts, e \in Ids : raise_dispute(d, e)
             \/ \E e \in Ids : Pays(e)
  <2>1. CASE \E secs \in Windows : \/ initialize(caller, secs)
                                   \/ set_dispute_window(caller, secs)
    BY <2>1, EscrowAssumption
       DEF initialize, set_dispute_window, Configures, TypeOK
  <2>2. CASE pause(caller) \/ unpause(caller)
    BY <2>2 DEF pause, unpause, Configures, TypeOK
  <2>3. ASSUME NEW e \in Ids, release(caller, e) \/ refund(caller, e)
        PROVE  Pays(e)
    BY <2>3 DEF release, refund, Pays, Open
  <2>4. ASSUME NEW e \in Ids, NEW toBeneficiary \in BOOLEAN,
               resolve_dispute(caller, e, toBeneficiary)
        PROVE  Pays(e)
    BY <2>4 DEF resolve_dispute, Pays, Open
  <2>5. ASSUME NEW e \in Ids, claim(caller, e)
        PROVE  Pays(e)
    BY <2>5 DEF claim, Pays, Open
  <2> QED
    BY <1>3, <2>1, <2>2, <2>3, <2>4, <2>5 DEF Call
<1> QED
  BY <1>1, <1>2, <1>3 DEF Next

LEMMA TypeInit == Init => TypeOK
<1> SUFFICES ASSUME Init PROVE TypeOK
  OBVIOUS
<1>1. NoEscrow \in Escrow
  BY EscrowAssumption DEF NoEscrow, Escrow, EscrowStatus, Parties, Times,
                          NoTime
<1>2. escrows \in [Ids -> Escrow] /\ paidBy \in [Ids -> Payers]
  BY <1>1 DEF Init, Payers
<1>3. wallet \in [Parties -> Nat]
  BY EscrowAssumption DEF Init, Parties
<1>4. /\ byDepositor \in [Parties -> SUBSET Ids]
      /\ byBeneficiary \in [Parties -> SUBSET Ids]
  BY DEF Init
<1>5. window \in 0..MaxU64 /\ now \in Times
  BY EscrowAssumption DEF Init, Times
<1> QED
  BY <1>2, <1>3, <1>4, <1>5 DEF Init, TypeOK

\* Settling an escrow leaves a well-formed record.
LEMMA SettledType ==
    ASSUME NEW x \in Escrow, NEW s \in EscrowStatus, NEW t \in Times
    PROVE  [x EXCEPT !.status = s, !.resolved_at = t] \in Escrow
  BY DEF Escrow

\* Disputing an escrow leaves a well-formed record.
LEMMA DisputedType ==
    ASSUME NEW x \in Escrow, NEW t \in Times
    PROVE  [x EXCEPT !.status = "disputed", !.dispute_raised_at = t] \in Escrow
  BY DEF Escrow, EscrowStatus

\* Every step keeps the types.
LEMMA TypeNext == TypeOK /\ [Next]_vars => TypeOK'
<1> SUFFICES ASSUME TypeOK, [Next]_vars PROVE TypeOK'
  OBVIOUS
<1>1. CASE /\ Configures /\ admin' \in Accounts \cup {NoAccount}
           /\ window' \in 0..MaxU64 /\ paused' \in BOOLEAN
  BY <1>1 DEF Configures, indexes, TypeOK
<1>2. ASSUME NEW d \in Accounts, NEW e \in Ids, NEW b \in Parties,
             NEW a \in 0..MaxAmount, NEW r \in ReleaseTimes,
             create_escrow(d, e, b, a, r)
      PROVE  TypeOK'
  <2> DEFINE x == [status |-> "pending", depositor |-> d, beneficiary |-> b,
                   amount |-> a, created_at |-> now, release_after |-> r,
                   dispute_window |-> window,
                   dispute_raised_at |-> NoTime, resolved_at |-> NoTime]
  <2>1. d \in Parties /\ Vault \in Parties /\ a \in Nat
    BY EscrowAssumption DEF Parties
  <2>2. x \in Escrow
    BY <2>1, EscrowAssumption DEF TypeOK, Escrow, EscrowStatus, NoTime
  <2>3. escrows' \in [Ids -> Escrow]
    BY <1>2, <2>2 DEF create_escrow, TypeOK
  <2>4. wallet' \in [Parties -> Nat]
    BY <1>2, <2>1, MoveType DEF create_escrow, TypeOK
  <2>5. /\ byDepositor' \in [Parties -> SUBSET Ids]
        /\ byBeneficiary' \in [Parties -> SUBSET Ids]
    BY <1>2, <2>1 DEF create_escrow, TypeOK
  <2> QED
    BY <1>2, <2>3, <2>4, <2>5 DEF create_escrow, config, TypeOK
<1>3. ASSUME NEW d \in Accounts, NEW e \in Ids, raise_dispute(d, e)
      PROVE  TypeOK'
  <2>1. [escrows[e] EXCEPT !.status = "disputed", !.dispute_raised_at = now]
            \in Escrow
    <3>1. escrows[e] \in Escrow /\ now \in Times
      BY DEF TypeOK
    <3> QED
      BY <3>1, DisputedType
  <2>2. escrows' \in [Ids -> Escrow]
    BY <1>3, <2>1 DEF raise_dispute, TypeOK
  <2> QED
    BY <1>3, <2>2 DEF raise_dispute, config, indexes, TypeOK
<1>4. ASSUME NEW e \in Ids, Pays(e)
      PROVE  TypeOK'
  <2>1. PICK recipient \in {escrows[e].depositor, escrows[e].beneficiary},
             status \in {"released", "refunded"},
             who \in {"admin", "beneficiary"} :
                Settle(e, recipient, status, who)
    BY <1>4 DEF Pays
  <2>2. /\ recipient \in Parties /\ Vault \in Parties
        /\ escrows[e].amount \in Nat
    BY DEF TypeOK, Escrow, Parties
  <2>3. wallet' \in [Parties -> Nat]
    BY <2>1, <2>2, MoveType DEF Settle, TypeOK
  <2>4. [escrows[e] EXCEPT !.status = status, !.resolved_at = now] \in Escrow
    <3>1. escrows[e] \in Escrow /\ status \in EscrowStatus /\ now \in Times
      BY DEF TypeOK, EscrowStatus
    <3> QED
      BY <3>1, SettledType
  <2>5. escrows' \in [Ids -> Escrow]
    BY <2>1, <2>4 DEF Settle, TypeOK
  <2>6. paidBy' \in [Ids -> Payers]
    BY <2>1 DEF Settle, TypeOK, Payers
  <2> QED
    BY <2>1, <2>3, <2>5, <2>6 DEF Settle, config, indexes, TypeOK
<1>5. CASE LedgerCloses
  BY <1>5, EscrowAssumption
     DEF LedgerCloses, config, indexes, TypeOK, Times
<1> QED
  BY <1>1, <1>2, <1>3, <1>4, <1>5, StepShapes

\* Type correctness: no sequence of calls leaves a balance negative or a record
\* malformed.
THEOREM TypeCorrect == Spec => []TypeOK
  BY TypeInit, TypeNext, PTL DEF Spec

-----------------------------------------------------------------------------
\* What the time lock and dispute invariants need besides themselves: an escrow
\* that nobody disputed carries no dispute time, and none is from the future.
UndisputedUntilRaised ==
    \A e \in Ids : /\ escrows[e].status \in {"absent", "pending"} =>
                          escrows[e].dispute_raised_at = NoTime
                   /\ escrows[e].created_at <= now

EscrowInv == /\ TypeOK
             /\ UndisputedUntilRaised
             /\ ClaimsRespectTimeLock
             /\ DisputesInWindow

LEMMA EscrowInvInit == Init => EscrowInv
<1> SUFFICES ASSUME Init PROVE EscrowInv
  OBVIOUS
<1>1. TypeOK
  BY TypeInit
<1>2. \A e \in Ids : escrows[e] = NoEscrow /\ paidBy[e] = "nobody"
  BY DEF Init
<1>3. now = 0
  BY DEF Init
<1> QED
  BY <1>1, <1>2, <1>3
     DEF EscrowInv, UndisputedUntilRaised, ClaimsRespectTimeLock,
         DisputesInWindow, NoEscrow

LEMMA EscrowInvNext == EscrowInv /\ [Next]_vars => EscrowInv'
<1> SUFFICES ASSUME EscrowInv, [Next]_vars PROVE EscrowInv'
  OBVIOUS
<1> USE DEF EscrowInv
<1>1. TypeOK'
  BY TypeNext
<1>2. CASE UNCHANGED <<escrows, now, paidBy>>
  BY <1>1, <1>2
     DEF UndisputedUntilRaised, ClaimsRespectTimeLock, DisputesInWindow
<1>3. CASE LedgerCloses
  <2>1. now <= now' /\ UNCHANGED <<escrows, paidBy>>
    BY <1>3 DEF LedgerCloses, TypeOK, Times
  <2>2. \A e \in Ids : escrows[e].created_at <= now'
    BY <2>1, <1>1 DEF UndisputedUntilRaised, TypeOK, Times, Escrow
  <2> QED
    BY <1>1, <2>1, <2>2
       DEF UndisputedUntilRaised, ClaimsRespectTimeLock, DisputesInWindow
<1>4. ASSUME NEW d \in Accounts, NEW e \in Ids, NEW b \in Parties,
             NEW a \in 0..MaxAmount, NEW r \in ReleaseTimes,
             create_escrow(d, e, b, a, r)
      PROVE  EscrowInv'
  <2>1. /\ escrows'[e].status = "pending"
        /\ escrows'[e].dispute_raised_at = NoTime
        /\ escrows'[e].created_at = now
        /\ \A k \in Ids \ {e} : escrows'[k] = escrows[k]
        /\ UNCHANGED <<now, paidBy>>
    BY <1>4 DEF create_escrow, TypeOK
  <2>2. paidBy[e] # "beneficiary"
    BY <1>4 DEF create_escrow, ClaimsRespectTimeLock
  <2>3. UndisputedUntilRaised'
    BY <2>1 DEF UndisputedUntilRaised, TypeOK, Times
  <2>4. ClaimsRespectTimeLock'
    BY <2>1, <2>2 DEF ClaimsRespectTimeLock
  <2>5. DisputesInWindow'
    BY <2>1 DEF DisputesInWindow
  <2> QED
    BY <1>1, <2>3, <2>4, <2>5
<1>5. ASSUME NEW d \in Accounts, NEW e \in Ids, raise_dispute(d, e)
      PROVE  EscrowInv'
  <2> DEFINE x == escrows[e]
  <2>1. /\ escrows'[e] = [x EXCEPT !.status = "disputed",
                                   !.dispute_raised_at = now]
        /\ x.status = "pending"
        /\ \A k \in Ids \ {e} : escrows'[k] = escrows[k]
        /\ UNCHANGED <<now, paidBy>>
    BY <1>5 DEF raise_dispute, TypeOK
  <2>2. /\ x.created_at <= now
        /\ x.dispute_window # 0
        /\ now <= x.created_at + x.dispute_window
        /\ now # NoTime
    BY <1>5 DEF raise_dispute, UndisputedUntilRaised, TypeOK, Times, NoTime
  <2>3. x \in Escrow
    BY DEF TypeOK
  <2>4. /\ escrows'[e].status = "disputed"
        /\ escrows'[e].dispute_raised_at = now
        /\ escrows'[e].created_at = x.created_at
        /\ escrows'[e].dispute_window = x.dispute_window
    BY <2>1, <2>3 DEF Escrow
  <2>5. UndisputedUntilRaised'
    BY <2>1, <2>2, <2>4 DEF UndisputedUntilRaised
  <2>6. ClaimsRespectTimeLock'
    BY <2>1 DEF ClaimsRespectTimeLock
  <2>7. DisputesInWindow'
    BY <2>1, <2>2, <2>4 DEF DisputesInWindow
  <2> QED
    BY <1>1, <2>5, <2>6, <2>7
<1>6. ASSUME NEW e \in Ids, Pays(e)
      PROVE  EscrowInv'
  <2> DEFINE x == escrows[e]
  <2>1. PICK recipient \in {x.depositor, x.beneficiary},
             status \in {"released", "refunded"},
             who \in {"admin", "beneficiary"} :
                /\ Open(e)
                /\ who = "beneficiary" => /\ status = "released"
                                          /\ x.status = "pending"
                                          /\ x.release_after # 0
                                          /\ now >= x.release_after
                /\ Settle(e, recipient, status, who)
    BY <1>6 DEF Pays
  <2>2. /\ escrows'[e] = [x EXCEPT !.status = status, !.resolved_at = now]
        /\ paidBy'[e] = who
        /\ \A k \in Ids \ {e} : /\ escrows'[k] = escrows[k]
                                /\ paidBy'[k] = paidBy[k]
        /\ UNCHANGED now
    BY <2>1 DEF Settle, TypeOK
  <2>3. x \in Escrow /\ now \in Nat
    BY EscrowAssumption DEF TypeOK, Times
  <2>4. /\ escrows'[e].status = status
        /\ escrows'[e].dispute_raised_at = x.dispute_raised_at
        /\ escrows'[e].created_at = x.created_at
        /\ escrows'[e].dispute_window = x.dispute_window
        /\ escrows'[e].release_after = x.release_after
        /\ escrows'[e].resolved_at = now
    BY <2>2, <2>3 DEF Escrow
  <2>5. UndisputedUntilRaised'
    BY <2>2, <2>4 DEF UndisputedUntilRaised
  <2>6. who = "beneficiary" =>
            /\ x.dispute_raised_at = NoTime
            /\ 0 < x.release_after
            /\ x.release_after <= now
    BY <2>1, <2>3, EscrowAssumption DEF UndisputedUntilRaised, Escrow
  <2>7. ClaimsRespectTimeLock'
    <3> SUFFICES ASSUME NEW k \in Ids, paidBy'[k] = "beneficiary"
                 PROVE  /\ escrows'[k].status = "released"
                        /\ escrows'[k].dispute_raised_at = NoTime
                        /\ 0 < escrows'[k].release_after
                        /\ escrows'[k].release_after
                               <= escrows'[k].resolved_at
      BY DEF ClaimsRespectTimeLock, NoTime
    <3>1. CASE k = e
      <4>1. who = "beneficiary" /\ status = "released"
        BY <3>1, <2>1, <2>2
      <4> QED
        BY <3>1, <4>1, <2>4, <2>6
    <3>2. CASE k # e
      <4>1. escrows'[k] = escrows[k] /\ paidBy[k] = "beneficiary"
        BY <3>2, <2>2
      <4> QED
        BY <4>1 DEF ClaimsRespectTimeLock
    <3> QED
      BY <3>1, <3>2
  <2>8. DisputesInWindow'
    BY <2>2, <2>4 DEF DisputesInWindow
  <2> QED
    BY <1>1, <2>5, <2>7, <2>8
<1> QED
  BY <1>2, <1>3, <1>4, <1>5, <1>6, StepShapes DEF Configures

\* A beneficiary's own claim is never early and never of disputed money.
THEOREM ClaimsAreOnTime == Spec => []ClaimsRespectTimeLock
<1>1. EscrowInv => ClaimsRespectTimeLock
  BY DEF EscrowInv
<1> QED
  BY <1>1, EscrowInvInit, EscrowInvNext, PTL DEF Spec

\* Every dispute on record was raised within the window of its escrow.
THEOREM DisputesAreInTime == Spec => []DisputesInWindow
<1>1. EscrowInv => DisputesInWindow
  BY DEF EscrowInv
<1> QED
  BY <1>1, EscrowInvInit, EscrowInvNext, PTL DEF Spec

-----------------------------------------------------------------------------
\* The address indexes never miss an escrow and never list one twice or wrongly.
THEOREM IndexesAreRight == Spec => []IndexesAgree
<1>1. Init => IndexesAgree
  BY DEF Init, IndexesAgree, NoEscrow
<1>2. TypeOK /\ IndexesAgree /\ [Next]_vars => IndexesAgree'
  <2> SUFFICES ASSUME TypeOK, IndexesAgree, [Next]_vars PROVE IndexesAgree'
    OBVIOUS
  <2>1. CASE UNCHANGED <<escrows, indexes>>
    BY <2>1 DEF IndexesAgree, indexes
  <2>2. ASSUME NEW d \in Accounts, NEW e \in Ids, NEW b \in Parties,
               NEW a \in 0..MaxAmount, NEW r \in ReleaseTimes,
               create_escrow(d, e, b, a, r)
        PROVE  IndexesAgree'
    <3>1. /\ escrows[e].status = "absent"
          /\ escrows'[e].status = "pending"
          /\ escrows'[e].depositor = d
          /\ escrows'[e].beneficiary = b
          /\ \A k \in Ids \ {e} : escrows'[k] = escrows[k]
      BY <2>2 DEF create_escrow, TypeOK
    <3>2. \A p \in Parties :
             /\ byDepositor'[p] = byDepositor[p] \cup (IF p = d THEN {e} ELSE {})
             /\ byBeneficiary'[p] =
                    byBeneficiary[p] \cup (IF p = b THEN {e} ELSE {})
      BY <2>2 DEF create_escrow, TypeOK
    <3> QED
      BY <3>1, <3>2 DEF IndexesAgree
  <2>3. ASSUME NEW e \in Ids,
               \A k \in Ids \ {e} : escrows'[k] = escrows[k],
               escrows'[e].depositor = escrows[e].depositor,
               escrows'[e].beneficiary = escrows[e].beneficiary,
               escrows[e].status # "absent", escrows'[e].status # "absent",
               UNCHANGED indexes
        PROVE  IndexesAgree'
    BY <2>3 DEF IndexesAgree, indexes
  <2>4. ASSUME NEW d \in Accounts, NEW e \in Ids, raise_dispute(d, e)
        PROVE  IndexesAgree'
    <3>1. escrows'[e] = [escrows[e] EXCEPT !.status = "disputed",
                                           !.dispute_raised_at = now]
      BY <2>4 DEF raise_dispute, TypeOK
    <3>2. /\ \A k \in Ids \ {e} : escrows'[k] = escrows[k]
          /\ escrows[e].status = "pending"
          /\ UNCHANGED indexes
      BY <2>4 DEF raise_dispute, TypeOK
    <3>3. /\ escrows'[e].depositor = escrows[e].depositor
          /\ escrows'[e].beneficiary = escrows[e].beneficiary
          /\ escrows'[e].status = "disputed"
      BY <3>1 DEF TypeOK, Escrow
    <3> QED
      BY <2>3, <3>2, <3>3
  <2>5. ASSUME NEW e \in Ids, Pays(e)
        PROVE  IndexesAgree'
    <3>1. PICK recipient \in {escrows[e].depositor, escrows[e].beneficiary},
               status \in {"released", "refunded"},
               who \in {"admin", "beneficiary"} :
                  Open(e) /\ Settle(e, recipient, status, who)
      BY <2>5 DEF Pays
    <3>2. escrows'[e] = [escrows[e] EXCEPT !.status = status,
                                           !.resolved_at = now]
      BY <3>1 DEF Settle, TypeOK
    <3>3. /\ \A k \in Ids \ {e} : escrows'[k] = escrows[k]
          /\ escrows[e].status # "absent"
          /\ UNCHANGED indexes
      BY <3>1 DEF Settle, Open, TypeOK
    <3>4. /\ escrows'[e].depositor = escrows[e].depositor
          /\ escrows'[e].beneficiary = escrows[e].beneficiary
          /\ escrows'[e].status = status
      BY <3>2 DEF TypeOK, Escrow
    <3> QED
      BY <2>3, <3>3, <3>4
  <2>6. CASE LedgerCloses
    BY <2>1, <2>6 DEF LedgerCloses
  <2> QED
    BY <2>1, <2>2, <2>4, <2>5, <2>6, StepShapes DEF Configures
<1> QED
  BY <1>1, <1>2, TypeInit, TypeNext, PTL DEF Spec

-----------------------------------------------------------------------------
\* The open escrows are finitely many, however many ids there are, so that
\* the sum of their amounts is defined.
SolventInv == TypeOK /\ IsFiniteSet(OpenIds) /\ Solvent

LEMMA SolventInit == Init => SolventInv
<1> SUFFICES ASSUME Init PROVE SolventInv
  OBVIOUS
<1>1. TypeOK
  BY TypeInit
<1>2. OpenIds = {}
  BY DEF Init, OpenIds, Open, NoEscrow
<1>3. wallet[Vault] = 0
  BY DEF Init, Parties
<1>4. SumFunctionOnSet(Amounts, {}) = 0 /\ IsFiniteSet({})
  BY FS_EmptySet, SumStep
<1> QED
  BY <1>1, <1>2, <1>3, <1>4 DEF SolventInv, Solvent

LEMMA SolventNext == SolventInv /\ [Next]_vars => SolventInv'
<1> SUFFICES ASSUME SolventInv, [Next]_vars PROVE SolventInv'
  OBVIOUS
<1> USE DEF SolventInv
<1>1. TypeOK'
  BY TypeNext
<1>2. /\ \A k \in Ids : Amounts[k] = escrows[k].amount /\ Amounts[k] \in Nat
      /\ \A k \in Ids : Amounts'[k] = escrows'[k].amount /\ Amounts'[k] \in Nat
  BY <1>1 DEF Amounts, TypeOK, Escrow
<1>3. SumFunctionOnSet(Amounts, OpenIds) \in Nat
  BY <1>2, SumNat DEF OpenIds
<1>4. wallet \in [Parties -> Nat] /\ Vault \in Parties
  BY DEF TypeOK, Parties
<1>5. CASE UNCHANGED <<escrows, wallet>>
  <2>1. OpenIds' = OpenIds /\ Amounts' = Amounts
    BY <1>5 DEF OpenIds, Open, Amounts
  <2> QED
    BY <1>1, <1>5, <2>1 DEF Solvent
<1>6. ASSUME NEW d \in Accounts, NEW e \in Ids, NEW b \in Parties,
             NEW a \in 0..MaxAmount, NEW r \in ReleaseTimes,
             create_escrow(d, e, b, a, r)
      PROVE  SolventInv'
  <2>1. /\ escrows[e].status = "absent"
        /\ escrows'[e].status = "pending"
        /\ escrows'[e].amount = a
        /\ \A k \in Ids \ {e} : escrows'[k] = escrows[k]
    BY <1>6 DEF create_escrow, TypeOK
  <2>2. e \notin OpenIds /\ OpenIds' = OpenIds \cup {e}
    BY <2>1 DEF OpenIds, Open
  <2>3. wallet'[Vault] = wallet[Vault] + a
    <3>1. d # Vault /\ d \in Parties
      BY EscrowAssumption DEF Parties
    <3> QED
      BY <1>4, <1>6, <3>1 DEF create_escrow, Move
  <2>4. SumFunctionOnSet(Amounts', OpenIds) = SumFunctionOnSet(Amounts, OpenIds)
    <3>1. \A k \in OpenIds : Amounts'[k] = Amounts[k]
      BY <1>2, <2>1, <2>2 DEF OpenIds
    <3> QED
      BY <3>1, SumAgree
  <2>5. SumFunctionOnSet(Amounts', OpenIds')
            = a + SumFunctionOnSet(Amounts', OpenIds)
    <3>1. \A k \in OpenIds \cup {e} : Amounts'[k] \in Int
      BY <1>2 DEF OpenIds
    <3> QED
      BY <1>2, <2>1, <2>2, <3>1, SumAdd
  <2>6. IsFiniteSet(OpenIds')
    BY <2>2, FS_AddElement
  <2>7. a \in Nat
    BY EscrowAssumption
  <2> QED
    BY <1>1, <1>3, <1>4, <2>3, <2>4, <2>5, <2>6, <2>7 DEF Solvent
<1>7. ASSUME NEW d \in Accounts, NEW e \in Ids, raise_dispute(d, e)
      PROVE  SolventInv'
  <2>1. /\ escrows[e].status = "pending"
        /\ escrows'[e] = [escrows[e] EXCEPT !.status = "disputed",
                                            !.dispute_raised_at = now]
        /\ \A k \in Ids \ {e} : escrows'[k] = escrows[k]
        /\ UNCHANGED wallet
    BY <1>7 DEF raise_dispute, TypeOK
  <2>2. escrows'[e].status = "disputed" /\ escrows'[e].amount = escrows[e].amount
    BY <2>1 DEF TypeOK, Escrow
  <2>3. OpenIds' = OpenIds
    BY <2>1, <2>2 DEF OpenIds, Open
  <2>4. Amounts' = Amounts
    BY <2>1, <2>2 DEF Amounts
  <2> QED
    BY <1>1, <2>1, <2>3, <2>4 DEF Solvent
<1>8. ASSUME NEW e \in Ids, Pays(e)
      PROVE  SolventInv'
  <2>1. PICK recipient \in {escrows[e].depositor, escrows[e].beneficiary},
             status \in {"released", "refunded"},
             who \in {"admin", "beneficiary"} :
                Open(e) /\ Settle(e, recipient, status, who)
    BY <1>8 DEF Pays
  <2> DEFINE paid == escrows[e].amount
  <2>2. /\ escrows'[e] = [escrows[e] EXCEPT !.status = status,
                                            !.resolved_at = now]
        /\ \A k \in Ids \ {e} : escrows'[k] = escrows[k]
        /\ recipient \in Parties /\ paid \in Nat
    BY <2>1 DEF Settle, TypeOK, Escrow
  <2>3. escrows'[e].status = status
    BY <2>2 DEF TypeOK, Escrow
  <2>4. e \in OpenIds /\ OpenIds' = OpenIds \ {e}
    BY <2>1, <2>2, <2>3 DEF OpenIds, Open
  <2>5. SumFunctionOnSet(Amounts', OpenIds') = SumFunctionOnSet(Amounts, OpenIds')
    <3>1. \A k \in OpenIds' : Amounts'[k] = Amounts[k]
      BY <1>2, <2>2, <2>4 DEF OpenIds
    <3>2. IsFiniteSet(OpenIds')
      BY <2>4, FS_Subset
    <3> QED
      BY <3>1, <3>2, SumAgree
  <2>6. SumFunctionOnSet(Amounts, OpenIds)
            = paid + SumFunctionOnSet(Amounts, OpenIds')
    <3>1. \A k \in OpenIds : Amounts[k] \in Int
      BY <1>2 DEF OpenIds
    <3> QED
      BY <1>2, <2>4, <3>1, SumTakeOut
  <2>7. wallet'[Vault] \in {wallet[Vault], wallet[Vault] - paid}
    BY <1>4, <2>1, <2>2 DEF Settle, Move
  <2>8. IsFiniteSet(OpenIds')
    BY <2>4, FS_Subset
  <2>9. SumFunctionOnSet(Amounts, OpenIds') \in Nat
    BY <1>2, <2>4, <2>8, SumNat DEF OpenIds
  <2> HIDE DEF paid
  <2> QED
    BY <1>1, <1>3, <1>4, <2>2, <2>5, <2>6, <2>7, <2>8, <2>9 DEF Solvent
<1> QED
  BY <1>5, <1>6, <1>7, <1>8, StepShapes DEF Configures, LedgerCloses

\* The contract holds at least what its open escrows add up to, for any number
\* of escrows and whatever order they are made, disputed and paid out in.
THEOREM AlwaysSolvent == Spec => []Solvent
<1>1. SolventInv => Solvent
  BY DEF SolventInv
<1> QED
  BY <1>1, SolventInit, SolventNext, PTL DEF Spec

\* So the transfer of a release, refund, claim or resolution is always covered:
\* of the conditions of Settle, the funds are never what stops a payout.
PayoutsFunded == \A e \in OpenIds : escrows[e].amount <= wallet[Vault]

THEOREM PayoutsAreFunded == Spec => []PayoutsFunded
<1>1. SolventInv => PayoutsFunded
  <2> SUFFICES ASSUME SolventInv, NEW e \in OpenIds
               PROVE  escrows[e].amount <= wallet[Vault]
    BY DEF PayoutsFunded
  <2>1. \A k \in OpenIds : Amounts[k] = escrows[k].amount /\ Amounts[k] \in Nat
    BY DEF SolventInv, OpenIds, Amounts, TypeOK, Escrow
  <2>2. Amounts[e] <= SumFunctionOnSet(Amounts, OpenIds)
    BY <2>1, SumEntry DEF SolventInv
  <2>3. /\ SumFunctionOnSet(Amounts, OpenIds) \in Nat
        /\ wallet[Vault] \in Nat /\ Amounts[e] \in Nat
    BY <2>1, SumNat DEF SolventInv, TypeOK, Parties
  <2> QED
    BY <2>1, <2>2, <2>3 DEF SolventInv, Solvent
<1> QED
  BY <1>1, SolventInit, SolventNext, PTL DEF Spec

-----------------------------------------------------------------------------
\* The contract implements EscrowPromise: every call either is one deposit, or
\* one payout of one held deal, or moves no token and changes no deal.
THEOREM KeepsPromise == Spec => PromiseKept
<1> DEFINE deals == [e \in Ids |-> DealOf(escrows[e])]
<1>1. Init => Promise!Init
  BY TypeInit DEF Init, Promise!Init, Promise!NoDeal, DealOf, NoEscrow, TypeOK,
                  Promise!Parties, Parties
<1>2. TypeOK /\ [Next]_vars => [Promise!Next]_<<deals, wallet>>
  <2> SUFFICES ASSUME TypeOK, [Next]_vars
               PROVE  Promise!Next \/ UNCHANGED <<deals, wallet>>
    OBVIOUS
  <2>1. CASE UNCHANGED <<escrows, wallet>>
    BY <2>1
  <2>2. ASSUME NEW d \in Accounts, NEW e \in Ids, NEW b \in Parties,
               NEW a \in 0..MaxAmount, NEW r \in ReleaseTimes,
               create_escrow(d, e, b, a, r)
        PROVE  Promise!Deposit(e)
    <3>1. deals[e] = Promise!NoDeal
      BY <2>2 DEF create_escrow, DealOf, Promise!NoDeal
    <3>2. deals' = [deals EXCEPT ![e] = Promise!Held(d, b, a)]
      BY <2>2 DEF create_escrow, DealOf, Promise!Held, TypeOK
    <3>3. a \in 1..wallet[d]
      BY <2>2, EscrowAssumption DEF create_escrow, TypeOK, Parties
    <3>4. wallet' = Promise!Move(wallet, d, Vault, a)
      BY <2>2 DEF create_escrow, Move, Promise!Move
    <3> QED
      BY <3>1, <3>2, <3>3, <3>4 DEF Promise!Deposit, Promise!Parties, Parties
  <2>3. ASSUME NEW d \in Accounts, NEW e \in Ids, raise_dispute(d, e)
        PROVE  UNCHANGED <<deals, wallet>>
    <3>1. DealOf(escrows'[e]) = DealOf(escrows[e])
      BY <2>3 DEF raise_dispute, DealOf, TypeOK, Escrow
    <3>2. \A k \in Ids \ {e} : escrows'[k] = escrows[k]
      BY <2>3 DEF raise_dispute, TypeOK
    <3>3. \A k \in Ids : DealOf(escrows'[k]) = DealOf(escrows[k])
      BY <3>1, <3>2
    <3> QED
      BY <2>3, <3>3 DEF raise_dispute
  <2>4. ASSUME NEW e \in Ids, Pays(e)
        PROVE  Promise!PayOut(e)
    <3> DEFINE x == escrows[e]
    <3>1. PICK recipient \in {x.depositor, x.beneficiary},
               status \in {"released", "refunded"},
               who \in {"admin", "beneficiary"} :
                  Open(e) /\ Settle(e, recipient, status, who)
      BY <2>4 DEF Pays
    <3>2. deals[e] = Promise!Held(x.depositor, x.beneficiary, x.amount)
      BY <3>1 DEF Open, DealOf, Promise!Held
    <3>3. escrows'[e].status = status
      BY <3>1 DEF Settle, TypeOK, Escrow
    <3>4. DealOf(escrows'[e]) = Promise!Settled
      BY <3>3 DEF DealOf, Promise!Settled
    <3>5. \A k \in Ids \ {e} : escrows'[k] = escrows[k]
      BY <3>1 DEF Settle, TypeOK
    <3>6. deals' = [deals EXCEPT ![e] = Promise!Settled]
      BY <3>4, <3>5
    <3>7. wallet' = Promise!Move(wallet, Vault, recipient, x.amount)
      BY <3>1 DEF Settle, Move, Promise!Move
    <3> QED
      BY <3>1, <3>2, <3>6, <3>7 DEF Promise!PayOut, Promise!Held
  <2>5. CASE LedgerCloses
    BY <2>1, <2>5 DEF LedgerCloses
  <2> QED
    BY <2>1, <2>2, <2>3, <2>4, <2>5, StepShapes DEF Configures, Promise!Next
<1> QED
  BY <1>1, <1>2, TypeInit, TypeNext, PTL DEF PromiseKept, Spec, Promise!Spec
=============================================================================

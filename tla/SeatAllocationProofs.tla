------------------------ MODULE SeatAllocationProofs ------------------------
(***************************************************************************)
(* Proofs about one workspace's capacity, for any number of requests: type *)
(* correctness, what the row lock protects, and the range of the           *)
(* availableSeats gauge under stale writes.                                *)
(***************************************************************************)
EXTENDS SeatAllocation, SumTheorems

\* A copy about to be saved was in range when it was made, and an update that
\* leaves totalSeats alone saw a totalSeats no larger than today's.
CopiesInRange ==
    ~shrunk => \A w \in Workers :
        /\ frame[w].pc \in {"saveWorkspace", "updateColumns"} =>
               \/ frame[w].ws.avail <= frame[w].ws.total
               \/ frame[w].ws.avail <= workspace.total
        /\ frame[w].pc = "updateColumns" /\ "total" \notin frame[w].cols =>
               frame[w].ws.total <= workspace.total

SeatInv == TypeOK /\ LockedCapacityIsCurrent /\ GaugeInRange /\ CopiesInRange

LEMMA IdleFrame == Idle \in Frame
BY SeatsAssumption
   DEF Idle, Frame, NoRequest, NoRow, NewWorkspace, Steps, Request, Row, Status,
       WorkspaceRow, Days

\* One worker moves on and keeps its type.
LEMMA GoType ==
    ASSUME TypeOK, NEW w \in Workers, NEW f \in Frame, Go(w, f)
    PROVE  /\ frame' \in [Workers -> Frame]
           /\ frame'[w] = f
           /\ \A v \in Workers \ {w} : frame'[v] = frame[v]
BY DEF TypeOK, Go

\* A step that leaves workspace, lock and shrunk alone keeps the invariant if
\* the worker that moves is not in a transaction afterwards unless it was before
\* and holds no copy it is about to save.
LEMMA QuietStep ==
    ASSUME SeatInv, NEW w \in Workers, NEW f \in Frame, Go(w, f),
           UNCHANGED <<workspace, lock, shrunk>>,
           rows' \in [Ids -> Row], revived' \in BOOLEAN,
           f.pc \in {"checkSeats", "insert"} =>
               lock = w /\ f.ws = workspace,
           f.pc \in {"saveWorkspace", "updateColumns"} /\ ~shrunk =>
               \/ f.ws.avail <= f.ws.total
               \/ f.ws.avail <= workspace.total,
           f.pc = "updateColumns" /\ "total" \notin f.cols /\ ~shrunk =>
               f.ws.total <= workspace.total
    PROVE  SeatInv'
<1>1. /\ frame' \in [Workers -> Frame]
      /\ frame'[w] = f
      /\ \A v \in Workers \ {w} : frame'[v] = frame[v]
  BY GoType DEF SeatInv
<1>2. TypeOK'
  BY <1>1 DEF SeatInv, TypeOK
<1>3. LockedCapacityIsCurrent'
  BY <1>1 DEF SeatInv, LockedCapacityIsCurrent, Workers
<1>4. GaugeInRange'
  BY DEF SeatInv, GaugeInRange
<1>5. CopiesInRange'
  BY <1>1 DEF SeatInv, CopiesInRange
<1> QED
  BY <1>2, <1>3, <1>4, <1>5 DEF SeatInv

\* The transaction of a creation: it takes the lock, checks, and commits.
LEMMA CreationKeeps ==
    ASSUME SeatInv, NEW w \in Creators,
           \/ \E r \in Asked : LockWorkspace(w, r)
           \/ CheckSeats(w) \/ CommitBooking(w)
    PROVE  SeatInv'
<1> DEFINE f == frame[w]
<1>0. /\ w \in Workers /\ f \in Frame /\ workspace \in WorkspaceRow
      /\ w # NoOne
  BY SeatsAssumption DEF SeatInv, TypeOK, Workers
<1>1. ASSUME NEW r \in Asked, LockWorkspace(w, r)
      PROVE  SeatInv'
  <2> DEFINE g == [Idle EXCEPT !.pc = "checkSeats", !.req = r,
                               !.ws = workspace]
  <2>1. r \in Request
    BY SeatsAssumption DEF Request, Days
  <2>2. g \in Frame /\ g.pc = "checkSeats" /\ g.ws = workspace
    BY <1>0, <2>1, IdleFrame DEF Frame, Steps
  <2> HIDE DEF g
  <2>3. /\ Go(w, g) /\ lock = NoOne /\ lock' = w
        /\ UNCHANGED <<rows, workspace, shrunk, revived>>
    BY <1>1 DEF LockWorkspace, g
  <2>4. /\ frame' \in [Workers -> Frame]
        /\ frame'[w] = g
        /\ \A v \in Workers \ {w} : frame'[v] = frame[v]
    BY <1>0, <2>2, <2>3, GoType DEF SeatInv
  <2>5. TypeOK'
    BY <2>3, <2>4 DEF SeatInv, TypeOK
  <2>6. LockedCapacityIsCurrent'
    BY <1>0, <2>2, <2>3, <2>4, SeatsAssumption
       DEF SeatInv, LockedCapacityIsCurrent, Workers
  <2>7. GaugeInRange' /\ CopiesInRange'
    BY <2>2, <2>3, <2>4 DEF SeatInv, GaugeInRange, CopiesInRange
  <2> QED
    BY <2>5, <2>6, <2>7 DEF SeatInv
<1>2. ASSUME f.pc \in {"checkSeats", "insert"}, Go(w, Idle), lock' = NoOne,
             rows' \in [Ids -> Row], workspace' \in WorkspaceRow,
             workspace'.total = workspace.total,
             workspace'.avail <= workspace.avail,
             UNCHANGED <<shrunk, revived>>
      PROVE  SeatInv'
  <2>1. /\ frame' \in [Workers -> Frame]
        /\ frame'[w] = Idle
        /\ \A v \in Workers \ {w} : frame'[v] = frame[v]
    BY <1>0, <1>2, IdleFrame, GoType DEF SeatInv
  <2>2. TypeOK'
    BY <1>2, <2>1 DEF SeatInv, TypeOK
  <2>3. lock = w
    BY <1>2 DEF SeatInv, LockedCapacityIsCurrent
  <2>4. \A v \in Creators : frame'[v].pc \notin {"checkSeats", "insert"}
    BY <2>1, <2>3 DEF Idle, SeatInv, LockedCapacityIsCurrent, Workers
  <2>5. GaugeInRange'
    BY <1>0, <1>2 DEF SeatInv, GaugeInRange, WorkspaceRow
  <2>6. CopiesInRange'
    BY <1>2, <2>1 DEF Idle, SeatInv, CopiesInRange
  <2> QED
    BY <2>2, <2>4, <2>5, <2>6 DEF SeatInv, LockedCapacityIsCurrent
<1>3. CASE CheckSeats(w)
  <2> DEFINE g == [f EXCEPT !.pc = "insert"]
  <2>1. /\ g \in Frame /\ g.pc = "insert" /\ g.ws = f.ws
        /\ f.pc = "checkSeats"
    BY <1>0, <1>3 DEF CheckSeats, At, Frame, Steps
  <2>2. lock = w /\ f.ws = workspace
    BY <2>1 DEF SeatInv, LockedCapacityIsCurrent
  <2>3. /\ \/ Go(w, g) /\ UNCHANGED lock
           \/ Go(w, Idle) /\ lock' = NoOne
        /\ UNCHANGED <<rows, workspace, shrunk, revived>>
    BY <1>3 DEF CheckSeats, Finish
  <2>4. CASE Go(w, g) /\ UNCHANGED lock
    BY <1>0, <2>1, <2>2, <2>3, <2>4, QuietStep DEF SeatInv, TypeOK
  <2>5. CASE Go(w, Idle) /\ lock' = NoOne
    BY <1>0, <1>2, <2>1, <2>3, <2>5 DEF SeatInv, TypeOK, WorkspaceRow
  <2> QED
    BY <2>3, <2>4, <2>5
<1>4. CASE CommitBooking(w)
  <2>1. f.pc = "insert"
    BY <1>4 DEF CommitBooking, At
  <2>2. f.ws = workspace
    BY <2>1 DEF SeatInv, LockedCapacityIsCurrent
  <2>3. /\ workspace.total \in 1..MaxSeats /\ workspace.avail \in 0..MaxSeats
        /\ f.req \in Request /\ f.req.seats \in 1..MaxSeats
    BY <1>0 DEF WorkspaceRow, Frame, Request
  <2> DEFINE left == workspace.avail - f.req.seats
             low == IF left > 0 THEN left ELSE 0
  <2>4. low \in 0..MaxSeats /\ low <= workspace.avail
    BY <2>3, SeatsAssumption
  <2>5. \/ UNCHANGED workspace
        \/ workspace' = [workspace EXCEPT !.avail = low]
    BY <1>4, <2>2 DEF CommitBooking
  <2> HIDE DEF low
  <2>6. /\ workspace' \in WorkspaceRow
        /\ workspace'.total = workspace.total
        /\ workspace'.avail <= workspace.avail
    BY <1>0, <2>3, <2>4, <2>5 DEF WorkspaceRow
  <2>7. rows' \in [Ids -> Row]
    <3>1. [status |-> "pending", req |-> f.req] \in Row
      BY <2>3 DEF Row, Status
    <3> QED
      BY <1>4, <3>1 DEF CommitBooking, SeatInv, TypeOK
  <2>8. Go(w, Idle) /\ lock' = NoOne /\ UNCHANGED <<shrunk, revived>>
    BY <1>4 DEF CommitBooking, Finish
  <2> QED
    BY <1>2, <2>1, <2>6, <2>7, <2>8
<1> QED
  BY <1>1, <1>3, <1>4

\* Outcomes and workspace requests: every copy is made from rows in range, and
\* the save writes it back around whatever transaction is open.
LEMMA HandlerKeeps ==
    ASSUME SeatInv, NEW w \in Handlers,
           \/ \E i \in Ids : ReadBooking(w, i)
           \/ SaveStatus(w) \/ AdjustRead(w)
           \/ \E total \in Totals \cup {workspace.total}, active \in BOOLEAN :
                  UpdateRead(w, total, active)
           \/ SoftDeleteRead(w) \/ SaveWorkspace(w) \/ UpdateColumns(w)
    PROVE  SeatInv'
<1> DEFINE f == frame[w]
<1>0. /\ w \in Workers /\ f \in Frame /\ workspace \in WorkspaceRow
      /\ rows \in [Ids -> Row] /\ revived \in BOOLEAN
  BY DEF SeatInv, TypeOK, Workers
<1>t. /\ workspace.total \in 1..MaxSeats /\ workspace.avail \in 0..MaxSeats
      /\ workspace.active \in BOOLEAN
  BY <1>0 DEF WorkspaceRow
<1>i. Idle \in Frame /\ Idle.pc = "idle"
  BY IdleFrame DEF Idle
<1>1. ASSUME NEW i \in Ids, ReadBooking(w, i)
      PROVE  SeatInv'
  <2>1. PICK new \in MayBecome(rows[i].status) :
          Go(w, [Idle EXCEPT !.pc = "saveStatus", !.id = i,
                             !.row = [rows[i] EXCEPT !.status = new]])
    BY <1>1 DEF ReadBooking
  <2> DEFINE copy == [rows[i] EXCEPT !.status = new]
             g == [Idle EXCEPT !.pc = "saveStatus", !.id = i, !.row = copy]
  <2>2. copy \in Row
    BY <1>0 DEF MayBecome, Row, Status
  <2>3. Go(w, g)
    BY <2>1
  <2> HIDE DEF copy
  <2>4. g \in Frame /\ g.pc = "saveStatus"
    BY <2>2, <1>i DEF Frame, Steps
  <2> HIDE DEF g
  <2> QED
    BY <1>0, <1>1, <2>3, <2>4, QuietStep DEF ReadBooking
<1>2. CASE SaveStatus(w)
  <2> DEFINE g == [f EXCEPT !.pc = "adjustRead"]
  <2>1. g \in Frame /\ g.pc = "adjustRead"
    BY <1>0 DEF Frame, Steps
  <2>2. /\ Go(w, g) \/ Go(w, Idle)
        /\ UNCHANGED <<workspace, lock, shrunk>>
    BY <1>2 DEF SaveStatus, Finish
  <2>3. rows' \in [Ids -> Row]
    BY <1>0, <1>2 DEF SaveStatus, Frame
  <2>4. revived' \in BOOLEAN
    BY <1>0, <1>2 DEF SaveStatus
  <2> HIDE DEF g
  <2> QED
    BY <1>0, <1>i, <2>1, <2>2, <2>3, <2>4, QuietStep
<1>3. ASSUME NEW row \in WorkspaceRow, NEW base \in {f, Idle},
             \/ row.avail <= row.total \/ row.avail <= workspace.total \/ shrunk,
             Go(w, [base EXCEPT !.pc = "saveWorkspace", !.ws = row]),
             UNCHANGED <<rows, workspace, lock, shrunk, revived>>
      PROVE  SeatInv'
  <2> DEFINE g == [base EXCEPT !.pc = "saveWorkspace", !.ws = row]
  <2>1. g \in Frame /\ g.pc = "saveWorkspace" /\ g.ws = row
    BY <1>0, <1>i DEF Frame, Steps
  <2>2. Go(w, g)
    BY <1>3
  <2> HIDE DEF g
  <2> QED
    BY <1>0, <1>3, <2>1, <2>2, QuietStep
<1>4. CASE AdjustRead(w)
  <2> DEFINE next == workspace.avail + f.row.req.seats
             row == [workspace EXCEPT !.avail =
                        IF next < workspace.total THEN next
                                                  ELSE workspace.total]
  <2>1. f.row.req.seats \in 1..MaxSeats
    BY <1>0 DEF Frame, Row, Request
  <2>2. row \in WorkspaceRow /\ row.avail <= row.total
    BY <1>0, <1>t, <2>1, SeatsAssumption DEF WorkspaceRow
  <2>3. /\ Go(w, [f EXCEPT !.pc = "saveWorkspace", !.ws = row])
        /\ UNCHANGED <<rows, workspace, lock, shrunk, revived>>
    BY <1>4 DEF AdjustRead
  <2> HIDE DEF row
  <2> QED
    BY <1>3, <2>2, <2>3
<1>5. ASSUME NEW total \in Totals \cup {workspace.total},
             NEW active \in BOOLEAN, UpdateRead(w, total, active)
      PROVE  SeatInv'
  <2> DEFINE added == IF total > workspace.total THEN total - workspace.total
                                                 ELSE 0
             row == [total |-> total, avail |-> workspace.avail + added,
                     active |-> active]
  <2>1. total \in 1..MaxSeats
    BY <1>t, SeatsAssumption
  <2>2. /\ workspace.avail + added <= MaxSeats
        /\ Go(w, [Idle EXCEPT !.pc = "saveWorkspace", !.ws = row])
        /\ UNCHANGED <<rows, workspace, lock, shrunk, revived>>
    BY <1>5 DEF UpdateRead
  <2>3. row \in WorkspaceRow
    BY <1>t, <2>1, <2>2, SeatsAssumption DEF WorkspaceRow
  <2>4. ~shrunk => workspace.avail <= workspace.total
    BY DEF SeatInv, GaugeInRange
  <2>5. \/ row.avail <= row.total \/ row.avail <= workspace.total \/ shrunk
    BY <1>t, <2>1, <2>4
  <2> HIDE DEF row
  <2> QED
    BY <1>3, <2>2, <2>3, <2>5
<1>6. CASE SoftDeleteRead(w)
  <2> DEFINE row == [workspace EXCEPT !.active = FALSE]
  <2>1. row \in WorkspaceRow /\ row.avail = workspace.avail
    BY <1>0 DEF WorkspaceRow
  <2>2. ~shrunk => workspace.avail <= workspace.total
    BY DEF SeatInv, GaugeInRange
  <2>3. /\ Go(w, [Idle EXCEPT !.pc = "saveWorkspace", !.ws = row])
        /\ UNCHANGED <<rows, workspace, lock, shrunk, revived>>
    BY <1>6 DEF SoftDeleteRead
  <2> HIDE DEF row
  <2> QED
    BY <1>3, <2>1, <2>2, <2>3
<1>7. CASE SaveWorkspace(w)
  <2>1. PICK cols \in SUBSET Columns :
          /\ "total" \notin cols => f.ws.total = workspace.total
          /\ Go(w, [f EXCEPT !.pc = "updateColumns", !.cols = cols])
    <3> DEFINE cs == {c \in Columns :
                        \/ c = "total" /\ f.ws.total # workspace.total
                        \/ c = "avail" /\ f.ws.avail # workspace.avail
                        \/ c = "active" /\ f.ws.active # workspace.active}
    <3>1. Go(w, [f EXCEPT !.pc = "updateColumns", !.cols = cs])
      BY <1>7 DEF SaveWorkspace
    <3>2. cs \in SUBSET Columns
      OBVIOUS
    <3>3. "total" \notin cs => f.ws.total = workspace.total
      BY DEF Columns
    <3> HIDE DEF cs
    <3> QED
      BY <3>1, <3>2, <3>3
  <2> DEFINE g == [f EXCEPT !.pc = "updateColumns", !.cols = cols]
  <2>2. /\ g \in Frame /\ g.pc = "updateColumns" /\ g.ws = f.ws
        /\ g.cols = cols
    BY <1>0 DEF Frame, Steps
  <2>3. f.pc = "saveWorkspace"
    BY <1>7 DEF SaveWorkspace, At
  <2>4. ~shrunk => f.ws.avail <= f.ws.total \/ f.ws.avail <= workspace.total
    BY <1>0, <2>3 DEF SeatInv, CopiesInRange
  <2>5. Go(w, g)
    BY <2>1
  <2>6. UNCHANGED <<rows, workspace, lock, shrunk, revived>>
    BY <1>7 DEF SaveWorkspace
  <2> HIDE DEF g
  <2> QED
    BY <1>0, <1>t, <2>1, <2>2, <2>4, <2>5, <2>6, QuietStep
<1>8. CASE UpdateColumns(w)
  <2>1. f.pc = "updateColumns" /\ f.ws \in WorkspaceRow
    BY <1>0, <1>8 DEF UpdateColumns, At, Frame
  <2>2. /\ frame' \in [Workers -> Frame]
        /\ frame'[w] = Idle
        /\ \A v \in Workers \ {w} : frame'[v] = frame[v]
    BY <1>0, <1>8, <1>i, GoType DEF UpdateColumns, Finish, SeatInv
  <2>3. /\ workspace' = Overwritten(workspace, f.ws, f.cols)
        /\ shrunk' = (shrunk \/ workspace'.total < workspace.total)
        /\ UNCHANGED <<rows, lock, revived>>
        /\ lock = NoOne \/ f.cols = {}
    BY <1>8 DEF UpdateColumns
  <2>4. workspace' \in WorkspaceRow
    BY <1>0, <2>1, <2>3 DEF Overwritten, WorkspaceRow
  <2>5. TypeOK'
    BY <2>2, <2>3, <2>4 DEF SeatInv, TypeOK
  <2>6. f.cols = {} => workspace' = workspace
    BY <1>0, <2>3 DEF Overwritten, WorkspaceRow
  <2>7. LockedCapacityIsCurrent'
    BY <2>2, <2>3, <2>6, <1>i, SeatsAssumption
       DEF SeatInv, LockedCapacityIsCurrent, Workers
  <2>8. /\ workspace'.total \in 1..MaxSeats /\ workspace'.avail \in 0..MaxSeats
        /\ f.ws.total \in 1..MaxSeats /\ f.ws.avail \in 0..MaxSeats
    BY <2>1, <2>4 DEF WorkspaceRow
  <2>9. ~shrunk' => ~shrunk /\ workspace.total <= workspace'.total
    <3> DEFINE lower == workspace'.total < workspace.total
    <3>1. shrunk' = (shrunk \/ lower)
      BY <2>3
    <3>2. ~lower => workspace.total <= workspace'.total
      BY <1>t, <2>8
    <3> HIDE DEF lower
    <3> QED
      BY <3>1, <3>2, Zenon
  <2>10. /\ \/ "total" \in f.cols /\ workspace'.total = f.ws.total
            \/ "total" \notin f.cols /\ workspace'.total = workspace.total
         /\ workspace'.avail \in {f.ws.avail, workspace.avail}
    BY <2>3 DEF Overwritten
  <2>11. ~shrunk => /\ workspace.avail <= workspace.total
                    /\ \/ f.ws.avail <= f.ws.total
                       \/ f.ws.avail <= workspace.total
                    /\ "total" \notin f.cols => f.ws.total <= workspace.total
    BY <1>0, <2>1 DEF SeatInv, GaugeInRange, CopiesInRange
  <2>12. GaugeInRange'
    BY <1>t, <2>8, <2>9, <2>10, <2>11 DEF GaugeInRange
  <2>13. ASSUME ~shrunk', NEW v \in Workers
         PROVE  /\ frame'[v].pc \in {"saveWorkspace", "updateColumns"} =>
                       \/ frame'[v].ws.avail <= frame'[v].ws.total
                       \/ frame'[v].ws.avail <= workspace'.total
                /\ frame'[v].pc = "updateColumns"
                   /\ "total" \notin frame'[v].cols =>
                       frame'[v].ws.total <= workspace'.total
    <3>1. CASE v = w
      BY <1>i, <2>2, <3>1
    <3>2. CASE v # w
      <4>1. frame'[v] = frame[v] /\ frame[v].ws \in WorkspaceRow
        BY <2>2, <3>2 DEF SeatInv, TypeOK, Frame
      <4>2. frame[v].ws.avail \in Nat /\ frame[v].ws.total \in Nat
        BY <4>1 DEF WorkspaceRow
      <4> QED
        BY <1>t, <2>8, <2>9, <2>13, <4>1, <4>2 DEF SeatInv, CopiesInRange
    <3> QED
      BY <3>1, <3>2
  <2> QED
    BY <2>5, <2>7, <2>12, <2>13 DEF SeatInv, CopiesInRange
<1> QED
  BY <1>1, <1>2, <1>4, <1>5, <1>6, <1>7, <1>8

-----------------------------------------------------------------------------
LEMMA SeatInvInit == Init => SeatInv
<1> SUFFICES ASSUME Init PROVE SeatInv
  OBVIOUS
<1>1. NoRow \in Row /\ NewWorkspace \in WorkspaceRow
  BY SeatsAssumption DEF NoRow, NoRequest, NewWorkspace, Row, Status, Request,
                         WorkspaceRow, Days
<1>2. TypeOK
  BY <1>1, IdleFrame DEF Init, TypeOK
<1>3. \A w \in Workers : frame[w].pc = "idle"
  BY DEF Init, Idle
<1>4. LockedCapacityIsCurrent /\ CopiesInRange
  BY <1>3 DEF LockedCapacityIsCurrent, CopiesInRange, Workers
<1>5. GaugeInRange
  BY SeatsAssumption DEF Init, NewWorkspace, GaugeInRange
<1> QED
  BY <1>2, <1>4, <1>5 DEF SeatInv

LEMMA SeatInvNext == SeatInv /\ [Next]_vars => SeatInv'
<1> SUFFICES ASSUME SeatInv, [Next]_vars PROVE SeatInv'
  OBVIOUS
<1>1. CASE UNCHANGED vars
  BY <1>1 DEF vars, SeatInv, TypeOK, LockedCapacityIsCurrent, GaugeInRange,
              CopiesInRange
<1>2. CASE Next
  BY <1>2, CreationKeeps, HandlerKeeps DEF Next
<1> QED
  BY <1>1, <1>2

\* Rows, the gauge and every copy of them stay well formed.
THEOREM TypeCorrect == Spec => []TypeOK
<1>1. SeatInv => TypeOK
  BY DEF SeatInv
<1> QED
  BY <1>1, SeatInvInit, SeatInvNext, PTL DEF Spec

\* The capacity a creation checked is the capacity at its commit.
THEOREM LockHoldsCapacity == Spec => []LockedCapacityIsCurrent
<1>1. SeatInv => LockedCapacityIsCurrent
  BY DEF SeatInv
<1> QED
  BY <1>1, SeatInvInit, SeatInvNext, PTL DEF Spec

\* Only a save that lowers totalSeats can push the gauge above it.
THEOREM GaugeStaysInRange == Spec => []GaugeInRange
<1>1. SeatInv => GaugeInRange
  BY DEF SeatInv
<1> QED
  BY <1>1, SeatInvInit, SeatInvNext, PTL DEF Spec

-----------------------------------------------------------------------------
(***************************************************************************)
(* No day is sold beyond totalSeats.  The check of a creation is about a   *)
(* range, and stays true until its commit because nobody else can add a    *)
(* booking meanwhile (the lock), an outcome only takes seats away, and a   *)
(* save leaves totalSeats at least as large.  An outcome saves a copy of   *)
(* the booking's row, so the copy must name a booking that exists and ask  *)
(* for what its row asks for.                                              *)
(***************************************************************************)
CopiesAgree ==
    \A w \in Workers : frame[w].pc = "saveStatus" =>
        LET i == frame[w].id
        IN /\ i \in Ids /\ rows[i].status # "absent"
           /\ frame[w].row.status # "absent"
           /\ frame[w].row.req = rows[i].req

Existing == {i \in Ids : rows[i].status # "absent"}

CheckHolds ==
    \A w \in Creators : frame[w].pc = "insert" =>
        LET r == frame[w].req
        IN BookedSeats(r.from, r.to) + r.seats <= workspace.total

DayInv ==
    /\ SeatInv
    /\ CopiesAgree
    /\ IsFiniteSet(Existing)
    /\ ~shrunk /\ ~revived => NoOverbooking /\ CheckHolds

LEMMA LiveFinite ==
    ASSUME TypeOK, IsFiniteSet(Existing), NEW from, NEW to
    PROVE  /\ IsFiniteSet(LiveIn(from, to))
           /\ \A i \in LiveIn(from, to) : Seats[i] \in Nat
           /\ BookedSeats(from, to) \in Nat
<1>1. LiveIn(from, to) \subseteq Existing
  BY DEF LiveIn, Existing, Live
<1>2. IsFiniteSet(LiveIn(from, to))
  BY <1>1, FS_Subset
<1>3. \A i \in LiveIn(from, to) : Seats[i] \in Nat
  BY SeatsAssumption DEF LiveIn, Seats, TypeOK, Row, Request
<1>4. BookedSeats(from, to) \in Nat
  BY <1>2, <1>3, SumNat DEF BookedSeats
<1> QED
  BY <1>2, <1>3, <1>4

\* Fewer live bookings, asking for what they asked for, take no more seats.
LEMMA FewerSeats ==
    ASSUME TypeOK, IsFiniteSet(Existing), rows' \in [Ids -> Row], NEW from, NEW to,
           \A i \in Ids : rows'[i].status \in Live =>
               rows[i].status \in Live /\ rows'[i].req = rows[i].req
    PROVE  /\ BookedSeats(from, to)' <= BookedSeats(from, to)
           /\ BookedSeats(from, to)' \in Nat /\ BookedSeats(from, to) \in Nat
<1> DEFINE S == LiveIn(from, to)
           T == LiveIn(from, to)'
           before == Seats
           after == Seats'
<1>1. IsFiniteSet(S) /\ \A i \in S : before[i] \in Nat
  BY LiveFinite
<1>2. T \subseteq S
  BY DEF LiveIn
<1>3. \A i \in T : after[i] = before[i]
  BY DEF LiveIn, Seats
<1>4. BookedSeats(from, to) = SumFunctionOnSet(before, S)
      /\ BookedSeats(from, to)' = SumFunctionOnSet(after, T)
  BY DEF BookedSeats
<1> HIDE DEF S, T, before, after
<1>5. IsFiniteSet(T) /\ SumFunctionOnSet(before, T) <= SumFunctionOnSet(before, S)
  BY <1>1, <1>2, FS_Subset, SumSubset
<1>6. SumFunctionOnSet(after, T) = SumFunctionOnSet(before, T)
  BY <1>3, <1>5, SumAgree
<1>7. SumFunctionOnSet(before, S) \in Nat /\ SumFunctionOnSet(before, T) \in Nat
  BY <1>1, <1>2, <1>5, SumNat
<1> QED
  BY <1>4, <1>5, <1>6, <1>7

\* The seats of a day are among those of a range around it.
LEMMA DayInRange ==
    ASSUME TypeOK, IsFiniteSet(Existing), NEW from \in Days, NEW to \in Days,
           NEW d \in from..to
    PROVE  Occupied(d) <= BookedSeats(from, to)
<1>1. \A i \in Ids : rows[i].req.from \in Int /\ rows[i].req.to \in Int
  BY SeatsAssumption DEF TypeOK, Row, Request, Days
<1>2. LiveIn(d, d) \subseteq LiveIn(from, to)
  BY <1>1, SeatsAssumption DEF LiveIn, Overlaps, Days
<1>3. IsFiniteSet(LiveIn(from, to)) /\ \A i \in LiveIn(from, to) : Seats[i] \in Nat
  BY LiveFinite
<1> QED
  BY <1>2, <1>3, SumSubset DEF Occupied, BookedSeats

\* A new booking takes its seats on its days, and none on the others.
LEMMA MoreSeats ==
    ASSUME TypeOK, IsFiniteSet(Existing), NEW i \in Ids, NEW r \in Request,
           rows[i].status = "absent",
           rows' = [rows EXCEPT ![i] = [status |-> "pending", req |-> r]], NEW d \in Days
    PROVE  Occupied(d)' = Occupied(d) + (IF Overlaps(r, d, d) THEN r.seats ELSE 0)
<1> DEFINE S == LiveIn(d, d)
           T == LiveIn(d, d)'
           before == Seats
           after == Seats'
<1>1. IsFiniteSet(S) /\ \A j \in S : before[j] \in Nat
  BY LiveFinite
<1>2. /\ rows'[i].status \in Live /\ rows'[i].req = r
      /\ \A j \in Ids \ {i} : rows'[j] = rows[j]
  BY DEF TypeOK, Live
<1>3. i \notin S /\ T = IF Overlaps(r, d, d) THEN S \cup {i} ELSE S
  BY <1>2 DEF LiveIn, Live
<1>4. after[i] = r.seats /\ r.seats \in Nat /\ \A j \in S : after[j] = before[j]
  BY <1>2, <1>3, SeatsAssumption DEF LiveIn, Seats, Request
<1>5. Occupied(d) = SumFunctionOnSet(before, S) /\ Occupied(d)' = SumFunctionOnSet(after, T)
  BY DEF Occupied, BookedSeats
<1> HIDE DEF S, T, before, after
<1>6. SumFunctionOnSet(before, S) \in Nat
      /\ SumFunctionOnSet(after, S) = SumFunctionOnSet(before, S)
  BY <1>1, <1>4, SumAgree, SumNat
<1>7. \A j \in S \cup {i} : after[j] \in Int
  BY <1>1, <1>4
<1>8. SumFunctionOnSet(after, S \cup {i}) = after[i] + SumFunctionOnSet(after, S)
  BY <1>1, <1>3, <1>7, SumAdd
<1>9. CASE Overlaps(r, d, d)
  BY <1>3, <1>4, <1>5, <1>6, <1>8, <1>9
<1>10. CASE ~Overlaps(r, d, d)
  BY <1>3, <1>5, <1>6, <1>10
<1> QED
  BY <1>9, <1>10

CopyAgrees(w) ==
    frame[w].pc = "saveStatus" =>
        LET i == frame[w].id
        IN /\ i \in Ids /\ rows[i].status # "absent"
           /\ frame[w].row.status # "absent"
           /\ frame[w].row.req = rows[i].req

CheckOf(w) ==
    LET r == frame[w].req
    IN BookedSeats(r.from, r.to) + r.seats <= workspace.total

SameBookings ==
    \A i \in Ids : /\ rows'[i].req = rows[i].req
                   /\ rows'[i].status = "absent" <=> rows[i].status = "absent"

NoneRevived ==
    ~revived' => ~revived /\ \A i \in Ids : rows'[i].status \in Live => rows[i].status \in Live

NoneShrunk == ~shrunk' => ~shrunk /\ workspace.total <= workspace'.total

\* Every step but the commit of a new booking: no seats are added, and totalSeats
\* stays at least what it was.
LEMMA NoNewSeats ==
    ASSUME DayInv, SeatInv', NEW w \in Workers,
           \A v \in Workers \ {w} : frame'[v] = frame[v],
           SameBookings, NoneRevived, NoneShrunk, CopyAgrees(w)',
           ~shrunk /\ ~revived /\ frame'[w].pc = "insert" =>
               BookedSeats(frame'[w].req.from, frame'[w].req.to) + frame'[w].req.seats
                   <= workspace.total
    PROVE  DayInv'
<1>1. /\ TypeOK /\ TypeOK' /\ rows' \in [Ids -> Row] /\ IsFiniteSet(Existing)
  BY DEF DayInv, SeatInv, TypeOK
<1>2. workspace.total \in Int /\ workspace'.total \in Int
  BY <1>1, SeatsAssumption DEF TypeOK, WorkspaceRow
<1>3. CopiesAgree'
  <2>1. ASSUME NEW v \in Workers
        PROVE  CopyAgrees(v)'
    <3>1. CASE v = w
      BY <3>1
    <3>2. CASE v # w
      <4>1. frame'[v] = frame[v] /\ CopyAgrees(v)
        BY <3>2 DEF DayInv, CopiesAgree, CopyAgrees
      <4> QED
        BY <4>1 DEF CopyAgrees, SameBookings
    <3> QED
      BY <3>1, <3>2
  <2> QED
    BY <2>1 DEF CopiesAgree, CopyAgrees
<1>4. Existing' = Existing
  BY DEF Existing, SameBookings
<1>5. ASSUME ~shrunk', ~revived'
      PROVE  (NoOverbooking /\ CheckHolds)'
  <2>1. /\ ~shrunk /\ ~revived /\ workspace.total <= workspace'.total
        /\ \A i \in Ids : rows'[i].status \in Live =>
              rows[i].status \in Live /\ rows'[i].req = rows[i].req
    BY <1>5 DEF NoneRevived, NoneShrunk, SameBookings
  <2>2. NoOverbooking /\ CheckHolds
    BY <2>1 DEF DayInv
  <2>3. \A from, to : /\ BookedSeats(from, to)' <= BookedSeats(from, to)
                       /\ BookedSeats(from, to)' \in Nat /\ BookedSeats(from, to) \in Nat
    BY <1>1, <2>1, FewerSeats
  <2>4. ASSUME NEW d \in Days
        PROVE  Occupied(d)' <= workspace'.total
    BY <1>2, <2>1, <2>2, <2>3 DEF Occupied, NoOverbooking
  <2>5. ASSUME NEW v \in Creators, frame'[v].pc = "insert"
        PROVE  CheckOf(v)'
    <3>1. v \in Workers /\ frame'[v].req.seats \in Int
      BY <1>1, SeatsAssumption DEF TypeOK, Workers, Frame, Request
    <3>2. PICK from, to, seats : from = frame'[v].req.from /\ to = frame'[v].req.to
                                 /\ seats = frame'[v].req.seats
      OBVIOUS
    <3>3. BookedSeats(from, to) + seats <= workspace.total
      <4>1. CASE v = w
        BY <2>1, <2>5, <3>2, <4>1
      <4>2. CASE v # w
        BY <2>2, <2>5, <3>1, <3>2, <4>2 DEF CheckHolds
      <4> QED
        BY <4>1, <4>2
    <3>4. BookedSeats(from, to)' + seats <= workspace'.total
      BY <1>2, <2>1, <2>3, <3>1, <3>2, <3>3
    <3> QED
      BY <3>2, <3>4 DEF CheckOf, BookedSeats, LiveIn
  <2>6. CheckHolds'
    BY <2>5 DEF CheckHolds, CheckOf
  <2> QED
    BY <2>4, <2>6 DEF NoOverbooking
<1> QED
  BY <1>1, <1>3, <1>4, <1>5 DEF DayInv

\* A step in which one worker moves on and no row is written.
LEMMA DayQuietStep ==
    ASSUME DayInv, SeatInv', NEW w \in Workers, NEW f \in Frame, Go(w, f),
           UNCHANGED <<rows, revived>>, NoneShrunk, f.pc # "insert",
           f.pc = "saveStatus" =>
               /\ f.id \in Ids /\ rows[f.id].status # "absent"
               /\ f.row.status # "absent" /\ f.row.req = rows[f.id].req
    PROVE  DayInv'
<1>1. /\ frame'[w] = f
      /\ \A v \in Workers \ {w} : frame'[v] = frame[v]
  BY GoType DEF DayInv, SeatInv
<1>2. SameBookings /\ NoneRevived
  BY DEF SameBookings, NoneRevived
<1>3. CopyAgrees(w)'
  BY <1>1 DEF CopyAgrees
<1> QED
  BY <1>1, <1>2, <1>3, NoNewSeats

LEMMA CheckSeatsDay ==
    ASSUME DayInv, SeatInv', NEW w \in Creators, CheckSeats(w)
    PROVE  DayInv'
<1> DEFINE f == frame[w]
           g == [f EXCEPT !.pc = "insert"]
<1>1. w \in Workers /\ f \in Frame /\ f.pc = "checkSeats" /\ f.ws = workspace
  BY DEF DayInv, SeatInv, TypeOK, Workers, CheckSeats, At, LockedCapacityIsCurrent
<1>2. UNCHANGED <<rows, workspace, shrunk, revived>> /\ (Go(w, g) \/ Go(w, Idle))
  BY DEF CheckSeats, Finish
<1>3. NoneShrunk
  BY <1>1, <1>2, SeatsAssumption DEF NoneShrunk, DayInv, SeatInv, TypeOK, WorkspaceRow
<1>4. CASE Go(w, Idle)
  BY <1>1, <1>2, <1>3, <1>4, IdleFrame, DayQuietStep DEF Idle
<1>5. CASE Go(w, g)
  <2>1. g \in Frame /\ g.pc = "insert" /\ g.req = f.req
    BY <1>1 DEF Frame, Steps
  <2>2. frame'[w] = g /\ \A v \in Workers \ {w} : frame'[v] = frame[v]
    BY <1>1, <1>5, <2>1, GoType DEF DayInv, SeatInv
  <2>3. f.pc # g.pc /\ Idle.pc # "insert"
    BY <1>1, <2>1 DEF Idle
  <2>4. BookedSeats(f.req.from, f.req.to) + f.req.seats <= workspace.total
    <3>1. ~Go(w, Idle)
      BY <1>1, <2>1, <2>2, <2>3, IdleFrame, GoType DEF DayInv, SeatInv
    <3> QED
      BY <1>1, <3>1 DEF CheckSeats, Finish
  <2>5. SameBookings /\ NoneRevived /\ CopyAgrees(w)'
    BY <1>2, <2>1, <2>2 DEF SameBookings, NoneRevived, CopyAgrees
  <2> QED
    BY <1>1, <1>3, <2>1, <2>2, <2>4, <2>5, NoNewSeats
<1> QED
  BY <1>2, <1>4, <1>5

LEMMA CommitDay ==
    ASSUME DayInv, SeatInv', NEW w \in Creators, CommitBooking(w)
    PROVE  DayInv'
<1> DEFINE r == frame[w].req
<1>1. /\ w \in Workers /\ frame[w].pc = "insert" /\ TypeOK /\ IsFiniteSet(Existing)
      /\ r \in Request /\ frame[w].ws = workspace /\ lock = w /\ TypeOK'
  BY DEF DayInv, SeatInv, TypeOK, Workers, Frame, CommitBooking, At, LockedCapacityIsCurrent
<1>2. Go(w, Idle) /\ UNCHANGED <<shrunk, revived>> /\ workspace'.total = workspace.total
  <2>1. workspace \in WorkspaceRow
    BY <1>1 DEF TypeOK
  <2> QED
    BY <1>1, <2>1 DEF CommitBooking, Finish, WorkspaceRow
<1>3. /\ frame'[w] = Idle /\ \A v \in Workers \ {w} : frame'[v] = frame[v]
  BY <1>1, <1>2, IdleFrame, GoType
<1>4. CASE UNCHANGED rows
  <2>1. NoneShrunk
    BY <1>1, <1>2, SeatsAssumption DEF NoneShrunk, TypeOK, WorkspaceRow
  <2> QED
    BY <1>1, <1>2, <1>4, <2>1, IdleFrame, DayQuietStep DEF Idle
<1>5. ASSUME NEW i \in Ids, rows[i].status = "absent",
             rows' = [rows EXCEPT ![i] = [status |-> "pending", req |-> r]]
      PROVE  DayInv'
  <2> HIDE DEF r
  <2>1. rows'[i].status = "pending" /\ \A j \in Ids \ {i} : rows'[j] = rows[j]
    BY <1>1, <1>5 DEF TypeOK
  <2>2. CopiesAgree'
    <3>1. ASSUME NEW v \in Workers, frame'[v].pc = "saveStatus"
          PROVE  frame'[v] = frame[v] /\ frame[v].id # i
      BY <1>3, <1>5, <3>1 DEF Idle, DayInv, CopiesAgree
    <3> QED
      BY <2>1, <3>1 DEF DayInv, CopiesAgree
  <2>3. IsFiniteSet(Existing')
    <3>1. Existing' = Existing \cup {i}
      BY <2>1 DEF Existing
    <3> QED
      BY <1>1, <3>1, FS_AddElement
  <2>4. ASSUME NEW v \in Creators
        PROVE  frame'[v].pc # "insert"
    <3>1. v # w => lock = v \/ frame[v].pc # "insert"
      BY DEF DayInv, SeatInv, LockedCapacityIsCurrent
    <3> QED
      BY <1>1, <1>3, <3>1 DEF Idle, Workers
  <2>5. ASSUME ~shrunk, ~revived, NEW d \in Days
        PROVE  Occupied(d)' <= workspace'.total
    <3>1. /\ Occupied(d) <= workspace.total
          /\ BookedSeats(r.from, r.to) + r.seats <= workspace.total
      BY <1>1, <2>5 DEF DayInv, NoOverbooking, CheckHolds, r
    <3>2. Occupied(d)' = Occupied(d) + (IF Overlaps(r, d, d) THEN r.seats ELSE 0)
      BY <1>1, <1>5, MoreSeats
    <3>3. /\ Occupied(d) \in Nat /\ BookedSeats(r.from, r.to) \in Nat
          /\ r.seats \in Nat /\ workspace.total \in Nat
          /\ r.from \in Days /\ r.to \in Days
      BY <1>1, LiveFinite, SeatsAssumption
         DEF Occupied, Request, TypeOK, WorkspaceRow
    <3>4. CASE Overlaps(r, d, d)
      <4>1. d \in r.from..r.to
        BY <3>3, <3>4 DEF Overlaps, Days
      <4>2. Occupied(d) <= BookedSeats(r.from, r.to)
        BY <1>1, <3>3, <4>1, DayInRange
      <4> QED
        BY <1>2, <3>1, <3>2, <3>3, <3>4, <4>2
    <3>5. CASE ~Overlaps(r, d, d)
      BY <1>2, <3>1, <3>2, <3>3, <3>5
    <3> QED
      BY <3>4, <3>5
  <2>6. ~shrunk' /\ ~revived' => NoOverbooking' /\ CheckHolds'
    BY <1>2, <2>4, <2>5 DEF NoOverbooking, CheckHolds
  <2> QED
    BY <2>2, <2>3, <2>6 DEF DayInv
<1> QED
  BY <1>4, <1>5 DEF CommitBooking

LEMMA HandlerDay ==
    ASSUME DayInv, SeatInv', NEW w \in Handlers,
           \/ \E i \in Ids : ReadBooking(w, i)
           \/ SaveStatus(w) \/ AdjustRead(w)
           \/ \E total \in Totals \cup {workspace.total}, active \in BOOLEAN :
                  UpdateRead(w, total, active)
           \/ SoftDeleteRead(w) \/ SaveWorkspace(w) \/ UpdateColumns(w)
    PROVE  DayInv'
<1> DEFINE f == frame[w]
<1>1. /\ w \in Workers /\ f \in Frame /\ frame \in [Workers -> Frame] /\ rows \in [Ids -> Row]
      /\ workspace.total \in Int /\ workspace'.total \in Int
      /\ frame' \in [Workers -> Frame]
  BY SeatsAssumption DEF DayInv, SeatInv, TypeOK, Workers, WorkspaceRow
<1>s. UNCHANGED <<workspace, shrunk>> => NoneShrunk
  BY <1>1 DEF NoneShrunk
<1>2. ASSUME NEW i \in Ids, ReadBooking(w, i)
      PROVE  DayInv'
  <2>1. PICK new \in MayBecome(rows[i].status) :
          Go(w, [Idle EXCEPT !.pc = "saveStatus", !.id = i,
                             !.row = [rows[i] EXCEPT !.status = new]])
    BY <1>2 DEF ReadBooking
  <2> DEFINE copy == [rows[i] EXCEPT !.status = new]
             g == [Idle EXCEPT !.pc = "saveStatus", !.id = i, !.row = copy]
  <2>2. /\ copy \in Row /\ copy.status = new /\ copy.req = rows[i].req
        /\ new # "absent" /\ rows[i].status # "absent"
    BY <1>1 DEF MayBecome, Row, Status, Live
  <2>3. Go(w, g)
    BY <2>1
  <2> HIDE DEF copy
  <2>4. g \in Frame /\ g.pc = "saveStatus" /\ g.id = i /\ g.row = copy
    BY <2>2, IdleFrame DEF Frame, Steps
  <2>5. NoneShrunk /\ UNCHANGED <<rows, revived>>
    BY <1>s, <1>2 DEF ReadBooking
  <2> HIDE DEF g
  <2> QED
    BY <1>1, <2>2, <2>3, <2>4, <2>5, DayQuietStep
<1>3. CASE SaveStatus(w)
  <2> DEFINE g == [f EXCEPT !.pc = "adjustRead"]
  <2>1. /\ f.id \in Ids /\ rows[f.id].status # "absent" /\ f.row.status # "absent"
        /\ f.row.req = rows[f.id].req
    BY <1>1, <1>3 DEF SaveStatus, At, DayInv, CopiesAgree
  <2>2. g \in Frame /\ g.pc = "adjustRead" /\ Idle.pc = "idle"
    BY <1>1 DEF Frame, Steps, Idle
  <2>3. /\ frame'[w] \in {g, Idle} /\ \A v \in Workers \ {w} : frame'[v] = frame[v]
    BY <1>1, <1>3, <2>2, IdleFrame, GoType DEF SaveStatus, Finish, DayInv, SeatInv
  <2>4. /\ rows' = [rows EXCEPT ![f.id] = f.row]
        /\ UNCHANGED <<workspace, shrunk>>
        /\ revived' = \/ revived
                      \/ f.row.status \in Live /\ rows[f.id].status \notin Live
    BY <1>3 DEF SaveStatus
  <2>5. NoneShrunk /\ CopyAgrees(w)'
    BY <1>s, <2>2, <2>3, <2>4 DEF CopyAgrees
  <2>6. SameBookings
    BY <1>1, <2>1, <2>4 DEF SameBookings
  <2>7. NoneRevived
    BY <1>1, <2>1, <2>4 DEF NoneRevived
  <2> HIDE DEF g
  <2> QED
    BY <1>1, <2>2, <2>3, <2>5, <2>6, <2>7, NoNewSeats
<1>4. ASSUME UNCHANGED <<rows, workspace, shrunk, revived>>, NEW g, Go(w, g),
             g.pc \in {"saveWorkspace", "updateColumns"}
      PROVE  DayInv'
  <2>1. frame'[w] = g /\ g \in Frame
    BY <1>1, <1>4 DEF Go
  <2>2. NoneShrunk
    BY <1>s, <1>4
  <2> QED
    BY <1>1, <1>4, <2>1, <2>2, DayQuietStep
<1>5. CASE AdjustRead(w)
  <2>1. \E ws : Go(w, [f EXCEPT !.pc = "saveWorkspace", !.ws = ws])
    BY <1>5 DEF AdjustRead
  <2>2. \A ws : [f EXCEPT !.pc = "saveWorkspace", !.ws = ws].pc = "saveWorkspace"
    BY <1>1 DEF Frame
  <2> QED
    BY <1>4, <1>5, <2>1, <2>2 DEF AdjustRead
<1>6. CASE \/ \E total \in Totals \cup {workspace.total}, active \in BOOLEAN :
                  UpdateRead(w, total, active)
           \/ SoftDeleteRead(w)
  <2>1. \E ws : Go(w, [Idle EXCEPT !.pc = "saveWorkspace", !.ws = ws])
    BY <1>6 DEF UpdateRead, SoftDeleteRead
  <2>2. \A ws : [Idle EXCEPT !.pc = "saveWorkspace", !.ws = ws].pc = "saveWorkspace"
    BY DEF Idle
  <2> QED
    BY <1>4, <1>6, <2>1, <2>2 DEF UpdateRead, SoftDeleteRead
<1>7. CASE SaveWorkspace(w)
  <2>1. \E cols : Go(w, [f EXCEPT !.pc = "updateColumns", !.cols = cols])
    BY <1>7 DEF SaveWorkspace
  <2>2. \A cols : [f EXCEPT !.pc = "updateColumns", !.cols = cols].pc = "updateColumns"
    BY <1>1 DEF Frame
  <2> QED
    BY <1>4, <1>7, <2>1, <2>2 DEF SaveWorkspace
<1>8. CASE UpdateColumns(w)
  <2> DEFINE lower == workspace'.total < workspace.total
  <2>1. shrunk' = (shrunk \/ lower) /\ Go(w, Idle) /\ UNCHANGED <<rows, revived>>
    BY <1>8 DEF UpdateColumns, Finish
  <2>2. ~lower => workspace.total <= workspace'.total
    BY <1>1
  <2> HIDE DEF lower
  <2>3. NoneShrunk
    BY <2>1, <2>2, Zenon DEF NoneShrunk
  <2> QED
    BY <1>1, <2>1, <2>3, IdleFrame, DayQuietStep DEF Idle
<1> QED
  BY <1>2, <1>3, <1>5, <1>6, <1>7, <1>8

LEMMA DayInvInit == Init => DayInv
<1> SUFFICES ASSUME Init PROVE DayInv
  OBVIOUS
<1>1. SeatInv /\ TypeOK
  BY SeatInvInit DEF SeatInv
<1>2. \A w \in Workers : frame[w].pc = "idle"
  BY DEF Init, Idle
<1>3. CopiesAgree /\ CheckHolds
  BY <1>2 DEF CopiesAgree, CheckHolds, Workers
<1>4. Existing = {} /\ \A from, to : LiveIn(from, to) = {}
  BY DEF Init, NoRow, Existing, LiveIn, Live
<1>5. IsFiniteSet(Existing) /\ \A from, to : BookedSeats(from, to) = 0
  BY <1>4, FS_EmptySet, SumZero DEF BookedSeats
<1>6. NoOverbooking
  BY <1>1, <1>5, SeatsAssumption DEF NoOverbooking, Occupied, TypeOK, WorkspaceRow
<1> QED
  BY <1>1, <1>3, <1>5, <1>6 DEF DayInv

LEMMA DayInvNext == DayInv /\ [Next]_vars => DayInv'
<1> SUFFICES ASSUME DayInv, [Next]_vars PROVE DayInv'
  OBVIOUS
<1>1. SeatInv'
  BY SeatInvNext DEF DayInv
<1>2. CASE UNCHANGED vars
  BY <1>1, <1>2 DEF vars, DayInv, CopiesAgree, Existing, NoOverbooking, CheckHolds,
                    Occupied, BookedSeats, LiveIn, Seats
<1>3. ASSUME NEW w \in Creators, NEW r \in Asked, LockWorkspace(w, r)
      PROVE  DayInv'
  <2> DEFINE g == [Idle EXCEPT !.pc = "checkSeats", !.req = r, !.ws = workspace]
  <2>1. w \in Workers /\ Go(w, g) /\ UNCHANGED <<rows, workspace, shrunk, revived>>
        /\ g.pc = "checkSeats"
    BY <1>3 DEF LockWorkspace, Workers, Idle
  <2> HIDE DEF g
  <2>2. NoneShrunk
    BY <2>1, SeatsAssumption DEF NoneShrunk, DayInv, SeatInv, TypeOK, WorkspaceRow
  <2>3. g \in Frame
    BY <1>1, <2>1 DEF DayInv, SeatInv, TypeOK, Go
  <2> QED
    BY <1>1, <2>1, <2>2, <2>3, DayQuietStep
<1> QED
  BY <1>1, <1>2, <1>3, CheckSeatsDay, CommitDay, HandlerDay DEF Next

\* No interleaving of creations, day passes, outcomes and changes of capacity sells
\* a day beyond totalSeats, for any number of requests, bookings, days and seats,
\* unless a save lowered totalSeats or brought an ended booking back
\* (CreateBookingProvider.create, CreatePublicDayPassProvider.create).
THEOREM NeverSoldTwice == Spec => []NoOverbooking
<1>1. DayInv => NoOverbooking
  BY DEF DayInv, NoOverbooking
<1> QED
  BY <1>1, DayInvInit, DayInvNext, PTL DEF Spec
=============================================================================

--------------------------- MODULE ServicesProofs ---------------------------
(***************************************************************************)
(* Proofs about the backend's smaller services: what each promises of its  *)
(* tables, for any number of workers, rows and requests, and that all of   *)
(* them together keep it.  The argument is the same for each: while a      *)
(* request is on its way, what it is going to save (its frame) agrees with *)
(* the rows it was read from; when requests do not overlap nothing can     *)
(* come in between and make it disagree (Serial).                          *)
(***************************************************************************)
EXTENDS MCBackend, FiniteSetTheorems, SequenceTheorems, TLAPS

\* One request at a time, unless they overlap.
Serial ==
    ~overlap => \A v, w \in Workers : frame[v] # Idle /\ frame[w] # Idle => v = w

\* Handlers of a service have frames of its kinds.
Framed(F) == overlap \in BOOLEAN /\ frame \in [Workers -> {Idle} \cup F] /\ Serial

\* A step of one worker, to which the frame f is left.
Moves(w, f) ==
    /\ Start(w, f) \/ (frame[w] # Idle /\ Goes(w, f))

\* The other workers keep their frames, and there are none when requests do not overlap.
Alone(w, f) ==
    /\ overlap' = overlap
    /\ frame'[w] = f
    /\ \A v \in Workers \ {w} : frame'[v] = frame[v]
    /\ ~overlap => \A v \in Workers \ {w} : frame[v] = Idle

LEMMA Moved ==
    ASSUME NEW F, Framed(F), NEW w \in Workers, NEW f, f \in {Idle} \cup F, Moves(w, f)
    PROVE  Framed(F)' /\ Alone(w, f)
<1>1. frame \in [Workers -> {Idle} \cup F] /\ frame' = [frame EXCEPT ![w] = f]
      /\ overlap' = overlap
  BY DEF Framed, Moves, Start, Goes
<1>2. frame' \in [Workers -> {Idle} \cup F] /\ frame'[w] = f
      /\ \A v \in Workers \ {w} : frame'[v] = frame[v]
  BY <1>1
<1>3. ~overlap => \A v \in Workers \ {w} : frame[v] = Idle
  <2>1. CASE Start(w, f)
    BY <2>1 DEF Start
  <2>2. CASE frame[w] # Idle
    BY <2>2 DEF Framed, Serial
  <2> QED
    BY <2>1, <2>2 DEF Moves
<1>4. Serial'
  BY <1>1, <1>2, <1>3 DEF Serial
<1> QED
  BY <1>1, <1>2, <1>3, <1>4 DEF Framed, Alone

LEMMA Unmoved ==
    ASSUME NEW F, Framed(F), UNCHANGED requests
    PROVE  Framed(F)'
BY DEF Framed, Serial, requests

LEMMA AllIdle ==
    ASSUME NEW F, RequestsInit
    PROVE  Framed(F) /\ \A w \in Workers : frame[w] = Idle
BY RequestsAssumption DEF RequestsInit, Framed, Serial

-----------------------------------------------------------------------------
(* Parking.                                                                *)

SpotRow == [known : BOOLEAN, active : BOOLEAN, holder : Drivers \cup {None}]
SpotFrames == [op : {"spot", "tell"}, spot : Spots, row : SpotRow,
               member : Drivers \cup {None}, notice : {None, "assigned", "unassigned"},
               insert : BOOLEAN]

SpotSound(f) ==
    f # Idle => f.row.known /\ (f.notice = "assigned" => f.member \in Drivers)

\* What a request is going to save, and whom it tells, fits what members were told.
SpotGood(f) ==
    /\ f.op = "spot" /\ f.notice = None => f.row.holder = spot[f.spot].holder
    /\ f.op = "tell" => f.notice # None /\ spot[f.spot].holder = f.row.holder
    /\ f.op \in {"spot", "tell"} /\ f.notice = "assigned" =>
          told[f.spot] = {} /\ f.row.holder = f.member
    /\ f.op \in {"spot", "tell"} /\ f.notice = "unassigned" => told[f.spot] \subseteq {f.member}

ParkingInv ==
    /\ Framed(SpotFrames)
    /\ ParkingType
    /\ \A w \in Workers : SpotSound(frame[w])
    /\ \A s \in Spots : ~spot[s].known => spot[s].holder = None
    /\ ~overlap => (\A w \in Workers : SpotGood(frame[w]))
    /\ ParkingKept

LEMMA SpotRequestStep ==
    ASSUME ParkingInv, NEW w \in Workers, NEW s \in Spots, NEW row \in SpotRow,
           NEW member \in Drivers \cup {None}, NEW notice \in {None, "assigned", "unassigned"},
           SpotRequest(w, s, row, member, notice),
           row.known, notice = "assigned" => member \in Drivers,
           ~overlap => /\ notice = None => row.holder = spot[s].holder
                       /\ notice = "assigned" => told[s] = {} /\ row.holder = member
                       /\ notice = "unassigned" => told[s] \subseteq {member}
    PROVE  ParkingInv'
<1> DEFINE f == [op |-> "spot", spot |-> s, row |-> row, member |-> member,
                 notice |-> notice, insert |-> ~spot[s].known]
<1>1. f \in SpotFrames /\ f.op = "spot" /\ f.spot = s /\ f.row = row /\ f.member = member
      /\ f.notice = notice
  BY DEF SpotFrames
<1>2. Start(w, f) /\ UNCHANGED <<spot, told>>
  BY DEF SpotRequest, PK_rows
<1> HIDE DEF f
<1>3. Framed(SpotFrames)' /\ Alone(w, f)
  BY <1>1, <1>2, Moved DEF ParkingInv, Moves
<1>4. f # Idle
  BY <1>1 DEF Idle
<1>5. \A v \in Workers : SpotSound(frame'[v])
  BY <1>1, <1>3 DEF ParkingInv, Alone, SpotSound
<1>6. ASSUME ~overlap, NEW v \in Workers
      PROVE  SpotGood(frame[v])'
  <2>1. CASE v = w
    BY <1>1, <1>2, <1>3, <1>6, <2>1 DEF Alone, SpotGood
  <2>2. CASE v # w
    BY <1>3, <1>6, <2>2 DEF Alone, SpotGood, Idle
  <2> QED
    BY <2>1, <2>2
<1>7. ParkingKept'
  <2> SUFFICES ASSUME ~overlap, NEW t \in Spots
               PROVE  told[t] \subseteq {spot[t].holder}
    BY <1>2, <1>3 DEF ParkingKept, SpotsToldTrue, Alone
  <2>1. \A v \in Workers : frame[v] = Idle
    BY <1>2 DEF Start
  <2> QED
    BY <2>1 DEF ParkingInv, ParkingKept, SpotsToldTrue, Doing, Idle
<1> QED
  BY <1>2, <1>3, <1>5, <1>6, <1>7 DEF ParkingInv, ParkingType, Alone

LEMMA SpotSavedStep ==
    ASSUME ParkingInv, NEW w \in Workers, SpotSaved(w)
    PROVE  ParkingInv'
<1> DEFINE f == frame[w]
           g == IF f.notice = None THEN Idle ELSE [f EXCEPT !.op = "tell"]
<1>1. f \in SpotFrames /\ f # Idle /\ f.op = "spot"
  BY DEF ParkingInv, Framed, SpotSaved, Doing, Idle
<1>2. f.spot \in Spots /\ f.row \in SpotRow /\ f.row.known
  BY <1>1 DEF SpotFrames, ParkingInv, SpotSound
<1>3. spot' = [spot EXCEPT ![f.spot] = f.row] /\ told' = told /\ Goes(w, g)
  BY DEF SpotSaved, Ends
<1>4. g = Idle \/ (/\ g \in SpotFrames /\ g.op = "tell" /\ g.spot = f.spot /\ g.row = f.row
                   /\ g.member = f.member /\ g.notice = f.notice /\ f.notice # None)
  BY <1>1 DEF SpotFrames
<1>5. g = Idle => f.notice = None
  BY <1>1 DEF SpotFrames, Idle
<1> HIDE DEF g
<1>6. Framed(SpotFrames)' /\ Alone(w, g)
  BY <1>1, <1>3, <1>4, Moved DEF ParkingInv, Moves
<1>7. spot' \in [Spots -> SpotRow] /\ spot'[f.spot] = f.row
      /\ \A s \in Spots \ {f.spot} : spot'[s] = spot[s]
  BY <1>2, <1>3 DEF ParkingInv, ParkingType, SpotRow
<1>8. ParkingType' /\ \A s \in Spots : ~spot'[s].known => spot'[s].holder = None
  BY <1>2, <1>3, <1>7 DEF ParkingInv, ParkingType, SpotRow
<1>9. \A v \in Workers : SpotSound(frame'[v])
  BY <1>1, <1>4, <1>6 DEF ParkingInv, Alone, SpotSound
<1>10. ASSUME ~overlap, NEW v \in Workers
       PROVE  SpotGood(frame[v])'
  <2>1. SpotGood(f)
    BY <1>10 DEF ParkingInv
  <2>2. CASE v = w /\ g # Idle
    <3>1. frame'[v] = g
      BY <1>6, <2>2 DEF Alone
    <3> QED
      BY <1>1, <1>3, <1>4, <1>7, <2>1, <2>2, <3>1 DEF SpotGood
  <2>3. CASE v # w \/ g = Idle
    BY <1>6, <1>10, <2>3 DEF Alone, SpotGood, Idle
  <2> QED
    BY <2>2, <2>3
<1>11. ParkingKept'
  <2> SUFFICES ASSUME ~overlap, NEW s \in Spots
               PROVE  \/ told[s] \subseteq {spot'[s].holder}
                      \/ \E v \in Workers : Doing(v, "tell")' /\ frame'[v].spot = s
    BY <1>3, <1>6 DEF ParkingKept, SpotsToldTrue, Alone
  <2>1. told[s] \subseteq {spot[s].holder}
    <3>1. \A v \in Workers : frame[v].op # "tell"
      BY <1>1, <1>6 DEF Alone, Idle
    <3> QED
      BY <3>1 DEF ParkingInv, ParkingKept, SpotsToldTrue, Doing
  <2>2. CASE s # f.spot
    BY <1>7, <2>1, <2>2
  <2>3. CASE s = f.spot /\ g = Idle
    <3>1. f.row.holder = spot[s].holder
      BY <1>1, <1>5, <2>3 DEF ParkingInv, SpotGood
    <3> QED
      BY <1>7, <2>1, <2>3, <3>1
  <2>4. CASE s = f.spot /\ g # Idle
    BY <1>4, <1>6, <2>4 DEF Doing, Alone
  <2> QED
    BY <2>2, <2>3, <2>4
<1> QED
  BY <1>6, <1>8, <1>9, <1>10, <1>11 DEF ParkingInv, Alone

LEMMA MemberToldStep ==
    ASSUME ParkingInv, NEW w \in Workers, NEW stored \in BOOLEAN, MemberTold(w, stored)
    PROVE  ParkingInv'
<1> DEFINE f == frame[w]
<1>1. f \in SpotFrames /\ f # Idle /\ f.op = "tell"
  BY DEF ParkingInv, Framed, MemberTold, Doing, Idle
<1>2. f.spot \in Spots /\ f.member \in Drivers \cup {None}
      /\ f.notice \in {None, "assigned", "unassigned"}
  BY <1>1 DEF SpotFrames
<1>3. spot' = spot /\ Goes(w, Idle)
  BY DEF MemberTold, Ends
<1> DEFINE now == IF stored /\ f.notice = "assigned" THEN told[f.spot] \cup {f.member}
                                                    ELSE told[f.spot] \ {f.member}
<1>4. told' = [told EXCEPT ![f.spot] = now]
  BY DEF MemberTold
<1>5. Framed(SpotFrames)' /\ Alone(w, Idle)
  BY <1>1, <1>3, Moved DEF ParkingInv, Moves
<1>6. ~overlap => now \subseteq {spot[f.spot].holder}
  <2> SUFFICES ASSUME ~overlap
               PROVE  now \subseteq {spot[f.spot].holder}
    OBVIOUS
  <2>1. SpotGood(f)
    BY DEF ParkingInv
  <2>2. f.notice # None /\ spot[f.spot].holder = f.row.holder
    BY <1>1, <2>1 DEF SpotGood
  <2>3. CASE f.notice = "assigned"
    BY <1>1, <2>1, <2>2, <2>3 DEF SpotGood
  <2>4. CASE f.notice = "unassigned"
    BY <1>1, <2>1, <2>4 DEF SpotGood
  <2> QED
    BY <1>2, <2>2, <2>3, <2>4
<1>7. now \subseteq Drivers
  <2>1. told[f.spot] \subseteq Drivers
    BY <1>2 DEF ParkingInv, ParkingType
  <2>2. f.notice = "assigned" => f.member \in Drivers
    BY <1>1 DEF ParkingInv, SpotSound
  <2> QED
    BY <2>1, <2>2
<1> HIDE DEF now
<1>8. told' \in [Spots -> SUBSET Drivers] /\ told'[f.spot] = now
      /\ \A s \in Spots \ {f.spot} : told'[s] = told[s]
  BY <1>2, <1>4, <1>7 DEF ParkingInv, ParkingType
<1>9. \A v \in Workers : SpotSound(frame'[v])
  BY <1>5 DEF ParkingInv, Alone, SpotSound
<1>10. ASSUME ~overlap, NEW v \in Workers
       PROVE  SpotGood(frame[v])'
  BY <1>5, <1>10 DEF Alone, SpotGood, Idle
<1>11. ParkingKept'
  <2> SUFFICES ASSUME ~overlap, NEW s \in Spots
               PROVE  told'[s] \subseteq {spot[s].holder}
    BY <1>3, <1>5 DEF ParkingKept, SpotsToldTrue, Alone
  <2>1. CASE s = f.spot
    BY <1>6, <1>8, <2>1
  <2>2. CASE s # f.spot
    <3>1. \A v \in Workers \ {w} : frame[v].op # "tell"
      BY <1>5 DEF Alone, Idle
    <3> QED
      BY <1>8, <2>2, <3>1 DEF ParkingInv, ParkingKept, SpotsToldTrue, Doing
  <2> QED
    BY <2>1, <2>2
<1> QED
  BY <1>3, <1>5, <1>8, <1>9, <1>10, <1>11 DEF ParkingInv, ParkingType, Alone

LEMMA ParkingStep ==
    ASSUME ParkingInv, [ParkingNext]_parkingVars
    PROVE  ParkingInv'
<1>1. ASSUME NEW w \in Workers, NEW s \in Spots, NEW active \in BOOLEAN,
             createSpot(w, s, active) \/ updateSpot(w, s, active)
      PROVE  ParkingInv'
  <2>1. CASE createSpot(w, s, active)
    <3> DEFINE row == [known |-> TRUE, active |-> active, holder |-> None]
    <3>1. row \in SpotRow /\ row.known /\ row.holder = spot[s].holder
      BY <2>1 DEF SpotRow, createSpot, ParkingInv
    <3>2. SpotRequest(w, s, row, None, None)
      BY <2>1 DEF createSpot
    <3> HIDE DEF row
    <3> QED
      BY <3>1, <3>2, SpotRequestStep DEF None
  <2>2. CASE updateSpot(w, s, active)
    <3> DEFINE row == [spot[s] EXCEPT !.active = active]
    <3>1. row \in SpotRow /\ row.known /\ row.holder = spot[s].holder
      BY <2>2 DEF SpotRow, updateSpot, ParkingInv, ParkingType
    <3>2. SpotRequest(w, s, row, None, None)
      BY <2>2 DEF updateSpot
    <3> HIDE DEF row
    <3> QED
      BY <3>1, <3>2, SpotRequestStep DEF None
  <2> QED
    BY <1>1, <2>1, <2>2
<1>2. ASSUME NEW w \in Workers, NEW s \in Spots, NEW d \in Drivers, assignSpot(w, s, d)
      PROVE  ParkingInv'
  <2> DEFINE row == [spot[s] EXCEPT !.holder = d]
  <2>1. row \in SpotRow /\ row.known /\ row.holder = d /\ spot[s].holder = None
    BY <1>2 DEF SpotRow, assignSpot, ParkingInv, ParkingType
  <2>2. SpotRequest(w, s, row, d, "assigned")
    BY <1>2 DEF assignSpot
  <2>3. ~overlap => told[s] = {}
    <3> SUFFICES ASSUME ~overlap
                 PROVE  told[s] = {}
      OBVIOUS
    <3>1. \A v \in Workers : frame[v] = Idle
      BY <2>2 DEF SpotRequest, Start
    <3>2. told[s] \subseteq {None} /\ told[s] \subseteq Drivers
      BY <2>1, <3>1 DEF ParkingInv, ParkingType, ParkingKept, SpotsToldTrue, Doing, Idle
    <3> QED
      BY <3>2, ParkingAssumption
  <2> HIDE DEF row
  <2> QED
    BY <2>1, <2>2, <2>3, SpotRequestStep DEF None
<1>3. ASSUME NEW w \in Workers, NEW s \in Spots, unassignSpot(w, s)
      PROVE  ParkingInv'
  <2>1. PICK holder \in {None, spot[s].holder} :
          SpotRequest(w, s, [spot[s] EXCEPT !.holder = holder], spot[s].holder,
                      IF spot[s].holder = None THEN None ELSE "unassigned")
    BY <1>3 DEF unassignSpot
  <2> DEFINE row == [spot[s] EXCEPT !.holder = holder]
             notice == IF spot[s].holder = None THEN None ELSE "unassigned"
  <2>2. row \in SpotRow /\ row.known /\ row.holder = holder
        /\ spot[s].holder \in Drivers \cup {None}
    BY <1>3 DEF SpotRow, unassignSpot, ParkingInv, ParkingType
  <2>3. ~overlap => told[s] \subseteq {spot[s].holder}
    <3> SUFFICES ASSUME ~overlap
                 PROVE  told[s] \subseteq {spot[s].holder}
      OBVIOUS
    <3>1. \A v \in Workers : frame[v] = Idle
      BY <2>1 DEF SpotRequest, Start
    <3> QED
      BY <3>1 DEF ParkingInv, ParkingKept, SpotsToldTrue, Doing, Idle
  <2>4. /\ notice \in {None, "unassigned"} /\ notice # "assigned"
        /\ notice = None => holder = spot[s].holder
    BY DEF None
  <2>5. SpotRequest(w, s, row, spot[s].holder, notice)
    BY <2>1
  <2> HIDE DEF row, notice
  <2> QED
    BY <2>2, <2>3, <2>4, <2>5, SpotRequestStep
<1>4. ASSUME NEW w \in Workers, SpotRequestFails(w)
      PROVE  ParkingInv'
  <2>1. frame[w] # Idle /\ Goes(w, Idle) /\ UNCHANGED <<spot, told>>
    BY <1>4 DEF SpotRequestFails, Fails, Ends, PK_rows
  <2>2. Framed(SpotFrames)' /\ Alone(w, Idle)
    BY <2>1, Moved DEF ParkingInv, Moves
  <2>3. \A v \in Workers : SpotSound(frame'[v])
    BY <2>2 DEF ParkingInv, Alone, SpotSound
  <2>4. ASSUME ~overlap, NEW v \in Workers
        PROVE  SpotGood(frame[v])'
    BY <2>2, <2>4 DEF Alone, SpotGood, Idle
  <2>5. ParkingKept'
    <3> SUFFICES ASSUME ~overlap, NEW s \in Spots
                 PROVE  told[s] \subseteq {spot[s].holder}
      BY <2>1, <2>2 DEF ParkingKept, SpotsToldTrue, Alone
    <3>1. \A v \in Workers : frame[v].op # "tell"
      BY <1>4, <2>2 DEF SpotRequestFails, Doing, Alone, Idle
    <3> QED
      BY <3>1 DEF ParkingInv, ParkingKept, SpotsToldTrue, Doing
  <2> QED
    BY <2>1, <2>2, <2>3, <2>4, <2>5 DEF ParkingInv, ParkingType, Alone
<1>5. CASE UNCHANGED parkingVars
  <2>1. UNCHANGED <<overlap, frame, spot, told>>
    BY <1>5 DEF parkingVars, PK_rows, requests
  <2>2. Framed(SpotFrames)'
    BY <2>1, Unmoved DEF ParkingInv, requests
  <2> QED
    BY <2>1, <2>2 DEF ParkingInv, ParkingType, SpotSound, SpotGood, ParkingKept, SpotsToldTrue,
                      Doing
<1> QED
  BY <1>1, <1>2, <1>3, <1>4, <1>5, SpotSavedStep, MemberToldStep DEF ParkingNext

LEMMA ParkingEmpty == ParkingInit => ParkingKept /\ ParkingType
BY DEF ParkingInit, ParkingType, ParkingKept, SpotsToldTrue, None

LEMMA ParkingStart == RequestsInit /\ ParkingInit => ParkingInv
<1> SUFFICES ASSUME RequestsInit, ParkingInit
             PROVE  ParkingInv
  OBVIOUS
<1>1. Framed(SpotFrames) /\ \A w \in Workers : frame[w] = Idle
  BY AllIdle
<1>2. ParkingType /\ ParkingKept
  BY ParkingEmpty
<1> QED
  BY <1>1, <1>2 DEF ParkingInv, ParkingInit, SpotSound, SpotGood, Idle

\* Members are told of a spot what its row says, for any spots, members and failures
\* (parking.service.ts assign, unassign).
THEOREM ParkingIsKept == ParkingSpec => []ParkingKept
<1>1. ParkingInv /\ [ParkingNext]_parkingVars => ParkingInv'
  BY ParkingStep
<1>2. ParkingInv => ParkingKept
  BY DEF ParkingInv
<1> QED
  BY <1>1, <1>2, ParkingStart, PTL DEF ParkingSpec

-----------------------------------------------------------------------------
(* Visitors.                                                               *)

VisitFrames == [op : {"visit", "arrived"}, visit : Visits, status : VisitStatus]

Follows(from, to) ==
    \/ from = "none" /\ to = "EXPECTED"
    \/ from = "EXPECTED" /\ to \in {"CHECKED_IN", "CANCELLED"}
    \/ from = "CHECKED_IN" /\ to = "CHECKED_OUT"

\* The status to be saved follows the one in the row, and who is announced is there.
VisitGood(f) ==
    /\ f.op = "visit" => Follows(visit[f.visit], f.status)
    /\ f.op = "arrived" => visit[f.visit] = "CHECKED_IN"

VisitorsInv ==
    /\ Framed(VisitFrames)
    /\ VisitorsType
    /\ ~overlap => (\A w \in Workers : VisitGood(frame[w]))
    /\ VisitorsKept

LEMMA VisitRequestStep ==
    ASSUME VisitorsInv, NEW w \in Workers, NEW v \in Visits, NEW from \in VisitStatus,
           NEW to \in VisitStatus, VisitRequest(w, v, from, to), Follows(from, to)
    PROVE  VisitorsInv'
<1> DEFINE f == [op |-> "visit", visit |-> v, status |-> to]
<1>1. f \in VisitFrames /\ f.op = "visit" /\ f.visit = v /\ f.status = to
  BY DEF VisitFrames
<1>2. Start(w, f) /\ UNCHANGED <<visit, announced>> /\ visit[v] = from
  BY DEF VisitRequest, VS_rows
<1> HIDE DEF f
<1>3. Framed(VisitFrames)' /\ Alone(w, f)
  BY <1>1, <1>2, Moved DEF VisitorsInv, Moves
<1>4. ASSUME ~overlap, NEW x \in Workers
      PROVE  VisitGood(frame[x])'
  <2>1. CASE x = w
    BY <1>1, <1>2, <1>3, <2>1 DEF Alone, VisitGood
  <2>2. CASE x # w
    BY <1>3, <1>4, <2>2 DEF Alone, VisitGood, Idle
  <2> QED
    BY <2>1, <2>2
<1> QED
  BY <1>2, <1>3, <1>4 DEF VisitorsInv, VisitorsType, VisitorsKept, HostsToldTrue, Alone

LEMMA VisitSavedStep ==
    ASSUME VisitorsInv, NEW w \in Workers, VisitSaved(w)
    PROVE  VisitorsInv'
<1> DEFINE f == frame[w]
           g == IF f.status = "CHECKED_IN" THEN [f EXCEPT !.op = "arrived"] ELSE Idle
<1>1. f \in VisitFrames /\ f # Idle /\ f.op = "visit"
  BY DEF VisitorsInv, Framed, VisitSaved, Doing, Idle
<1>2. f.visit \in Visits /\ f.status \in VisitStatus
  BY <1>1 DEF VisitFrames
<1>3. visit' = [visit EXCEPT ![f.visit] = f.status] /\ announced' = announced /\ Goes(w, g)
  BY DEF VisitSaved, Ends
<1>4. g = Idle \/ (/\ g \in VisitFrames /\ g.op = "arrived" /\ g.visit = f.visit
                   /\ f.status = "CHECKED_IN")
  BY <1>1 DEF VisitFrames
<1> HIDE DEF g
<1>5. Framed(VisitFrames)' /\ Alone(w, g)
  BY <1>1, <1>3, <1>4, Moved DEF VisitorsInv, Moves
<1>6. visit' \in [Visits -> VisitStatus] /\ visit'[f.visit] = f.status
      /\ \A v \in Visits \ {f.visit} : visit'[v] = visit[v]
  BY <1>2, <1>3 DEF VisitorsInv, VisitorsType
<1>7. ASSUME ~overlap, NEW x \in Workers
      PROVE  VisitGood(frame[x])'
  BY <1>4, <1>5, <1>6, <1>7 DEF Alone, VisitGood, Idle
<1>8. VisitorsKept'
  <2> SUFFICES ASSUME ~overlap, NEW v \in announced
               PROVE  visit'[v] \in {"CHECKED_IN", "CHECKED_OUT"}
    BY <1>3, <1>5 DEF VisitorsKept, HostsToldTrue, Alone
  <2>1. visit[v] \in {"CHECKED_IN", "CHECKED_OUT"} /\ v \in Visits
    BY DEF VisitorsInv, VisitorsKept, VisitorsType, HostsToldTrue
  <2>2. Follows(visit[f.visit], f.status)
    BY <1>1 DEF VisitorsInv, VisitGood
  <2> QED
    BY <1>6, <2>1, <2>2 DEF Follows
<1> QED
  BY <1>3, <1>5, <1>6, <1>7, <1>8 DEF VisitorsInv, VisitorsType, Alone

LEMMA VisitorsStep ==
    ASSUME VisitorsInv, [VisitorsNext]_visitorVars
    PROVE  VisitorsInv'
<1>1. ASSUME NEW w \in Workers, NEW v \in Visits,
             \/ announceVisit(w, v) \/ checkInVisitor(w, v)
             \/ checkOutVisitor(w, v) \/ cancelVisit(w, v)
      PROVE  VisitorsInv'
  BY <1>1, VisitRequestStep
     DEF announceVisit, checkInVisitor, checkOutVisitor, cancelVisit, Follows, VisitStatus
<1>2. ASSUME NEW w \in Workers, HostTold(w) \/ (Fails(w) /\ UNCHANGED VS_rows)
      PROVE  VisitorsInv'
  <2>1. frame[w] # Idle /\ Goes(w, Idle) /\ visit' = visit
    BY <1>2 DEF HostTold, Fails, Ends, VS_rows, Doing, Idle
  <2>2. Framed(VisitFrames)' /\ Alone(w, Idle)
    BY <2>1, Moved DEF VisitorsInv, Moves
  <2>3. ASSUME ~overlap, NEW x \in Workers
        PROVE  VisitGood(frame[x])'
    BY <2>2, <2>3 DEF Alone, VisitGood, Idle
  <2>4. CASE HostTold(w)
    <3>1. frame[w] \in VisitFrames /\ frame[w].op = "arrived"
          /\ announced' = announced \cup {frame[w].visit}
      BY <2>1, <2>4 DEF VisitorsInv, Framed, HostTold, Doing
    <3>2. frame[w].visit \in Visits
      BY <3>1 DEF VisitFrames
    <3>3. VisitorsKept'
      BY <2>1, <2>2, <3>1 DEF VisitorsInv, VisitGood, VisitorsKept, HostsToldTrue, Alone
    <3> QED
      BY <2>1, <2>2, <2>3, <3>1, <3>2, <3>3 DEF VisitorsInv, VisitorsType, Alone
  <2>5. CASE UNCHANGED VS_rows
    BY <2>2, <2>3, <2>5
       DEF VS_rows, VisitorsInv, VisitorsType, VisitorsKept, HostsToldTrue, Alone
  <2> QED
    BY <1>2, <2>4, <2>5
<1>3. CASE UNCHANGED visitorVars
  <2>1. UNCHANGED <<overlap, frame, visit, announced>>
    BY <1>3 DEF visitorVars, VS_rows, requests
  <2>2. Framed(VisitFrames)'
    BY <2>1, Unmoved DEF VisitorsInv, requests
  <2> QED
    BY <2>1, <2>2 DEF VisitorsInv, VisitorsType, VisitGood, VisitorsKept, HostsToldTrue
<1> QED
  BY <1>1, <1>2, <1>3, VisitSavedStep DEF VisitorsNext

LEMMA VisitorsEmpty == VisitorsInit => VisitorsKept /\ VisitorsType
BY DEF VisitorsInit, VisitorsType, VisitStatus, VisitorsKept, HostsToldTrue

LEMMA VisitorsStart == RequestsInit /\ VisitorsInit => VisitorsInv
<1> SUFFICES ASSUME RequestsInit, VisitorsInit
             PROVE  VisitorsInv
  OBVIOUS
<1>1. Framed(VisitFrames) /\ \A w \in Workers : frame[w] = Idle
  BY AllIdle
<1> QED
  BY <1>1, VisitorsEmpty DEF VisitorsInv, VisitGood, Idle

\* A host is told only of visitors who came, and no visit a host was told of is called
\* off afterwards (visitors.service.ts checkIn, cancel).
THEOREM VisitorsAreKept == VisitorsSpec => []VisitorsKept
<1>1. VisitorsInv /\ [VisitorsNext]_visitorVars => VisitorsInv'
  BY VisitorsStep
<1>2. VisitorsInv => VisitorsKept
  BY DEF VisitorsInv
<1> QED
  BY <1>1, <1>2, VisitorsStart, PTL DEF VisitorsSpec

-----------------------------------------------------------------------------
(* The newsletter.  What it promises needs nothing of overlaps: a request   *)
(* to confirm carries a row that gets mail, any other one that does not.    *)

ReaderFrames == [op : {"reader"}, email : Readers,
                 asks : {"subscribe", "confirm", "unsubscribe"}, row : Reader,
                 insert : BOOLEAN]

ReaderGood(f) ==
    f # Idle =>
        /\ f.asks # "unsubscribe" => f.row.known
        /\ f.asks = "subscribe" => ~f.row.active
        /\ f.asks = "confirm" => f.row.active /\ f.row.verified /\ ~f.row.deleted

\* A token to confirm with is in no row that is not there.
NewsletterInv ==
    /\ Framed(ReaderFrames)
    /\ NewsletterType
    /\ \A w \in Workers : ReaderGood(frame[w])
    /\ \A e \in Readers : ~reader[e].known => reader[e].confirm = NoToken
    /\ MailsWanted

LEMMA ReaderRequestStep ==
    ASSUME NewsletterInv, NEW w \in Workers, NEW e \in Readers,
           NEW asks \in {"subscribe", "confirm", "unsubscribe"}, NEW row \in Reader,
           ReaderRequest(w, e, asks, row), made' \in 0..MaxTokens,
           asks # "unsubscribe" => row.known, asks = "subscribe" => ~row.active,
           asks = "confirm" => row.active /\ row.verified /\ ~row.deleted
    PROVE  NewsletterInv'
<1> DEFINE f == [op |-> "reader", email |-> e, asks |-> asks, row |-> row,
                 insert |-> ~reader[e].known]
<1>1. f \in ReaderFrames /\ f.asks = asks /\ f.row = row
  BY DEF ReaderFrames
<1>2. Start(w, f) /\ UNCHANGED <<reader, stale, asked>>
  BY DEF ReaderRequest
<1> HIDE DEF f
<1>3. Framed(ReaderFrames)' /\ Alone(w, f)
  BY <1>1, <1>2, Moved DEF NewsletterInv, Moves
<1>4. \A v \in Workers : ReaderGood(frame'[v])
  BY <1>1, <1>3 DEF NewsletterInv, Alone, ReaderGood
<1> QED
  BY <1>2, <1>3, <1>4 DEF NewsletterInv, NewsletterType, MailsWanted, Mailed

LEMMA ReaderSavedStep ==
    ASSUME NewsletterInv, NEW w \in Workers, ReaderSaved(w)
    PROVE  NewsletterInv'
<1> DEFINE f == frame[w]
           new == IF f.asks = "unsubscribe" THEN [reader[f.email] EXCEPT !.deleted = TRUE]
                                            ELSE f.row
<1>1. f \in ReaderFrames /\ f # Idle
  BY DEF NewsletterInv, Framed, ReaderSaved, Doing, Idle
<1>2. f.email \in Readers /\ f.row \in Reader
      /\ f.asks \in {"subscribe", "confirm", "unsubscribe"}
  BY <1>1 DEF ReaderFrames
<1>3. reader' = [reader EXCEPT ![f.email] = new]
      /\ asked' = [asked EXCEPT ![f.email] = f.asks]
      /\ UNCHANGED <<made, stale>> /\ Goes(w, Idle)
  BY DEF ReaderSaved, Ends
<1>4. reader[f.email] \in Reader
  BY <1>2 DEF NewsletterInv, NewsletterType
<1>5. new \in Reader
      /\ ((new.known /\ new.active /\ new.verified /\ ~new.deleted) <=> f.asks = "confirm")
  BY <1>1, <1>2, <1>4 DEF Reader, NewsletterInv, ReaderGood
<1>6. ~new.known => new.confirm = NoToken
  BY <1>1, <1>2, <1>4 DEF Reader, NewsletterInv, ReaderGood
<1> HIDE DEF new
<1>7. Framed(ReaderFrames)' /\ Alone(w, Idle)
  BY <1>1, <1>3, Moved DEF NewsletterInv, Moves
<1>8. reader' \in [Readers -> Reader] /\ reader'[f.email] = new
      /\ \A e \in Readers \ {f.email} : reader'[e] = reader[e]
  BY <1>2, <1>3, <1>5 DEF NewsletterInv, NewsletterType
<1>9. asked' \in [Readers -> {"none", "subscribe", "confirm", "unsubscribe"}]
      /\ asked'[f.email] = f.asks
      /\ \A e \in Readers \ {f.email} : asked'[e] = asked[e]
  BY <1>2, <1>3 DEF NewsletterInv, NewsletterType
<1>10. NewsletterType'
  BY <1>3, <1>8, <1>9 DEF NewsletterInv, NewsletterType
<1>11. \A v \in Workers : ReaderGood(frame'[v])
  BY <1>7 DEF NewsletterInv, Alone, ReaderGood
<1>12. MailsWanted'
  BY <1>5, <1>8, <1>9 DEF NewsletterInv, MailsWanted, Mailed
<1> QED
  BY <1>6, <1>7, <1>8, <1>10, <1>11, <1>12 DEF NewsletterInv

LEMMA NewsletterStep ==
    ASSUME NewsletterInv, [NewsletterNext]_newsletterVars
    PROVE  NewsletterInv'
<1>0. reader \in [Readers -> Reader] /\ made \in 0..MaxTokens /\ MaxTokens \in Nat
  BY NewsletterAssumption DEF NewsletterInv, NewsletterType
<1>1. ASSUME NEW w \in Workers, NEW e \in Readers, subscribeReader(w, e)
      PROVE  NewsletterInv'
  <2> DEFINE row == [known |-> TRUE, active |-> FALSE, verified |-> FALSE,
                     deleted |-> FALSE, confirm |-> made', leave |-> made']
  <2>1. made' \in Pairs
    BY <1>0, <1>1 DEF subscribeReader, Pairs
  <2>2. row \in Reader /\ row.known /\ ~row.active
    BY <2>1 DEF Reader
  <2>3. ReaderRequest(w, e, "subscribe", row) /\ made' \in 0..MaxTokens
    BY <1>1, <2>1 DEF subscribeReader, Pairs
  <2> HIDE DEF row
  <2> QED
    BY <2>2, <2>3, ReaderRequestStep
<1>2. ASSUME NEW w \in Workers, NEW e \in Readers, NEW pair \in Pairs,
             confirmReader(w, e, pair)
      PROVE  NewsletterInv'
  <2> DEFINE row == [reader[e] EXCEPT !.active = TRUE, !.verified = TRUE,
                                      !.confirm = NoToken]
  <2>1. reader[e].known /\ ~reader[e].deleted
    BY <1>2 DEF confirmReader, NewsletterInv
  <2>2. row \in Reader /\ row.known /\ row.active /\ row.verified /\ ~row.deleted
    BY <1>0, <2>1 DEF Reader
  <2>3. ReaderRequest(w, e, "confirm", row) /\ made' \in 0..MaxTokens
    BY <1>0, <1>2 DEF confirmReader
  <2> HIDE DEF row
  <2> QED
    BY <2>2, <2>3, ReaderRequestStep
<1>3. ASSUME NEW w \in Workers, NEW e \in Readers, NEW pair \in Pairs,
             unsubscribeReader(w, e, pair)
      PROVE  NewsletterInv'
  <2>1. ReaderRequest(w, e, "unsubscribe", reader[e]) /\ made' \in 0..MaxTokens
        /\ reader[e] \in Reader
    BY <1>0, <1>3 DEF unsubscribeReader
  <2> QED
    BY <2>1, ReaderRequestStep
<1>4. ASSUME NEW w \in Workers, Fails(w), UNCHANGED NL_rows
      PROVE  NewsletterInv'
  <2>1. frame[w] # Idle /\ Goes(w, Idle) /\ UNCHANGED <<reader, made, stale, asked>>
    BY <1>4 DEF Fails, Ends, NL_rows
  <2>2. Framed(ReaderFrames)' /\ Alone(w, Idle)
    BY <2>1, Moved DEF NewsletterInv, Moves
  <2>3. \A v \in Workers : ReaderGood(frame'[v])
    BY <2>2 DEF NewsletterInv, Alone, ReaderGood
  <2> QED
    BY <2>1, <2>2, <2>3 DEF NewsletterInv, NewsletterType, MailsWanted, Mailed
<1>5. ASSUME NEW pair \in Pairs, PairLapses(pair)
      PROVE  NewsletterInv'
  <2>1. UNCHANGED <<requests, frame, reader, made, asked>> /\ stale' \subseteq Pairs
    BY <1>5 DEF PairLapses, NewsletterInv, NewsletterType, requests
  <2>2. Framed(ReaderFrames)'
    BY <2>1, Unmoved DEF NewsletterInv
  <2> QED
    BY <2>1, <2>2 DEF NewsletterInv, NewsletterType, MailsWanted, Mailed, ReaderGood
<1>6. CASE UNCHANGED newsletterVars
  <2>1. UNCHANGED <<requests, frame, reader, made, stale, asked>>
    BY <1>6 DEF newsletterVars, NL_rows, requests
  <2>2. Framed(ReaderFrames)'
    BY <2>1, Unmoved DEF NewsletterInv
  <2> QED
    BY <2>1, <2>2 DEF NewsletterInv, NewsletterType, MailsWanted, Mailed, ReaderGood
<1> QED
  BY <1>1, <1>2, <1>3, <1>4, <1>5, <1>6, ReaderSavedStep DEF NewsletterNext

LEMMA NewsletterEmpty == NewsletterInit => NewsletterKept /\ NewsletterType
BY NewsletterAssumption
   DEF NewsletterInit, NewsletterType, NoReader, Reader, NoToken, NewsletterKept, MailsWanted,
       Mailed

LEMMA NewsletterStart == RequestsInit /\ NewsletterInit => NewsletterInv
<1> SUFFICES ASSUME RequestsInit, NewsletterInit
             PROVE  NewsletterInv
  OBVIOUS
<1>1. Framed(ReaderFrames) /\ \A w \in Workers : frame[w] = Idle
  BY AllIdle
<1>2. MailsWanted /\ \A e \in Readers : reader[e].confirm = NoToken
  BY DEF NewsletterInit, MailsWanted, Mailed, NoReader
<1> QED
  BY <1>1, <1>2, NewsletterEmpty DEF NewsletterInv, ReaderGood

\* Mail goes exactly to those whose last saved request asked for it, whatever old links
\* are used (subscription.provider.ts confirm, unsubscribe).
THEOREM NewsletterIsKept == NewsletterSpec => []NewsletterKept
<1>1. NewsletterInv /\ [NewsletterNext]_newsletterVars => NewsletterInv'
  BY NewsletterStep
<1>2. NewsletterInv => NewsletterKept
  BY DEF NewsletterInv, NewsletterKept
<1> QED
  BY <1>1, <1>2, NewsletterStart, PTL DEF NewsletterSpec

-----------------------------------------------------------------------------
(* Leads.                                                                  *)

LeadRow == [stage : Stages, activities : Seq(Activities)]
LeadFrames == [op : {"lead"}, email : Contacts, insert : BOOLEAN, activity : Activities,
               row : LeadRow]

\* What CreatedOnce and WonIsLogged say, of one row.
Logged(row) ==
    /\ {i \in DOMAIN row.activities : row.activities[i] = "created"} = {1}
    /\ row.stage = "WON" => \E i \in DOMAIN row.activities :
                               row.activities[i] \in {"won", "stage_changed"}

LeadGood(f) == f.op = "lead" => f.row.activities = Append(lead[f.email].activities, f.activity)

LeadsInv ==
    /\ Framed(LeadFrames)
    /\ lead \in [Contacts -> LeadRow \cup {NoLead}]
    /\ happened \in [Contacts -> Seq(Activities)]
    /\ \A e \in Contacts : Known(e) => Logged(lead[e])
    /\ \A w \in Workers : frame[w] # Idle => Logged(frame[w].row)
    /\ ~overlap => (\A w \in Workers : LeadGood(frame[w])) /\ ActivitiesKept

\* One more activity in the log leaves what was there.
LEMMA LogGrows ==
    ASSUME NEW row \in LeadRow, Logged(row), NEW stage \in Stages,
           NEW activity \in Activities \ {"created"},
           stage = "WON" => row.stage = "WON" \/ activity \in {"won", "stage_changed"}
    PROVE  Logged([stage |-> stage, activities |-> Append(row.activities, activity)])
<1> DEFINE s == row.activities
           t == Append(s, activity)
           n == Len(s) + 1
<1>1. s \in Seq(Activities)
  BY DEF LeadRow
<1>2. DOMAIN t = DOMAIN s \cup {n} /\ n \notin DOMAIN s /\ t[n] = activity
      /\ \A i \in DOMAIN s : t[i] = s[i]
  BY <1>1
<1>3. {i \in DOMAIN s : s[i] = "created"} = {1}
  BY DEF Logged
<1> HIDE DEF t, n
<1>4. {i \in DOMAIN t : t[i] = "created"} = {1}
  BY <1>2, <1>3
<1>5. stage = "WON" => \E i \in DOMAIN t : t[i] \in {"won", "stage_changed"}
  <2>1. CASE activity \in {"won", "stage_changed"}
    BY <1>2, <2>1
  <2>2. CASE row.stage = "WON"
    <3>1. PICK i \in DOMAIN s : s[i] \in {"won", "stage_changed"}
      BY <2>2 DEF Logged
    <3> QED
      BY <1>2, <3>1
  <2> QED
    BY <2>1, <2>2
<1> QED
  BY <1>4, <1>5 DEF Logged, t

LEMMA LogBegins == Logged([stage |-> "NEW", activities |-> Append(<< >>, "created")])
<1> DEFINE t == Append(<< >>, "created")
<1>1. DOMAIN t = {1} /\ t[1] = "created"
  OBVIOUS
<1> HIDE DEF t
<1>2. {i \in DOMAIN t : t[i] = "created"} = {1}
  BY <1>1
<1> QED
  BY <1>2 DEF Logged, t

LEMMA LeadFields ==
    ASSUME LeadsInv, NEW e \in Contacts
    PROVE  /\ lead[e].stage \in Stages \cup {"none"}
           /\ lead[e].activities \in Seq(Activities)
           /\ ~Known(e) => lead[e].stage = "none"
<1>1. lead[e] \in LeadRow \/ lead[e] = NoLead
  BY DEF LeadsInv
<1>2. NoLead.stage = "none" /\ NoLead.activities = << >>
  BY DEF NoLead
<1>3. << >> \in Seq(Activities)
  OBVIOUS
<1>4. CASE lead[e] \in LeadRow
  BY <1>4, <1>2 DEF LeadRow, Known
<1>5. CASE lead[e] = NoLead
  BY <1>5, <1>2, <1>3
<1> QED
  BY <1>1, <1>4, <1>5

LEMMA LeadRequestStep ==
    ASSUME LeadsInv, NEW w \in Workers, NEW e \in Contacts, NEW stage \in Stages,
           NEW activity \in Activities, LeadRequest(w, e, stage, activity),
           Logged([stage |-> stage, activities |-> Append(lead[e].activities, activity)])
    PROVE  LeadsInv'
<1> DEFINE row == [stage |-> stage, activities |-> Append(lead[e].activities, activity)]
           f == [op |-> "lead", email |-> e, insert |-> ~Known(e), activity |-> activity,
                 row |-> row]
<1>1. lead[e].activities \in Seq(Activities)
  BY LeadFields
<1>2. row \in LeadRow /\ row.activities = Append(lead[e].activities, activity)
  BY <1>1 DEF LeadRow
<1>3. Logged(row)
  OBVIOUS
<1>4. Start(w, f) /\ UNCHANGED <<lead, happened>>
  BY DEF LeadRequest, LD_rows
<1> HIDE DEF row
<1>5. f \in LeadFrames /\ f.op = "lead" /\ f.email = e /\ f.row = row
      /\ f.activity = activity
  BY <1>2 DEF LeadFrames
<1> HIDE DEF f
<1>6. Framed(LeadFrames)' /\ Alone(w, f)
  BY <1>4, <1>5, Moved DEF LeadsInv, Moves
<1>7. \A v \in Workers : frame'[v] # Idle => Logged(frame'[v].row)
  BY <1>3, <1>5, <1>6 DEF LeadsInv, Alone
<1>8. ASSUME ~overlap, NEW v \in Workers
      PROVE  LeadGood(frame[v])'
  <2>1. CASE v = w
    BY <1>2, <1>4, <1>5, <1>6, <2>1 DEF Alone, LeadGood
  <2>2. CASE v # w
    BY <1>6, <1>8, <2>2 DEF Alone, LeadGood, Idle
  <2> QED
    BY <2>1, <2>2
<1>9. (\A x \in Contacts : Known(x) => Logged(lead[x]))' /\ (~overlap => ActivitiesKept')
  BY <1>4 DEF LeadsInv, Known, ActivitiesKept
<1> QED
  BY <1>4, <1>6, <1>7, <1>8, <1>9 DEF LeadsInv, Alone

LEMMA LeadSavedStep ==
    ASSUME LeadsInv, NEW w \in Workers, LeadSaved(w)
    PROVE  LeadsInv'
<1> DEFINE f == frame[w]
<1>1. f \in LeadFrames /\ f # Idle /\ f.op = "lead"
  BY DEF LeadsInv, Framed, LeadSaved, Doing, Idle
<1>2. f.email \in Contacts /\ f.row \in LeadRow /\ f.activity \in Activities /\ Logged(f.row)
  BY <1>1 DEF LeadFrames, LeadsInv
<1>3. Goes(w, Idle)
  BY DEF LeadSaved, Ends
<1>4. Framed(LeadFrames)' /\ Alone(w, Idle)
  BY <1>1, <1>3, Moved DEF LeadsInv, Moves
<1>5. \A v \in Workers : frame'[v] # Idle => Logged(frame'[v].row)
  BY <1>4 DEF LeadsInv, Alone
<1>6. ~overlap => \A v \in Workers : LeadGood(frame[v])'
  BY <1>4 DEF Alone, LeadGood, Idle
<1>7. CASE UNCHANGED LD_rows
  BY <1>4, <1>5, <1>6, <1>7 DEF LD_rows, LeadsInv, Known, ActivitiesKept, Alone
<1>8. CASE /\ lead' = [lead EXCEPT ![f.email] = f.row]
           /\ happened' = [happened EXCEPT ![f.email] = Append(@, f.activity)]
  <2>1. lead' \in [Contacts -> LeadRow \cup {NoLead}] /\ lead'[f.email] = f.row
        /\ \A x \in Contacts \ {f.email} : lead'[x] = lead[x]
    BY <1>2, <1>8 DEF LeadsInv
  <2>2. Append(happened[f.email], f.activity) \in Seq(Activities)
    BY <1>2 DEF LeadsInv
  <2>3. happened' \in [Contacts -> Seq(Activities)]
        /\ happened'[f.email] = Append(happened[f.email], f.activity)
        /\ \A x \in Contacts \ {f.email} : happened'[x] = happened[x]
    BY <1>2, <1>8, <2>2 DEF LeadsInv
  <2>4. ~overlap => ActivitiesKept'
    <3> SUFFICES ASSUME ~overlap, NEW x \in Contacts
                 PROVE  lead'[x].activities = happened'[x]
      BY DEF ActivitiesKept
    <3>1. lead[x].activities = happened[x]
      BY DEF LeadsInv, ActivitiesKept
    <3>2. f.row.activities = Append(lead[f.email].activities, f.activity)
      BY <1>1 DEF LeadsInv, LeadGood
    <3>3. CASE x = f.email
      BY <2>1, <2>3, <3>1, <3>2, <3>3
    <3>4. CASE x # f.email
      BY <2>1, <2>3, <3>1, <3>4
    <3> QED
      BY <3>3, <3>4
  <2>5. \A x \in Contacts : Known(x)' => Logged(lead'[x])
    BY <1>2, <2>1 DEF LeadsInv, Known
  <2> QED
    BY <1>4, <1>5, <1>6, <2>1, <2>3, <2>4, <2>5 DEF LeadsInv, Alone
<1> QED
  BY <1>7, <1>8 DEF LeadSaved

LEMMA LeadsStep ==
    ASSUME LeadsInv, [LeadsNext]_leadVars
    PROVE  LeadsInv'
<1>1. ASSUME NEW e \in Contacts, Known(e)
      PROVE  lead[e] \in LeadRow /\ Logged(lead[e]) /\ lead[e].stage \in Stages
  BY <1>1 DEF LeadsInv, Known, LeadRow
<1>2. ASSUME NEW w \in Workers, NEW e \in Contacts, upsert(w, e)
      PROVE  LeadsInv'
  <2>1. CASE Known(e)
    <3>1. LeadRequest(w, e, lead[e].stage, "touched")
      BY <1>2, <2>1 DEF upsert
    <3>2. Logged([stage |-> lead[e].stage,
                  activities |-> Append(lead[e].activities, "touched")])
      BY <1>1, <2>1, LogGrows DEF Activities
    <3> QED
      BY <1>1, <2>1, <3>1, <3>2, LeadRequestStep DEF Activities
  <2>2. CASE ~Known(e)
    <3>1. LeadRequest(w, e, "NEW", "created")
      BY <1>2, <2>2 DEF upsert
    <3>2. lead[e].activities = << >>
      BY <2>2 DEF Known, NoLead
    <3> QED
      BY <3>1, <3>2, LogBegins, LeadRequestStep DEF Activities, Stages
  <2> QED
    BY <2>1, <2>2
<1>3. ASSUME NEW w \in Workers, NEW e \in Contacts, NEW stage \in Stages,
             updateStage(w, e, stage)
      PROVE  LeadsInv'
  <2>1. Known(e) /\ LeadRequest(w, e, stage, "stage_changed")
    BY <1>3 DEF updateStage
  <2>2. Logged([stage |-> stage, activities |-> Append(lead[e].activities, "stage_changed")])
    BY <1>1, <2>1, LogGrows DEF Activities
  <2> QED
    BY <2>1, <2>2, LeadRequestStep DEF Activities
<1>4. ASSUME NEW w \in Workers, NEW e \in Contacts, markWon(w, e)
      PROVE  LeadsInv'
  <2>1. Known(e) /\ LeadRequest(w, e, "WON", "won")
    BY <1>4 DEF markWon
  <2>2. Logged([stage |-> "WON", activities |-> Append(lead[e].activities, "won")])
    BY <1>1, <2>1, LogGrows DEF Activities, Stages
  <2> QED
    BY <2>1, <2>2, LeadRequestStep DEF Activities, Stages
<1>5. ASSUME NEW w \in Workers, Fails(w), UNCHANGED LD_rows
      PROVE  LeadsInv'
  <2>1. frame[w] # Idle /\ Goes(w, Idle) /\ UNCHANGED <<lead, happened>>
    BY <1>5 DEF Fails, Ends, LD_rows
  <2>2. Framed(LeadFrames)' /\ Alone(w, Idle)
    BY <2>1, Moved DEF LeadsInv, Moves
  <2>3. \A v \in Workers : frame'[v] # Idle => Logged(frame'[v].row)
    BY <2>2 DEF LeadsInv, Alone
  <2>4. ~overlap => \A v \in Workers : LeadGood(frame[v])'
    BY <2>2 DEF Alone, LeadGood, Idle
  <2> QED
    BY <2>1, <2>2, <2>3, <2>4 DEF LeadsInv, Known, ActivitiesKept, Alone
<1>6. CASE UNCHANGED leadVars
  <2>1. UNCHANGED <<requests, overlap, frame, lead, happened>>
    BY <1>6 DEF leadVars, LD_rows, requests
  <2>2. Framed(LeadFrames)'
    BY <2>1, Unmoved DEF LeadsInv
  <2> QED
    BY <2>1, <2>2 DEF LeadsInv, Known, ActivitiesKept, LeadGood
<1> QED
  BY <1>2, <1>3, <1>4, <1>5, <1>6, LeadSavedStep DEF LeadsNext

LEMMA LeadsEmpty == LeadsInit => LeadsKept /\ LeadsType
BY DEF LeadsInit, LeadsType, LeadsKept, CreatedOnce, WonIsLogged, ActivitiesKept, Known, NoLead

LEMMA LeadsHold == LeadsInv => LeadsKept /\ LeadsType
<1> SUFFICES ASSUME LeadsInv
             PROVE  LeadsKept /\ LeadsType
  OBVIOUS
<1>1. ASSUME NEW e \in Contacts
      PROVE  /\ lead[e].stage \in Stages \cup {"none"}
             /\ lead[e].activities \in Seq(Activities) /\ happened[e] \in Seq(Activities)
             /\ ~Known(e) => lead[e].stage = "none"
  BY LeadFields DEF LeadsInv
<1>2. LeadsType
  BY <1>1 DEF LeadsType
<1>3. CreatedOnce
  BY DEF LeadsInv, CreatedOnce, Logged
<1>4. WonIsLogged
  BY <1>1 DEF LeadsInv, WonIsLogged, Logged
<1> QED
  BY <1>2, <1>3, <1>4 DEF LeadsKept, LeadsInv

LEMMA LeadsStart == RequestsInit /\ LeadsInit => LeadsInv
<1> SUFFICES ASSUME RequestsInit, LeadsInit
             PROVE  LeadsInv
  OBVIOUS
<1>1. Framed(LeadFrames) /\ \A w \in Workers : frame[w] = Idle
  BY AllIdle
<1>2. lead \in [Contacts -> LeadRow \cup {NoLead}] /\ happened \in [Contacts -> Seq(Activities)]
      /\ \A e \in Contacts : ~Known(e)
  BY DEF LeadsInit, Known
<1> QED
  BY <1>1, <1>2, LeadsEmpty DEF LeadsInv, LeadsKept, LeadGood, Idle

\* A lead is created once even if two requests do it, a won one says so, and the log is
\* whole when requests do not overlap (leads.service.ts upsert, updateStage, markWon).
THEOREM LeadsAreKept == LeadsSpec => []LeadsKept
<1>1. LeadsInv /\ [LeadsNext]_leadVars => LeadsInv'
  BY LeadsStep
<1> QED
  BY <1>1, LeadsHold, LeadsStart, PTL DEF LeadsSpec

-----------------------------------------------------------------------------
(* Invoices.                                                               *)

InvoiceRow == [number : Numbers, payment : Payments]
InvoiceFrames == [op : {"number"}, payment : Payments]
                 \cup [op : {"insert", "mail"}, payment : Payments, number : Numbers]

OnRecord(n) == \E i \in DOMAIN invoice : invoice[i].number = n

\* A number drawn is not above the sequence; what is mailed is on record.
NumberSound(f) ==
    /\ f.op = "insert" => f.number <= sequence
    /\ f.op = "mail" => OnRecord(f.number)

\* Without overlap nothing is inserted for the payment, and no later number drawn.
NumberGood(f) ==
    /\ f.op \in {"number", "insert"} => ~HasInvoice(f.payment)
    /\ f.op = "insert" => \A i \in DOMAIN invoice : invoice[i].number < f.number

InvoicesInv ==
    /\ Framed(InvoiceFrames)
    /\ invoice \in Seq(InvoiceRow) /\ sequence \in 0..MaxNumber /\ mailed \subseteq Numbers
    /\ NumbersDistinct
    /\ \A w \in Workers : NumberSound(frame[w])
    /\ ~overlap => /\ \A w \in Workers : NumberGood(frame[w])
                   /\ InvoicedOnce /\ NumbersInOrder

LEMMA InvoiceFrame ==
    ASSUME InvoicesInv, NEW w \in Workers, frame[w] # Idle
    PROVE  /\ frame[w] \in InvoiceFrames /\ frame[w].op \in {"number", "insert", "mail"}
           /\ frame[w].payment \in Payments
           /\ frame[w].op # "number" => /\ frame[w].number \in Numbers
                 /\ frame[w] \in [op : {"insert", "mail"}, payment : Payments, number : Numbers]
BY DEF InvoicesInv, Framed, InvoiceFrames

LEMMA InvoiceRows ==
    ASSUME InvoicesInv, NEW i \in DOMAIN invoice
    PROVE  /\ invoice[i] \in InvoiceRow /\ invoice[i].number \in Numbers
           /\ invoice[i].number \in Nat /\ invoice[i].number <= sequence
<1>1. invoice[i] \in InvoiceRow
  BY DEF InvoicesInv
<1> QED
  BY <1>1 DEF InvoicesInv, NumbersDistinct, InvoiceRow, Numbers

\* A frame that is left while the table stays as it is.
LEMMA InvoiceMove ==
    ASSUME InvoicesInv, NEW w \in Workers, NEW f \in {Idle} \cup InvoiceFrames, Moves(w, f),
           invoice' = invoice, sequence' \in 0..MaxNumber, sequence' >= sequence,
           mailed' \subseteq Numbers, \A n \in mailed' : OnRecord(n),
           NumberSound(f)', ~overlap => NumberGood(f)'
    PROVE  InvoicesInv'
<1>1. Framed(InvoiceFrames)' /\ Alone(w, f)
  BY Moved DEF InvoicesInv
<1>2. \A i \in DOMAIN invoice : invoice[i].number \in Nat
  BY InvoiceRows
<1>3. NumbersDistinct'
  BY <1>2 DEF InvoicesInv, NumbersDistinct, OnRecord
<1>4. \A v \in Workers : NumberSound(frame[v])'
  <2> SUFFICES ASSUME NEW v \in Workers
               PROVE  NumberSound(frame[v])'
    OBVIOUS
  <2>1. CASE v = w
    BY <1>1, <2>1 DEF Alone, NumberSound, OnRecord
  <2>2. CASE v # w /\ frame[v] # Idle
    <3>1. frame'[v] = frame[v] /\ NumberSound(frame[v])
      BY <1>1, <2>2 DEF Alone, InvoicesInv
    <3>2. frame[v].op = "insert" => frame[v].number \in Nat /\ sequence \in Nat
      BY <2>2, InvoiceFrame DEF InvoicesInv, Numbers
    <3>3. frame[v].op = "insert" => frame[v].number <= sequence'
      BY <3>1, <3>2 DEF NumberSound
    <3> QED
      BY <3>1, <3>3 DEF NumberSound, OnRecord
  <2>3. CASE frame'[v] = Idle
    BY <2>3 DEF NumberSound, Idle
  <2> QED
    BY <1>1, <2>1, <2>2, <2>3 DEF Alone
<1>5. ~overlap => /\ \A v \in Workers : NumberGood(frame[v])'
                  /\ InvoicedOnce' /\ NumbersInOrder'
  <2> SUFFICES ASSUME ~overlap
               PROVE  /\ \A v \in Workers : NumberGood(frame[v])'
                      /\ InvoicedOnce' /\ NumbersInOrder'
    OBVIOUS
  <2>1. ASSUME NEW v \in Workers
        PROVE  NumberGood(frame[v])'
    BY <1>1 DEF Alone, NumberGood, Idle, HasInvoice
  <2> QED
    BY <2>1 DEF InvoicesInv, InvoicedOnce, NumbersInOrder
<1> QED
  BY <1>1, <1>3, <1>4, <1>5 DEF InvoicesInv, Alone

\* The insert: the number is not in the table, not above the sequence, and without
\* overlap above all in the table.
LEMMA InsertStep ==
    ASSUME InvoicesInv, NEW w \in Workers, InvoiceInserted(w)
    PROVE  InvoicesInv'
<1> DEFINE f == frame[w]
           g == [f EXCEPT !.op = "mail"]
           row == [number |-> f.number, payment |-> f.payment]
           n == Len(invoice) + 1
<1>1. frame[w].op = "insert" /\ frame[w] # Idle
  BY DEF InvoiceInserted, Doing, Idle
<1>2. /\ f \in [op : {"insert", "mail"}, payment : Payments, number : Numbers]
      /\ f.payment \in Payments /\ f.number \in Numbers
  BY <1>1, InvoiceFrame
<1>3. g \in InvoiceFrames /\ g.op = "mail" /\ g.number = f.number /\ g # Idle
  BY <1>2 DEF InvoiceFrames, Idle
<1>4. row \in InvoiceRow /\ row.number = f.number /\ row.payment = f.payment
  BY <1>2 DEF InvoiceRow
<1>5. /\ \A i \in DOMAIN invoice : invoice[i].number # f.number
      /\ invoice' = Append(invoice, row) /\ Goes(w, g)
      /\ sequence' = sequence /\ mailed' = mailed
  BY DEF InvoiceInserted
<1> HIDE DEF g, row
<1>6. Framed(InvoiceFrames)' /\ Alone(w, g)
  BY <1>1, <1>3, <1>5, Moved DEF InvoicesInv, Moves
<1>7. invoice \in Seq(InvoiceRow) /\ Len(invoice) \in Nat
  BY DEF InvoicesInv
<1>8. /\ invoice' \in Seq(InvoiceRow)
      /\ DOMAIN invoice' = DOMAIN invoice \cup {n} /\ n \notin DOMAIN invoice
      /\ invoice'[n] = row
      /\ \A i \in DOMAIN invoice : invoice'[i] = invoice[i] /\ i < n
      /\ DOMAIN invoice \subseteq Nat /\ n \in Nat
  BY <1>4, <1>5, <1>7
<1> HIDE DEF n
<1>9. f.number <= sequence
  BY <1>1 DEF InvoicesInv, NumberSound
<1>10. \A x \in Numbers : OnRecord(x) => OnRecord(x)'
  BY <1>8 DEF OnRecord
<1>11. \E i \in DOMAIN invoice' : invoice'[i].number = g.number
  BY <1>3, <1>4, <1>8
<1>12. NumbersDistinct'
  <2>1. \A i, j \in DOMAIN invoice' : invoice'[i].number = invoice'[j].number => i = j
    BY <1>4, <1>5, <1>8 DEF InvoicesInv, NumbersDistinct
  <2>2. \A i \in DOMAIN invoice' : invoice'[i].number <= sequence
    BY <1>4, <1>8, <1>9 DEF InvoicesInv, NumbersDistinct
  <2>3. mailed \subseteq {invoice'[i].number : i \in DOMAIN invoice'}
    BY <1>8 DEF InvoicesInv, NumbersDistinct
  <2> QED
    BY <1>5, <2>1, <2>2, <2>3 DEF NumbersDistinct
<1>13. ASSUME NEW v \in Workers
       PROVE  NumberSound(frame[v])'
  <2>1. CASE v = w
    BY <1>3, <1>6, <1>11, <2>1 DEF Alone, NumberSound, OnRecord
  <2>2. CASE v # w /\ frame[v] # Idle
    <3>1. frame'[v] = frame[v] /\ NumberSound(frame[v])
      BY <1>6, <2>2 DEF Alone, InvoicesInv
    <3>2. frame[v].op = "mail" => frame[v].number \in Numbers
      BY <2>2, InvoiceFrame
    <3> QED
      BY <1>5, <1>10, <3>1, <3>2 DEF NumberSound
  <2>3. CASE frame'[v] = Idle
    BY <2>3 DEF NumberSound, Idle
  <2> QED
    BY <1>6, <2>1, <2>2, <2>3 DEF Alone
<1>14. ASSUME ~overlap
       PROVE  /\ \A v \in Workers : NumberGood(frame[v])'
              /\ InvoicedOnce' /\ NumbersInOrder'
  <2>1. \A v \in Workers : NumberGood(frame[v])'
    BY <1>3, <1>6, <1>14 DEF Alone, NumberGood, Idle
  <2>2. ~HasInvoice(f.payment) /\ \A i \in DOMAIN invoice : invoice[i].number < f.number
    BY <1>1, <1>14 DEF InvoicesInv, NumberGood
  <2>3. InvoicedOnce'
    BY <1>4, <1>8, <1>14, <2>2 DEF InvoicesInv, InvoicedOnce, HasInvoice
  <2>4. NumbersInOrder'
    BY <1>4, <1>8, <1>14, <2>2 DEF InvoicesInv, NumbersInOrder
  <2> QED
    BY <2>1, <2>3, <2>4
<1> QED
  BY <1>5, <1>6, <1>8, <1>12, <1>13, <1>14 DEF InvoicesInv, Alone

LEMMA InvoicesStep ==
    ASSUME InvoicesInv, [InvoicesNext]_invoiceVars
    PROVE  InvoicesInv'
<1>0. /\ sequence \in Nat /\ sequence <= MaxNumber /\ MaxNumber \in Nat
      /\ mailed \subseteq Numbers /\ \A n \in mailed : OnRecord(n)
  BY InvoicesAssumption DEF InvoicesInv, NumbersDistinct, OnRecord
<1>1. ASSUME NEW w \in Workers, NEW p \in Payments, GenerateForPayment(w, p)
      PROVE  InvoicesInv'
  <2> DEFINE f == [op |-> "number", payment |-> p]
  <2>1. f \in InvoiceFrames /\ f.op = "number" /\ f.payment = p
    BY DEF InvoiceFrames
  <2>2. Start(w, f) /\ ~HasInvoice(p) /\ UNCHANGED <<invoice, sequence, mailed>>
    BY <1>1 DEF GenerateForPayment, IV_rows
  <2> HIDE DEF f
  <2>3. NumberSound(f)' /\ NumberGood(f)'
    BY <2>1, <2>2 DEF NumberSound, NumberGood, HasInvoice
  <2> QED
    BY <1>0, <2>1, <2>2, <2>3, InvoiceMove DEF Moves
<1>2. ASSUME NEW w \in Workers, NextInvoiceNumber(w)
      PROVE  InvoicesInv'
  <2> DEFINE p == frame[w].payment
  <2>0. PICK f : f = [op |-> "insert", payment |-> p, number |-> sequence + 1]
    OBVIOUS
  <2>1. frame[w].op = "number" /\ frame[w] # Idle /\ sequence < MaxNumber
        /\ sequence' = sequence + 1 /\ invoice' = invoice /\ mailed' = mailed /\ Goes(w, f)
    BY <1>2, <2>0 DEF NextInvoiceNumber, Doing, Idle
  <2>2. p \in Payments /\ sequence + 1 \in Numbers
    BY <1>0, <2>1, InvoiceFrame DEF Numbers
  <2>3. f \in InvoiceFrames /\ f.op = "insert" /\ f.payment = p /\ f.number = sequence'
    BY <2>0, <2>1, <2>2 DEF InvoiceFrames
  <2>4. NumberSound(f)'
    BY <1>0, <2>1, <2>3 DEF NumberSound
  <2>5. ~overlap => NumberGood(f)'
    <3> SUFFICES ASSUME ~overlap
                 PROVE  NumberGood(f)'
      OBVIOUS
    <3>1. ~HasInvoice(p)
      BY <2>1 DEF InvoicesInv, NumberGood
    <3>2. \A i \in DOMAIN invoice : invoice[i].number \in Nat /\ invoice[i].number <= sequence
      BY InvoiceRows
    <3>3. \A i \in DOMAIN invoice : invoice[i].number < sequence'
      BY <1>0, <2>1, <3>2
    <3> QED
      BY <2>1, <2>3, <3>1, <3>3 DEF NumberGood, HasInvoice
  <2>6. sequence' \in 0..MaxNumber /\ sequence' >= sequence
    BY <1>0, <2>1
  <2> QED
    BY <1>0, <2>1, <2>3, <2>4, <2>5, <2>6, InvoiceMove DEF Moves
<1>3. ASSUME NEW w \in Workers, InvoiceMailed(w)
      PROVE  InvoicesInv'
  <2>1. frame[w].op = "mail" /\ frame[w] # Idle /\ Goes(w, Idle)
        /\ mailed' = mailed \cup {frame[w].number} /\ UNCHANGED <<invoice, sequence>>
    BY <1>3 DEF InvoiceMailed, Doing, Idle, Ends
  <2>2. frame[w].number \in Numbers /\ OnRecord(frame[w].number)
    BY <2>1, InvoiceFrame DEF InvoicesInv, NumberSound
  <2>3. NumberSound(Idle)' /\ NumberGood(Idle)'
    BY DEF NumberSound, NumberGood, Idle
  <2> QED
    BY <1>0, <2>1, <2>2, <2>3, InvoiceMove DEF Moves
<1>4. ASSUME NEW w \in Workers, Fails(w), UNCHANGED IV_rows
      PROVE  InvoicesInv'
  <2>1. frame[w] # Idle /\ Goes(w, Idle) /\ UNCHANGED <<invoice, sequence, mailed>>
    BY <1>4 DEF Fails, Ends, IV_rows
  <2>2. NumberSound(Idle)' /\ NumberGood(Idle)'
    BY DEF NumberSound, NumberGood, Idle
  <2> QED
    BY <1>0, <2>1, <2>2, InvoiceMove DEF Moves
<1>5. CASE UNCHANGED invoiceVars
  <2>1. UNCHANGED <<requests, overlap, frame, invoice, sequence, mailed>>
    BY <1>5 DEF invoiceVars, IV_rows, requests
  <2>2. Framed(InvoiceFrames)'
    BY <2>1, Unmoved DEF InvoicesInv
  <2>3. NumbersDistinct' /\ \A w \in Workers : NumberSound(frame[w])'
    BY <2>1 DEF InvoicesInv, NumbersDistinct, NumberSound, OnRecord
  <2>4. ~overlap => /\ \A w \in Workers : NumberGood(frame[w])'
                    /\ InvoicedOnce' /\ NumbersInOrder'
    BY <2>1 DEF InvoicesInv, NumberGood, HasInvoice, InvoicedOnce, NumbersInOrder
  <2> QED
    BY <2>1, <2>2, <2>3, <2>4 DEF InvoicesInv
<1> QED
  BY <1>1, <1>2, <1>3, <1>4, <1>5, InsertStep DEF InvoicesNext

\* As many invoices as numbers, at most.
LEMMA InvoicesHold == InvoicesInv => InvoicesKept /\ InvoicesType
<1> SUFFICES ASSUME InvoicesInv
             PROVE  InvoicesKept /\ InvoicesType
  OBVIOUS
<1>1. invoice \in Seq(InvoiceRow) /\ Len(invoice) \in Nat /\ MaxNumber \in Nat
      /\ DOMAIN invoice = 1..Len(invoice)
  BY InvoicesAssumption DEF InvoicesInv
<1>2. \A i \in 1..Len(invoice) : invoice[i] \in InvoiceRow
  BY <1>1
<1> DEFINE g == [i \in 1..Len(invoice) |-> invoice[i].number]
<1>3. \A i \in 1..Len(invoice) : invoice[i].number \in Numbers
  BY <1>1, InvoiceRows
<1>4. \A i, j \in 1..Len(invoice) : invoice[i].number = invoice[j].number => i = j
  BY <1>1 DEF InvoicesInv, NumbersDistinct
<1>5. g \in Injection(1..Len(invoice), Numbers)
  <2>1. g \in [1..Len(invoice) -> Numbers]
    BY <1>3
  <2>2. \A i, j \in 1..Len(invoice) : g[i] = g[j] => i = j
    BY <1>4
  <2> HIDE DEF g
  <2> QED
    BY <2>1, <2>2 DEF Injection, IsInjective
<1>6. IsFiniteSet(1..MaxNumber) /\ Cardinality(1..MaxNumber) = MaxNumber
  BY <1>1, FS_Interval
<1>9. Cardinality(1..Len(invoice)) = Len(invoice)
  BY <1>1, FS_Interval
<1>7. Len(invoice) <= MaxNumber
  BY <1>5, <1>6, <1>9, FS_Injection DEF Numbers
<1>8. InvoicesType
  BY <1>1, <1>2, <1>7 DEF InvoicesType, InvoicesInv, InvoiceRow
<1> QED
  BY <1>8 DEF InvoicesInv, InvoicesKept

LEMMA InvoicesStart == RequestsInit /\ InvoicesInit => InvoicesInv
<1> SUFFICES ASSUME RequestsInit, InvoicesInit
             PROVE  InvoicesInv
  OBVIOUS
<1>1. Framed(InvoiceFrames) /\ \A w \in Workers : frame[w] = Idle
  BY AllIdle
<1>2. invoice = << >> /\ sequence \in 0..MaxNumber /\ mailed = {}
  BY InvoicesAssumption DEF InvoicesInit
<1>3. invoice \in Seq(InvoiceRow) /\ DOMAIN invoice = {}
  BY <1>2
<1>4. NumbersDistinct /\ InvoicedOnce /\ NumbersInOrder
  BY <1>2, <1>3 DEF NumbersDistinct, InvoicedOnce, NumbersInOrder
<1>5. \A w \in Workers : NumberSound(frame[w]) /\ NumberGood(frame[w])
  BY <1>1 DEF NumberSound, NumberGood, Idle
<1> QED
  BY <1>1, <1>2, <1>3, <1>4, <1>5 DEF InvoicesInv

LEMMA InvoicesEmpty == InvoicesInit => InvoicesKept /\ InvoicesType
<1> SUFFICES ASSUME InvoicesInit
             PROVE  InvoicesKept /\ InvoicesType
  OBVIOUS
<1>1. invoice = << >> /\ sequence = 0 /\ mailed = {} /\ MaxNumber \in Nat
  BY InvoicesAssumption DEF InvoicesInit
<1>2. DOMAIN invoice = {} /\ Len(invoice) = 0
  BY <1>1
<1> QED
  BY <1>1, <1>2 DEF InvoicesKept, NumbersDistinct, InvoicedOnce, NumbersInOrder, InvoicesType

\* Numbers are never given twice and what is mailed is on record, also when requests
\* overlap; one invoice for a payment, in order, when they do not
\* (generate-invoice.provider.ts).
THEOREM InvoicesAreKept == InvoicesSpec => []InvoicesKept
<1>1. InvoicesInv /\ [InvoicesNext]_invoiceVars => InvoicesInv'
  BY InvoicesStep
<1> QED
  BY <1>1, InvoicesHold, InvoicesStart, PTL DEF InvoicesSpec

-----------------------------------------------------------------------------
(* Membership plans.                                                       *)

PlanRow == [active : BOOLEAN, price : Prices]
Membership == [user : Customers, plan : Plans, status : {"ACTIVE", "CANCELLED"}]

PlanEdits == [op : {"plan"}, plan : Plans, row : PlanRow]
Joins == [op : {"join"}, user : Customers, plan : Plans, price : Prices]
Leaves == [op : {"leave"}, record : Nat, user : Customers, plan : Plans, price : Prices,
           joins : BOOLEAN]
PlanFrames == PlanEdits \cup Joins \cup Leaves

\* What an edit or a subscription is about to save fits who is subscribed to what.
PlanGood(f) ==
    /\ f.op = "plan" => (f.row.price # plan[f.plan].price => SubscribersOf(f.plan) = {})
    /\ f.op = "join" => ActiveOf(f.user) = {} /\ f.price = plan[f.plan].price
    /\ f.op = "leave" => /\ f.record \in ActiveOf(f.user)
                         /\ f.joins => f.price = plan[f.plan].price

OneActive ==
    \A i, j \in ActiveRecords : membership[i].user = membership[j].user => i = j

PlansInv ==
    /\ Framed(PlanFrames)
    /\ plan \in [Plans -> PlanRow]
    /\ membership \in Seq(Membership) /\ agreed \in Seq(Prices)
    /\ Len(agreed) = Len(membership)
    /\ \A w \in Workers : frame[w].op = "leave" => frame[w].record \in DOMAIN membership
    /\ ~overlap => (\A w \in Workers : PlanGood(frame[w])) /\ OneActive /\ AgreedPrices

LEMMA PlanFrame ==
    ASSUME PlansInv, NEW w \in Workers
    PROVE  /\ frame[w].op = "plan" => frame[w] \in PlanEdits
           /\ frame[w].op = "join" => frame[w] \in Joins
           /\ frame[w].op = "leave" => frame[w] \in Leaves
           /\ frame[w].op \in {"plan", "join", "leave"} => frame[w] # Idle
BY DEF PlansInv, Framed, PlanFrames, PlanEdits, Joins, Leaves, Idle

LEMMA PlanTables ==
    ASSUME PlansInv
    PROVE  /\ DOMAIN membership = 1..Len(membership) /\ DOMAIN agreed = DOMAIN membership
           /\ Len(membership) \in Nat
           /\ \A i \in DOMAIN membership : membership[i] \in Membership /\ agreed[i] \in Prices
<1>1. membership \in Seq(Membership) /\ agreed \in Seq(Prices)
      /\ Len(agreed) = Len(membership)
  BY DEF PlansInv
<1>2. DOMAIN membership = 1..Len(membership) /\ DOMAIN agreed = DOMAIN membership
      /\ Len(membership) \in Nat
  BY <1>1
<1> QED
  BY <1>1, <1>2

\* A step that leaves the tables.
LEMMA PlanMove ==
    ASSUME PlansInv, NEW w \in Workers, NEW f \in {Idle} \cup PlanFrames, Moves(w, f),
           UNCHANGED MP_rows, f.op = "leave" => f.record \in DOMAIN membership,
           ~overlap => PlanGood(f)
    PROVE  PlansInv'
<1>1. Framed(PlanFrames)' /\ Alone(w, f)
  BY Moved DEF PlansInv
<1>2. UNCHANGED <<plan, membership, agreed>>
  BY DEF MP_rows
<1>3. \A v \in Workers : frame'[v].op = "leave" => frame'[v].record \in DOMAIN membership
  BY <1>1 DEF PlansInv, Alone
<1>4. ASSUME ~overlap, NEW v \in Workers
      PROVE  PlanGood(frame[v])'
  <2>1. CASE v = w
    BY <1>1, <1>2, <1>4, <2>1
       DEF Alone, PlanGood, SubscribersOf, ActiveOf, ActiveRecords
  <2>2. CASE v # w
    BY <1>1, <1>4, <2>2 DEF Alone, PlanGood, Idle
  <2> QED
    BY <2>1, <2>2
<1>5. ~overlap => OneActive' /\ AgreedPrices'
  BY <1>2 DEF PlansInv, OneActive, AgreedPrices, ActiveRecords
<1> QED
  BY <1>1, <1>2, <1>3, <1>4, <1>5 DEF PlansInv, Alone

LEMMA PlanSavedStep ==
    ASSUME PlansInv, NEW w \in Workers, PlanSaved(w)
    PROVE  PlansInv'
<1> DEFINE f == frame[w]
<1>1. f.op = "plan" /\ f # Idle /\ f \in PlanEdits
  BY PlanFrame DEF PlanSaved, Doing
<1>2. f.plan \in Plans /\ f.row \in PlanRow
  BY <1>1 DEF PlanEdits
<1>3. plan' = [plan EXCEPT ![f.plan] = f.row] /\ membership' = membership
      /\ agreed' = agreed /\ Goes(w, Idle)
  BY DEF PlanSaved, Ends
<1>4. Framed(PlanFrames)' /\ Alone(w, Idle)
  BY <1>1, <1>3, Moved DEF PlansInv, Moves
<1>5. plan' \in [Plans -> PlanRow] /\ plan'[f.plan] = f.row
      /\ \A p \in Plans \ {f.plan} : plan'[p] = plan[p]
  BY <1>2, <1>3 DEF PlansInv
<1>6. \A v \in Workers : frame'[v].op = "leave" => frame'[v].record \in DOMAIN membership
  BY <1>4 DEF PlansInv, Alone, Idle
<1>7. ~overlap => \A v \in Workers : PlanGood(frame[v])'
  BY <1>4 DEF Alone, PlanGood, Idle
<1>8. ~overlap => OneActive'
  BY <1>3 DEF PlansInv, OneActive, ActiveRecords
<1>9. ~overlap => AgreedPrices'
  <2> SUFFICES ASSUME ~overlap, NEW i \in ActiveRecords
               PROVE  plan'[membership[i].plan].price = agreed[i]
    BY <1>3 DEF AgreedPrices, ActiveRecords
  <2>1. i \in DOMAIN membership /\ membership[i].plan \in Plans
    BY PlanTables DEF ActiveRecords, Membership
  <2>2. plan[membership[i].plan].price = agreed[i]
    BY DEF PlansInv, AgreedPrices
  <2>3. CASE membership[i].plan = f.plan
    <3>1. i \in SubscribersOf(f.plan)
      BY <2>3 DEF SubscribersOf
    <3>2. f.row.price = plan[f.plan].price
      BY <1>1, <3>1 DEF PlansInv, PlanGood
    <3> QED
      BY <1>5, <2>2, <2>3, <3>2
  <2>4. CASE membership[i].plan # f.plan
    BY <1>5, <2>1, <2>2, <2>4
  <2> QED
    BY <2>3, <2>4
<1> QED
  BY <1>3, <1>4, <1>5, <1>6, <1>7, <1>8, <1>9 DEF PlansInv, Alone

LEMMA RecordCancelledStep ==
    ASSUME PlansInv, NEW w \in Workers, RecordCancelled(w)
    PROVE  PlansInv'
<1> DEFINE f == frame[w]
<1>1. f.op = "leave" /\ f # Idle /\ f \in Leaves
  BY PlanFrame DEF RecordCancelled, Doing
<1>2. /\ f.record \in DOMAIN membership /\ f.user \in Customers /\ f.plan \in Plans
      /\ f.price \in Prices
  BY <1>1 DEF Leaves, PlansInv
<1>3. PICK g \in {Idle} \cup PlanFrames :
         /\ Goes(w, g) /\ g.op # "leave" /\ g.op # "plan"
         /\ g.op = "join" => f.joins /\ g.user = f.user /\ g.plan = f.plan /\ g.price = f.price
  <2> DEFINE g == [op |-> "join", user |-> f.user, plan |-> f.plan, price |-> f.price]
  <2>1. g \in PlanFrames /\ g.op = "join" /\ g.user = f.user /\ g.plan = f.plan
        /\ g.price = f.price
    BY <1>2 DEF PlanFrames, Joins
  <2>2. CASE f.joins
    <3>1. Goes(w, g)
      BY <2>2 DEF RecordCancelled
    <3> HIDE DEF g
    <3> QED
      BY <2>1, <2>2, <3>1
  <2>3. CASE ~f.joins
    <3>1. Goes(w, Idle)
      BY <2>3 DEF RecordCancelled, Ends
    <3> QED
      BY <3>1 DEF Idle
  <2> QED
    BY <2>2, <2>3
<1>4. plan' = plan /\ agreed' = agreed
      /\ membership' = [membership EXCEPT ![f.record].status = "CANCELLED"]
  BY DEF RecordCancelled
<1>5. Framed(PlanFrames)' /\ Alone(w, g)
  BY <1>1, <1>3, Moved DEF PlansInv, Moves
<1> DEFINE row == [membership[f.record] EXCEPT !.status = "CANCELLED"]
<1>6. row \in Membership /\ row.status = "CANCELLED"
  BY <1>2, PlanTables DEF Membership
<1>7. membership' = [membership EXCEPT ![f.record] = row]
  BY <1>4
<1> HIDE DEF row
<1>8. /\ DOMAIN membership' = DOMAIN membership /\ membership'[f.record] = row
      /\ \A i \in DOMAIN membership \ {f.record} : membership'[i] = membership[i]
      /\ membership' \in Seq(Membership) /\ Len(membership') = Len(membership)
  BY <1>2, <1>6, <1>7, PlanTables, ExceptSeq DEF PlansInv
<1>9. ActiveRecords' = ActiveRecords \ {f.record}
      /\ \A i \in ActiveRecords' : membership'[i] = membership[i]
  BY <1>6, <1>8 DEF ActiveRecords
<1>10. \A v \in Workers : frame'[v].op = "leave" => frame'[v].record \in DOMAIN membership
  BY <1>3, <1>5 DEF PlansInv, Alone
<1>11. ASSUME ~overlap
       PROVE  OneActive' /\ AgreedPrices' /\ \A v \in Workers : PlanGood(frame[v])'
  <2>1. OneActive /\ AgreedPrices /\ PlanGood(f)
    BY <1>11 DEF PlansInv
  <2>2. OneActive' /\ AgreedPrices'
    BY <1>4, <1>9, <2>1 DEF OneActive, AgreedPrices
  <2>3. f.record \in ActiveOf(f.user) /\ (f.joins => f.price = plan[f.plan].price)
    BY <1>1, <2>1 DEF PlanGood
  <2>4. {i \in ActiveRecords' : membership'[i].user = f.user} = {}
    BY <1>9, <2>1, <2>3 DEF OneActive, ActiveOf
  <2>5. ASSUME NEW v \in Workers
        PROVE  PlanGood(frame[v])'
    <3>1. CASE v = w
      BY <1>3, <1>4, <1>5, <2>3, <2>4, <3>1 DEF Alone, PlanGood, ActiveOf
    <3>2. CASE v # w
      BY <1>5, <1>11, <3>2 DEF Alone, PlanGood, Idle
    <3> QED
      BY <3>1, <3>2
  <2> QED
    BY <2>2, <2>5
<1> QED
  BY <1>4, <1>5, <1>8, <1>10, <1>11 DEF PlansInv, Alone

LEMMA RecordInsertedStep ==
    ASSUME PlansInv, NEW w \in Workers, RecordInserted(w)
    PROVE  PlansInv'
<1> DEFINE f == frame[w]
           row == [user |-> f.user, plan |-> f.plan, status |-> "ACTIVE"]
           n == Len(membership) + 1
<1>1. f.op = "join" /\ f # Idle /\ f \in Joins
  BY PlanFrame DEF RecordInserted, Doing
<1>2. f.user \in Customers /\ f.plan \in Plans /\ f.price \in Prices
  BY <1>1 DEF Joins
<1>3. row \in Membership /\ row.user = f.user /\ row.plan = f.plan /\ row.status = "ACTIVE"
  BY <1>2 DEF Membership
<1>4. plan' = plan /\ membership' = Append(membership, row)
      /\ agreed' = Append(agreed, f.price) /\ Goes(w, Idle)
  BY DEF RecordInserted, Ends
<1> HIDE DEF row
<1>5. Framed(PlanFrames)' /\ Alone(w, Idle)
  BY <1>1, <1>4, Moved DEF PlansInv, Moves
<1>6. /\ membership' \in Seq(Membership) /\ agreed' \in Seq(Prices)
      /\ Len(agreed') = Len(membership')
      /\ DOMAIN membership' = DOMAIN membership \cup {n} /\ n \notin DOMAIN membership
      /\ membership'[n] = row /\ agreed'[n] = f.price
      /\ \A i \in DOMAIN membership : membership'[i] = membership[i] /\ agreed'[i] = agreed[i]
  BY <1>2, <1>3, <1>4, PlanTables DEF PlansInv
<1> HIDE DEF n
<1>7. ActiveRecords' = ActiveRecords \cup {n} /\ n \notin ActiveRecords
      /\ \A i \in ActiveRecords : membership'[i] = membership[i] /\ agreed'[i] = agreed[i]
  BY <1>3, <1>6 DEF ActiveRecords
<1>8. \A v \in Workers : frame'[v].op = "leave" => frame'[v].record \in DOMAIN membership'
  BY <1>5, <1>6 DEF PlansInv, Alone, Idle
<1>9. ASSUME ~overlap
      PROVE  OneActive' /\ AgreedPrices' /\ \A v \in Workers : PlanGood(frame[v])'
  <2>1. OneActive /\ AgreedPrices /\ PlanGood(f)
    BY <1>9 DEF PlansInv
  <2>2. ActiveOf(f.user) = {} /\ f.price = plan[f.plan].price
    BY <1>1, <2>1 DEF PlanGood
  <2>3. OneActive'
    BY <1>3, <1>6, <1>7, <2>1, <2>2 DEF OneActive, ActiveOf
  <2>4. AgreedPrices'
    <3> SUFFICES ASSUME NEW i \in ActiveRecords'
                 PROVE  plan[membership'[i].plan].price = agreed'[i]
      BY <1>4 DEF AgreedPrices
    <3>1. CASE i = n
      BY <1>3, <1>6, <2>2, <3>1
    <3>2. CASE i \in ActiveRecords
      BY <1>7, <2>1, <3>2 DEF AgreedPrices
    <3> QED
      BY <1>7, <3>1, <3>2
  <2>5. \A v \in Workers : PlanGood(frame[v])'
    BY <1>5, <1>9 DEF Alone, PlanGood, Idle
  <2> QED
    BY <2>3, <2>4, <2>5
<1> QED
  BY <1>4, <1>5, <1>6, <1>8, <1>9 DEF PlansInv, Alone

LEMMA PlansStep ==
    ASSUME PlansInv, [MembershipPlansNext]_planVars
    PROVE  PlansInv'
<1>1. ASSUME NEW w \in Workers, NEW p \in Plans, NEW active \in BOOLEAN, NEW price \in Prices,
             updatePlan(w, p, active, price)
      PROVE  PlansInv'
  <2>1. PICK f : f = [op |-> "plan", plan |-> p, row |-> [active |-> active, price |-> price]]
    OBVIOUS
  <2>2. f \in PlanFrames /\ f.op = "plan" /\ f.plan = p /\ f.row.price = price
    BY <2>1 DEF PlanFrames, PlanEdits, PlanRow
  <2>3. Start(w, f) /\ UNCHANGED MP_rows
        /\ (price # plan[p].price => SubscribersOf(p) = {})
    BY <1>1, <2>1 DEF updatePlan
  <2>4. PlanGood(f)
    BY <2>2, <2>3 DEF PlanGood
  <2> QED
    BY <2>2, <2>3, <2>4, PlanMove DEF Moves
<1>2. ASSUME NEW w \in Workers, NEW c \in Customers, NEW p \in Plans, subscribe(w, c, p)
      PROVE  PlansInv'
  <2>0. plan[p].price \in Prices
    BY DEF PlansInv, PlanRow
  <2>1. CASE ActiveOf(c) = {} /\ Start(w, [op |-> "join", user |-> c, plan |-> p,
                                           price |-> plan[p].price])
    <3>1. PICK f : f = [op |-> "join", user |-> c, plan |-> p, price |-> plan[p].price]
      OBVIOUS
    <3>2. f \in PlanFrames /\ f.op = "join" /\ f.plan = p /\ f.user = c
          /\ f.price = plan[p].price
      BY <2>0, <3>1 DEF PlanFrames, Joins
    <3>3. PlanGood(f)
      BY <2>1, <3>2 DEF PlanGood
    <3> QED
      BY <1>2, <2>1, <3>1, <3>2, <3>3, PlanMove DEF Moves, subscribe
  <2>2. ASSUME NEW i \in ActiveOf(c),
               Start(w, [op |-> "leave", record |-> i, user |-> c, plan |-> p,
                         price |-> plan[p].price, joins |-> TRUE])
        PROVE  PlansInv'
    <3>1. PICK f : f = [op |-> "leave", record |-> i, user |-> c, plan |-> p,
                        price |-> plan[p].price, joins |-> TRUE]
      OBVIOUS
    <3>2. i \in DOMAIN membership /\ i \in Nat
      BY PlanTables DEF ActiveOf, ActiveRecords
    <3>3. f \in PlanFrames /\ f.op = "leave" /\ f.plan = p /\ f.user = c /\ f.record = i
          /\ f.price = plan[p].price
      BY <2>0, <3>1, <3>2 DEF PlanFrames, Leaves
    <3>4. PlanGood(f)
      BY <3>3 DEF PlanGood
    <3> QED
      BY <1>2, <2>2, <3>1, <3>2, <3>3, <3>4, PlanMove DEF Moves, subscribe
  <2> QED
    BY <1>2, <2>1, <2>2 DEF subscribe
<1>3. ASSUME NEW w \in Workers, NEW c \in Customers, cancelMySubscription(w, c)
      PROVE  PlansInv'
  <2>1. PICK i \in ActiveOf(c) :
          Start(w, [op |-> "leave", record |-> i, user |-> c, plan |-> membership[i].plan,
                    price |-> agreed[i], joins |-> FALSE])
    BY <1>3 DEF cancelMySubscription
  <2>2. PICK f : f = [op |-> "leave", record |-> i, user |-> c, plan |-> membership[i].plan,
                      price |-> agreed[i], joins |-> FALSE]
    OBVIOUS
  <2>3. i \in DOMAIN membership /\ i \in Nat
    BY PlanTables DEF ActiveOf, ActiveRecords
  <2>4. membership[i].plan \in Plans /\ agreed[i] \in Prices
    BY <2>3, PlanTables DEF Membership
  <2>5. f \in PlanFrames /\ f.op = "leave" /\ f.user = c /\ f.record = i /\ ~f.joins
    BY <2>2, <2>3, <2>4 DEF PlanFrames, Leaves
  <2>6. PlanGood(f)
    BY <2>5 DEF PlanGood
  <2> QED
    BY <1>3, <2>1, <2>2, <2>3, <2>5, <2>6, PlanMove DEF Moves, cancelMySubscription
<1>4. ASSUME NEW w \in Workers, Fails(w), UNCHANGED MP_rows
      PROVE  PlansInv'
  BY <1>4, PlanMove DEF Fails, Ends, Moves, PlanGood, Idle
<1>5. CASE UNCHANGED planVars
  <2>1. UNCHANGED <<requests, overlap, frame, plan, membership, agreed>>
    BY <1>5 DEF planVars, MP_rows, requests
  <2>2. Framed(PlanFrames)'
    BY <2>1, Unmoved DEF PlansInv
  <2>3. ~overlap => (\A w \in Workers : PlanGood(frame[w])') /\ OneActive' /\ AgreedPrices'
    BY <2>1 DEF PlansInv, PlanGood, OneActive, AgreedPrices, ActiveRecords, ActiveOf,
                SubscribersOf
  <2> QED
    BY <2>1, <2>2, <2>3 DEF PlansInv
<1> QED
  BY <1>1, <1>2, <1>3, <1>4, <1>5, PlanSavedStep, RecordCancelledStep, RecordInsertedStep
     DEF MembershipPlansNext

LEMMA PlansHold == PlansInv => MembershipPlansKept /\ MembershipPlansType
<1> SUFFICES ASSUME PlansInv
             PROVE  MembershipPlansKept /\ MembershipPlansType
  OBVIOUS
<1>1. ASSUME ~overlap, NEW c \in Customers
      PROVE  Cardinality(ActiveOf(c)) <= 1
  <2>1. \A i, j \in ActiveOf(c) : i = j
    BY <1>1 DEF PlansInv, OneActive, ActiveOf
  <2>2. CASE ActiveOf(c) = {}
    BY <2>2, FS_EmptySet
  <2>3. ASSUME NEW i \in ActiveOf(c)
        PROVE  Cardinality(ActiveOf(c)) <= 1
    <3>1. ActiveOf(c) = {i}
      BY <2>1, <2>3
    <3>2. Cardinality({i}) = 1
      BY FS_Singleton
    <3> QED
      BY <3>1, <3>2
  <2> QED
    BY <2>2, <2>3
<1>2. MembershipPlansKept
  BY <1>1 DEF PlansInv, MembershipPlansKept, OneMembership
<1>3. MembershipPlansType
  BY PlanTables DEF PlansInv, MembershipPlansType, PlanRow, Membership
<1> QED
  BY <1>2, <1>3

LEMMA PlansEmpty == MembershipPlansInit => MembershipPlansKept /\ MembershipPlansType
<1> SUFFICES ASSUME MembershipPlansInit
             PROVE  MembershipPlansKept /\ MembershipPlansType
  OBVIOUS
<1>0. membership = << >> /\ agreed = << >>
  BY DEF MembershipPlansInit
<1>1. DOMAIN membership = {} /\ DOMAIN agreed = {}
  BY <1>0
<1>2. ActiveRecords = {}
  BY <1>1 DEF ActiveRecords
<1>4. plan \in [Plans -> [active : BOOLEAN, price : Prices]]
  BY DEF MembershipPlansInit
<1>5. MembershipPlansType
  BY <1>1, <1>4 DEF MembershipPlansType
<1>3. \A c \in Customers : ActiveOf(c) = {}
  BY <1>2 DEF ActiveOf
<1> QED
  BY <1>2, <1>3, <1>5, FS_EmptySet DEF MembershipPlansKept, OneMembership, AgreedPrices

LEMMA PlansStart == RequestsInit /\ MembershipPlansInit => PlansInv
<1> SUFFICES ASSUME RequestsInit, MembershipPlansInit
             PROVE  PlansInv
  OBVIOUS
<1>1. Framed(PlanFrames) /\ \A w \in Workers : frame[w] = Idle
  BY AllIdle
<1>2. membership = << >> /\ agreed = << >> /\ plan \in [Plans -> PlanRow]
  BY DEF MembershipPlansInit, PlanRow
<1>3. membership \in Seq(Membership) /\ agreed \in Seq(Prices)
      /\ Len(agreed) = Len(membership) /\ DOMAIN membership = {}
  BY <1>2
<1>4. OneActive /\ AgreedPrices
  BY <1>3 DEF OneActive, AgreedPrices, ActiveRecords
<1> QED
  BY <1>1, <1>2, <1>3, <1>4 DEF PlansInv, PlanGood, Idle

\* One active subscription for a customer, at the price agreed, also after a change of
\* plan that failed half-way (membership-plans.service.ts subscribe, update).
THEOREM PlansAreKept == MembershipPlansSpec => []MembershipPlansKept
<1>1. PlansInv /\ [MembershipPlansNext]_planVars => PlansInv'
  BY PlansStep
<1> QED
  BY <1>1, PlansHold, PlansStart, PTL DEF MembershipPlansSpec

-----------------------------------------------------------------------------
(* Check-ins.                                                              *)

Arrivals == [op : {"checkIn"}, member : Members, room : Rooms]
Departures == [op : {"checkOut"}, log : Logs, row : LogRow]
Sweeps == [op : {"close"}, todo : SUBSET Logs, rows : UNION {[S -> LogRow] : S \in SUBSET Logs}]
CheckInFrames == Arrivals \cup Departures \cup Sweeps

\* What a request has in hand was true when it was read.
CheckInSound(f) ==
    /\ f.op = "checkOut" => /\ ~f.row.auto /\ f.row.member # "none"
                           /\ f.row.out <= hour /\ f.row.in <= hour
    /\ f.op = "close" => \A l \in f.todo :
          /\ l \in DOMAIN f.rows /\ f.rows[l].in + MaxHours < hour
          /\ f.rows[l].member # "none"

\* Nothing changed it since.
CheckInGood(f) ==
    /\ f.op = "checkIn" => \A l \in Logs :
          ~(IsOpen(l) /\ log[l].member = f.member /\ log[l].room = f.room)
    /\ f.op = "checkOut" =>
          /\ IsOpen(f.log) /\ f.row.member = log[f.log].member
          /\ f.row.room = log[f.log].room /\ f.row.in = log[f.log].in
          /\ f.row.in <= f.row.out
    /\ f.op = "close" => \A l \in f.todo : IsOpen(l) /\ f.rows[l] = log[l]

CheckInsInv ==
    /\ Framed(CheckInFrames)
    /\ CheckInsType
    /\ \A w \in Workers : CheckInSound(frame[w])
    /\ \A l \in Logs : log[l].in <= hour /\ log[l].out <= hour
    /\ \A l \in Logs : ~Written(l) => log[l].out = Open
    /\ OnlyStaleSwept
    /\ ~overlap => (\A w \in Workers : CheckInGood(frame[w])) /\ SessionsApart /\ EndKept

LEMMA CheckInFrame ==
    ASSUME CheckInsInv, NEW w \in Workers, frame[w].op # "idle"
    PROVE  /\ frame[w] # Idle /\ frame[w] \in CheckInFrames
           /\ frame[w].op = "checkIn" => frame[w] \in Arrivals
           /\ frame[w].op = "checkOut" => frame[w] \in Departures
           /\ frame[w].op = "close" => frame[w] \in Sweeps
BY DEF CheckInsInv, Framed, Idle, CheckInFrames, Arrivals, Departures, Sweeps

\* A request that starts or ends and leaves the tables as they are.
LEMMA CheckInMove ==
    ASSUME CheckInsInv, NEW w \in Workers, NEW f \in {Idle} \cup CheckInFrames, Moves(w, f),
           UNCHANGED CI_rows, CheckInSound(f), ~overlap => CheckInGood(f)
    PROVE  CheckInsInv'
<1>1. Framed(CheckInFrames)' /\ Alone(w, f)
  BY Moved DEF CheckInsInv
<1>2. UNCHANGED <<hour, log, left>>
  BY DEF CI_rows
<1>3. ASSUME NEW v \in Workers
      PROVE  CheckInSound(frame[v])'
  BY <1>1, <1>2 DEF CheckInsInv, Alone, CheckInSound
<1>4. ASSUME ~overlap, NEW v \in Workers
      PROVE  CheckInGood(frame[v])'
  <2>1. CASE v = w
    BY <1>1, <1>2, <1>4, <2>1 DEF Alone, CheckInGood, IsOpen, Written
  <2>2. CASE v # w
    BY <1>1, <1>4, <2>2 DEF Alone, CheckInGood, Idle
  <2> QED
    BY <2>1, <2>2
<1>5. CheckInsType' /\ OnlyStaleSwept' /\ (~overlap => SessionsApart' /\ EndKept')
      /\ \A l \in Logs : /\ log'[l].in <= hour' /\ log'[l].out <= hour'
                         /\ ~Written(l)' => log'[l].out = Open
  BY <1>2 DEF CheckInsInv, CheckInsType, OnlyStaleSwept, SessionsApart, EndKept, Written, Closed
<1> QED
  BY <1>1, <1>3, <1>4, <1>5 DEF CheckInsInv, Alone

\* The save of a row for a log, by a worker to whom the frame f is left.
LEMMA LogSavedStep ==
    ASSUME CheckInsInv, NEW w \in Workers, NEW f \in {Idle} \cup CheckInFrames,
           frame[w] # Idle, Goes(w, f), NEW l \in Logs, NEW row \in LogRow, LogSaved(l, row),
           row.in <= hour, row.out <= hour, row.auto => row.out > row.in + MaxHours,
           row.member = "none" => row.out = Open,
           CheckInSound(f), f.op \notin {"checkIn", "checkOut"},
           ~overlap =>
               /\ f.op = "close" => f.todo \subseteq Logs \ {l} /\ CheckInGood(f)
               /\ Closed(l) => row.out = log[l].out
               /\ \A k \in Logs \ {l} : Written(k) /\ row.member # "none"
                     /\ log[k].member = row.member /\ log[k].room = row.room
                     => \/ Closed(k) /\ log[k].out <= row.in
                        \/ row.out # Open /\ row.out <= log[k].in
    PROVE  CheckInsInv'
<1>1. Framed(CheckInFrames)' /\ Alone(w, f)
  BY Moved DEF CheckInsInv, Moves
<1>2. /\ hour' = hour /\ log' = [log EXCEPT ![l] = row]
      /\ left' = [left EXCEPT ![l] = IF left[l] = Open THEN row.out ELSE left[l]]
  BY DEF LogSaved
<1>3. /\ log' \in [Logs -> LogRow] /\ log'[l] = row
      /\ \A k \in Logs \ {l} : log'[k] = log[k] /\ left'[k] = left[k]
      /\ left'[l] = IF left[l] = Open THEN row.out ELSE left[l]
  BY <1>2 DEF CheckInsInv, CheckInsType
<1>4. row.out \in Hours \cup {Open}
  BY DEF LogRow
<1>5. CheckInsType'
  BY <1>2, <1>3, <1>4 DEF CheckInsInv, CheckInsType
<1>6. \A v \in Workers : CheckInSound(frame[v])'
  BY <1>1, <1>2 DEF CheckInsInv, Alone, CheckInSound
<1>7. \A k \in Logs : /\ log'[k].in <= hour' /\ log'[k].out <= hour'
                      /\ ~Written(k)' => log'[k].out = Open
  BY <1>2, <1>3 DEF CheckInsInv, Written
<1>8. OnlyStaleSwept'
  BY <1>3 DEF CheckInsInv, OnlyStaleSwept
<1>9. ASSUME ~overlap, NEW v \in Workers
      PROVE  CheckInGood(frame[v])'
  <2>1. CASE v = w /\ f.op = "close"
    BY <1>1, <1>3, <1>9, <2>1 DEF Alone, CheckInGood, IsOpen, Written
  <2>2. CASE v = w /\ f.op # "close"
    BY <1>1, <2>2 DEF Alone, CheckInGood
  <2>3. CASE v # w
    BY <1>1, <1>9, <2>3 DEF Alone, CheckInGood, Idle
  <2> QED
    BY <2>1, <2>2, <2>3
<1>10. ASSUME ~overlap
       PROVE  SessionsApart'
  <2> SUFFICES ASSUME NEW a \in Logs, NEW b \in Logs, a # b, Written(a)', Written(b)',
                      log'[a].member = log'[b].member, log'[a].room = log'[b].room
               PROVE  \/ log'[a].out # Open /\ log'[a].out <= log'[b].in
                      \/ log'[b].out # Open /\ log'[b].out <= log'[a].in
    BY DEF SessionsApart, Closed
  <2>1. CASE a = l
    BY <1>3, <1>10, <2>1 DEF Written, Closed
  <2>2. CASE b = l
    BY <1>3, <1>10, <2>2 DEF Written, Closed
  <2>3. CASE a # l /\ b # l
    <3>1. SessionsApart
      BY <1>10 DEF CheckInsInv
    <3> QED
      BY <1>3, <2>3, <3>1 DEF SessionsApart, Written, Closed
  <2> QED
    BY <2>1, <2>2, <2>3
<1>11. ASSUME ~overlap
       PROVE  EndKept'
  <2>1. EndKept /\ (~Written(l) => log[l].out = Open)
    BY <1>11 DEF CheckInsInv
  <2>2. log'[l].out = left'[l]
    BY <1>3, <1>11, <2>1 DEF EndKept, Closed
  <2> QED
    BY <1>3, <2>1, <2>2 DEF EndKept
<1> QED
  BY <1>1, <1>5, <1>6, <1>7, <1>8, <1>9, <1>10, <1>11 DEF CheckInsInv, Alone

LEMMA LogInsertedStep ==
    ASSUME CheckInsInv, NEW w \in Workers, NEW l \in Logs, LogInserted(w, l)
    PROVE  CheckInsInv'
<1> DEFINE f == frame[w]
           row == [NoLog EXCEPT !.member = f.member, !.room = f.room, !.in = hour]
<1>1. f.op = "checkIn" /\ f # Idle /\ f \in Arrivals
  BY CheckInFrame DEF LogInserted, Doing
<1>2. f.member \in Members /\ f.room \in Rooms
  BY <1>1 DEF Arrivals
<1>3. /\ row \in LogRow /\ row.member = f.member /\ row.room = f.room /\ row.in = hour
      /\ row.out = Open /\ ~row.auto
  BY <1>2 DEF NoLog, LogRow, CheckInsInv, CheckInsType
<1>4. LogSaved(l, row) /\ Goes(w, Idle) /\ ~Written(l)
  BY DEF LogInserted, Ends
<1> HIDE DEF row
<1>5. hour \in Hours /\ hour >= Open /\ hour <= hour
  BY CheckInsAssumption DEF CheckInsInv, CheckInsType, Hours, Open
<1>6. ASSUME ~overlap, NEW k \in Logs \ {l}, Written(k), log[k].member = row.member,
             log[k].room = row.room
      PROVE  Closed(k) /\ log[k].out <= row.in
  <2>1. CheckInGood(f)
    BY <1>6 DEF CheckInsInv
  <2>2. ~IsOpen(k)
    BY <1>1, <1>3, <1>6, <2>1 DEF CheckInGood
  <2> QED
    BY <1>3, <1>6, <2>2 DEF CheckInsInv, IsOpen, Closed
<1>7. ~Closed(l)
  BY <1>4 DEF Closed
<1>8. CheckInSound(Idle) /\ Idle.op = "idle"
  BY DEF CheckInSound, Idle
<1> QED
  BY <1>1, <1>3, <1>4, <1>5, <1>6, <1>7, <1>8, LogSavedStep

LEMMA CheckOutSavedStep ==
    ASSUME CheckInsInv, NEW w \in Workers, CheckOutSaved(w)
    PROVE  CheckInsInv'
<1> DEFINE f == frame[w]
           l == f.log
           row == f.row
<1>1. f.op = "checkOut" /\ f # Idle /\ f \in Departures
  BY CheckInFrame DEF CheckOutSaved, Doing
<1>2. l \in Logs /\ row \in LogRow
  BY <1>1 DEF Departures
<1>3. ~row.auto /\ row.out <= hour /\ row.in <= hour /\ row.member # "none"
  BY <1>1 DEF CheckInsInv, CheckInSound
<1>4. LogSaved(l, row) /\ Goes(w, Idle)
  BY DEF CheckOutSaved, Ends
<1>5. ASSUME ~overlap
      PROVE  /\ ~Closed(l)
             /\ \A k \in Logs \ {l} : Written(k) /\ log[k].member = row.member
                   /\ log[k].room = row.room => Closed(k) /\ log[k].out <= row.in
  <2>1. CheckInGood(f) /\ SessionsApart
    BY <1>5 DEF CheckInsInv
  <2>2. IsOpen(l) /\ row.member = log[l].member /\ row.room = log[l].room
        /\ row.in = log[l].in
    BY <1>1, <2>1 DEF CheckInGood
  <2> HIDE DEF row, l
  <2> QED
    BY <1>2, <2>1, <2>2 DEF SessionsApart, IsOpen, Closed
<1>6. CheckInSound(Idle) /\ Idle.op = "idle"
  BY DEF CheckInSound, Idle
<1> HIDE DEF row, l
<1> QED
  BY <1>1, <1>2, <1>3, <1>4, <1>5, <1>6, LogSavedStep

\* The job leaves a log; what it has in hand of the others stays.
LEMMA JobLeaves ==
    ASSUME CheckInsInv, NEW l \in Logs, Doing(Cron, "close"), l \in frame[Cron].todo,
           JobGoesOn(l)
    PROVE  \E f \in {Idle} \cup CheckInFrames :
              /\ Goes(Cron, f) /\ CheckInSound(f) /\ f.op \notin {"checkIn", "checkOut"}
              /\ f.op = "close" => f.todo \subseteq Logs \ {l}
              /\ ~overlap => CheckInGood(f)
<1> DEFINE f == frame[Cron]
           todo == f.todo \ {l}
           g == [f EXCEPT !.todo = todo]
<1>0. Cron \in Workers
  BY RequestsAssumption
<1>1. f.op = "close" /\ f \in Sweeps
  BY <1>0, CheckInFrame DEF Doing
<1>2. CASE todo = {}
  <2>1. Goes(Cron, Idle)
    BY <1>2 DEF JobGoesOn, Ends
  <2>2. CheckInSound(Idle) /\ CheckInGood(Idle) /\ Idle.op = "idle"
    BY DEF CheckInSound, CheckInGood, Idle
  <2> QED
    BY <2>1, <2>2
<1>3. CASE todo # {}
  <2>1. Goes(Cron, g)
    BY <1>3 DEF JobGoesOn
  <2>2. g \in CheckInFrames /\ g.op = "close" /\ g.todo = todo /\ g.rows = f.rows
    BY <1>1 DEF Sweeps, CheckInFrames
  <2>3. todo \subseteq Logs \ {l} /\ todo \subseteq f.todo
    BY <1>1 DEF Sweeps
  <2> HIDE DEF g, todo
  <2>4. CheckInSound(g)
    BY <1>0, <1>1, <2>2, <2>3 DEF CheckInsInv, CheckInSound
  <2>5. ~overlap => CheckInGood(g)
    BY <1>0, <1>1, <2>2, <2>3 DEF CheckInsInv, CheckInGood
  <2> QED
    BY <2>1, <2>2, <2>3, <2>4, <2>5
<1> QED
  BY <1>2, <1>3

LEMMA JobClosesStep ==
    ASSUME CheckInsInv, NEW l \in Logs, JobCloses(l)
    PROVE  CheckInsInv'
<1> DEFINE f == frame[Cron]
           read == f.rows[l]
           row == [read EXCEPT !.out = hour, !.auto = TRUE]
<1>0. Cron \in Workers
  BY RequestsAssumption
<1>1. f.op = "close" /\ f # Idle /\ f \in Sweeps /\ l \in f.todo
  BY <1>0, CheckInFrame DEF JobCloses, Doing
<1>2. l \in DOMAIN f.rows /\ read.in + MaxHours < hour /\ read.member # "none"
  BY <1>0, <1>1 DEF CheckInsInv, CheckInSound
<1>3. read \in LogRow /\ hour \in Hours
  BY <1>1, <1>2 DEF Sweeps, CheckInsInv, CheckInsType
<1>4. /\ row \in LogRow /\ row.out = hour /\ row.auto /\ row.in = read.in
      /\ row.member = read.member /\ row.room = read.room
  BY <1>3 DEF LogRow
<1>5. LogSaved(l, row)
  BY DEF JobCloses
<1>6. PICK g \in {Idle} \cup CheckInFrames :
         /\ Goes(Cron, g) /\ CheckInSound(g) /\ g.op \notin {"checkIn", "checkOut"}
         /\ g.op = "close" => g.todo \subseteq Logs \ {l}
         /\ ~overlap => CheckInGood(g)
  BY JobLeaves DEF JobCloses
<1>7. ASSUME ~overlap
      PROVE  /\ ~Closed(l)
             /\ \A k \in Logs \ {l} : Written(k) /\ log[k].member = row.member
                   /\ log[k].room = row.room => Closed(k) /\ log[k].out <= row.in
  <2>1. CheckInGood(f) /\ SessionsApart
    BY <1>0, <1>7 DEF CheckInsInv
  <2>2. IsOpen(l) /\ read = log[l]
    BY <1>1, <2>1 DEF CheckInGood
  <2>3. row.member = log[l].member /\ row.room = log[l].room /\ row.in = log[l].in
    BY <1>4, <2>2
  <2> HIDE DEF row
  <2> QED
    BY <2>1, <2>2, <2>3 DEF SessionsApart, IsOpen, Closed
<1>8. row.in \in Int /\ MaxHours \in Nat /\ hour \in Int
  BY <1>3, <1>4, CheckInsAssumption DEF LogRow, Hours
<1>9. row.in <= hour /\ row.out <= hour /\ row.out > row.in + MaxHours
      /\ row.member # "none"
  <2> HIDE DEF row, read
  <2> QED
    BY <1>2, <1>4, <1>8
<1> HIDE DEF row
<1> QED
  BY <1>0, <1>1, <1>4, <1>5, <1>6, <1>7, <1>9, LogSavedStep

LEMMA CheckInsStep ==
    ASSUME CheckInsInv, [CheckInsNext]_checkInVars
    PROVE  CheckInsInv'
<1>1. ASSUME NEW w \in Workers, NEW m \in Members, NEW r \in Rooms, CheckIn(w, m, r)
      PROVE  CheckInsInv'
  <2>1. PICK f : f = [op |-> "checkIn", member |-> m, room |-> r]
    OBVIOUS
  <2>2. f \in CheckInFrames /\ f.op = "checkIn" /\ f.member = m /\ f.room = r
    BY <2>1 DEF CheckInFrames, Arrivals
  <2>3. Start(w, f) /\ UNCHANGED CI_rows
    BY <1>1, <2>1 DEF CheckIn
  <2>4. CheckInSound(f) /\ CheckInGood(f)
    BY <1>1, <2>2 DEF CheckInSound, CheckInGood, CheckIn
  <2> QED
    BY <2>2, <2>3, <2>4, CheckInMove DEF Moves
<1>2. ASSUME NEW w \in Workers, NEW l \in Logs, CheckOut(w, l)
      PROVE  CheckInsInv'
  <2>1. PICK row : row = [log[l] EXCEPT !.out = hour]
    OBVIOUS
  <2>2. PICK f : f = [op |-> "checkOut", log |-> l, row |-> row]
    OBVIOUS
  <2>3. log[l] \in LogRow /\ hour \in Hours
    BY DEF CheckInsInv, CheckInsType
  <2>4. /\ row \in LogRow /\ row.out = hour /\ row.in = log[l].in /\ row.auto = log[l].auto
        /\ row.member = log[l].member /\ row.room = log[l].room
    BY <2>1, <2>3 DEF LogRow
  <2>5. f \in CheckInFrames /\ f.op = "checkOut" /\ f.log = l /\ f.row = row
    BY <2>2, <2>4 DEF CheckInFrames, Departures
  <2>6. Start(w, f) /\ UNCHANGED CI_rows /\ IsOpen(l)
    BY <1>2, <2>1, <2>2 DEF CheckOut
  <2>7. ~log[l].auto
    <3>1. log[l].in \in Int /\ log[l].in >= 0 /\ log[l].out = Open /\ MaxHours \in Nat
      BY <2>3, <2>6, CheckInsAssumption DEF LogRow, Hours, IsOpen
    <3> QED
      BY <3>1 DEF CheckInsInv, OnlyStaleSwept, Open
  <2>8. log[l].in <= hour /\ hour <= hour
    BY <2>3 DEF CheckInsInv, Hours
  <2>9. log[l].auto \in BOOLEAN /\ log[l].member # "none"
    BY <2>3, <2>6 DEF LogRow, IsOpen, Written
  <2>10. CheckInSound(f)
    BY <2>4, <2>5, <2>7, <2>8, <2>9 DEF CheckInSound
  <2>11. CheckInGood(f)
    BY <2>4, <2>5, <2>6, <2>8 DEF CheckInGood
  <2> QED
    BY <2>5, <2>6, <2>10, <2>11, CheckInMove DEF Moves
<1>3. CASE JobTriggered
  <2>1. PICK S \in SUBSET {l \in Logs : Stale(l)} :
          Start(Cron, [op |-> "close", todo |-> S, rows |-> [l \in S |-> log[l]]])
          /\ UNCHANGED CI_rows
    BY <1>3 DEF JobTriggered
  <2>2. PICK rows : rows = [l \in S |-> log[l]]
    OBVIOUS
  <2>3. PICK f : f = [op |-> "close", todo |-> S, rows |-> rows]
    OBVIOUS
  <2>4. S \in SUBSET Logs /\ rows \in [S -> LogRow] /\ \A l \in S : rows[l] = log[l]
    BY <2>2 DEF CheckInsInv, CheckInsType
  <2>5. f \in CheckInFrames /\ f.op = "close" /\ f.todo = S /\ f.rows = rows
    BY <2>3, <2>4 DEF CheckInFrames, Sweeps
  <2>6. ASSUME NEW l \in S
        PROVE  log[l].in + MaxHours < hour /\ IsOpen(l) /\ log[l].member # "none"
    <3>1. IsOpen(l) /\ log[l].in < hour - MaxHours /\ log[l] \in LogRow
      BY <2>4 DEF Stale, CheckInsInv, CheckInsType
    <3>2. log[l].in \in Int /\ hour \in Int /\ MaxHours \in Nat
      BY <3>1, CheckInsAssumption DEF LogRow, Hours, CheckInsInv, CheckInsType
    <3> QED
      BY <3>1, <3>2 DEF IsOpen, Written
  <2>7. CheckInSound(f)
    BY <2>4, <2>5, <2>6 DEF CheckInSound
  <2>8. CheckInGood(f)
    BY <2>4, <2>5, <2>6 DEF CheckInGood
  <2> QED
    BY <2>1, <2>2, <2>3, <2>5, <2>7, <2>8, CheckInMove, RequestsAssumption DEF Moves
<1>4. ASSUME NEW l \in Logs, JobFails(l)
      PROVE  CheckInsInv'
  <2>1. PICK f \in {Idle} \cup CheckInFrames :
           Goes(Cron, f) /\ CheckInSound(f) /\ (~overlap => CheckInGood(f))
    BY <1>4, JobLeaves DEF JobFails
  <2>2. Cron \in Workers /\ frame[Cron] # Idle /\ UNCHANGED CI_rows
    BY <1>4, RequestsAssumption DEF JobFails, Doing, Idle
  <2> QED
    BY <2>1, <2>2, CheckInMove DEF Moves
<1>5. ASSUME NEW w \in Workers, Fails(w), UNCHANGED CI_rows
      PROVE  CheckInsInv'
  BY <1>5, CheckInMove DEF Fails, Ends, Moves, CheckInSound, CheckInGood, Idle
<1>6. CASE HourPasses
  <2>1. UNCHANGED <<requests, overlap, frame, log, left>> /\ hour' = hour + 1
        /\ hour' \in Hours
    BY <1>6, CheckInsAssumption DEF HourPasses, requests, CheckInsInv, CheckInsType, Hours
  <2>2. Framed(CheckInFrames)'
    BY <2>1, Unmoved DEF CheckInsInv
  <2>3. hour \in Int /\ hour' > hour
    BY <2>1, CheckInsAssumption DEF CheckInsInv, CheckInsType, Hours
  <2>4. ASSUME NEW w \in Workers
        PROVE  CheckInSound(frame[w])'
    <3>1. CheckInSound(frame[w])
      BY DEF CheckInsInv
    <3>2. CASE frame[w].op = "checkOut"
      <4>1. frame[w] \in Departures
        BY <3>2, CheckInFrame
      <4>2. frame[w].row.out \in Int /\ frame[w].row.in \in Int
        BY <4>1 DEF Departures, LogRow, Hours, Open
      <4> QED
        BY <2>1, <2>3, <3>1, <3>2, <4>2 DEF CheckInSound
    <3>3. CASE frame[w].op = "close"
      <4>1. frame[w] \in Sweeps
        BY <3>3, CheckInFrame
      <4>2. ASSUME NEW l \in frame[w].todo
            PROVE  /\ l \in DOMAIN frame[w].rows /\ frame[w].rows[l].in + MaxHours < hour'
                   /\ frame[w].rows[l].member # "none"
        <5>1. /\ l \in DOMAIN frame[w].rows /\ frame[w].rows[l].in + MaxHours < hour
              /\ frame[w].rows[l].member # "none"
          BY <3>1, <3>3 DEF CheckInSound
        <5>2. frame[w].rows[l] \in LogRow
          BY <4>1, <5>1 DEF Sweeps
        <5>3. frame[w].rows[l].in \in Int /\ MaxHours \in Nat
          BY <5>2, CheckInsAssumption DEF LogRow, Hours
        <5> QED
          BY <2>3, <2>1, <5>1, <5>3
      <4> QED
        BY <2>1, <3>3, <4>2 DEF CheckInSound
    <3>4. CASE frame[w].op \notin {"checkOut", "close"}
      BY <2>1, <3>4 DEF CheckInSound
    <3> QED
      BY <3>2, <3>3, <3>4
  <2>5. ASSUME NEW l \in Logs
        PROVE  log'[l].in <= hour' /\ log'[l].out <= hour'
    <3>1. log[l].in \in Int /\ log[l].out \in Int /\ log[l].in <= hour /\ log[l].out <= hour
      BY DEF CheckInsInv, CheckInsType, LogRow, Hours, Open
    <3> QED
      BY <2>1, <2>3, <3>1
  <2>6. ~overlap => (\A w \in Workers : CheckInGood(frame[w])') /\ SessionsApart' /\ EndKept'
    BY <2>1 DEF CheckInsInv, CheckInGood, SessionsApart, EndKept, IsOpen, Written, Closed
  <2>7. CheckInsType' /\ OnlyStaleSwept' /\ \A l \in Logs : ~Written(l)' => log'[l].out = Open
    BY <2>1 DEF CheckInsInv, CheckInsType, OnlyStaleSwept, Written
  <2> QED
    BY <2>1, <2>2, <2>4, <2>5, <2>6, <2>7 DEF CheckInsInv
<1>7. CASE UNCHANGED checkInVars
  <2>1. UNCHANGED <<requests, overlap, frame, hour, log, left>>
    BY <1>7 DEF checkInVars, CI_rows, requests
  <2>2. Framed(CheckInFrames)'
    BY <2>1, Unmoved DEF CheckInsInv
  <2>3. ~overlap => (\A w \in Workers : CheckInGood(frame[w])') /\ SessionsApart' /\ EndKept'
    BY <2>1 DEF CheckInsInv, CheckInGood, SessionsApart, EndKept, IsOpen, Written, Closed
  <2>4. CheckInsType' /\ OnlyStaleSwept' /\ \A w \in Workers : CheckInSound(frame[w])'
    BY <2>1 DEF CheckInsInv, CheckInsType, OnlyStaleSwept, CheckInSound
  <2> QED
    BY <2>1, <2>2, <2>3, <2>4 DEF CheckInsInv, Written
<1> QED
  BY <1>1, <1>2, <1>3, <1>4, <1>5, <1>6, <1>7, LogInsertedStep, CheckOutSavedStep,
     JobClosesStep DEF CheckInsNext

LEMMA CheckInsHold == CheckInsInv => CheckInsKept /\ CheckInsType
BY DEF CheckInsInv, CheckInsKept

LEMMA CheckInsEmpty == CheckInsInit => CheckInsKept /\ CheckInsType
<1> SUFFICES ASSUME CheckInsInit
             PROVE  CheckInsKept /\ CheckInsType
  OBVIOUS
<1>1. 0 \in Hours /\ NoLog \in LogRow
  BY CheckInsAssumption DEF Hours, NoLog, LogRow
<1>2. CheckInsType
  BY <1>1 DEF CheckInsInit, CheckInsType
<1>3. \A l \in Logs : ~Written(l) /\ ~log[l].auto /\ log[l].out = Open /\ left[l] = Open
  BY DEF CheckInsInit, Written, NoLog
<1> QED
  BY <1>2, <1>3 DEF CheckInsKept, OnlyStaleSwept, SessionsApart, EndKept

LEMMA CheckInsStart == RequestsInit /\ CheckInsInit => CheckInsInv
<1> SUFFICES ASSUME RequestsInit, CheckInsInit
             PROVE  CheckInsInv
  OBVIOUS
<1>1. Framed(CheckInFrames) /\ \A w \in Workers : frame[w] = Idle
  BY AllIdle
<1>2. CheckInSound(Idle) /\ CheckInGood(Idle)
  BY DEF CheckInSound, CheckInGood, Idle
<1>3. \A l \in Logs : log[l].in <= hour /\ log[l].out <= hour /\ log[l].out = Open
  BY DEF CheckInsInit, NoLog, Open
<1>4. \A l \in Logs : ~Written(l) /\ ~log[l].auto /\ left[l] = Open
  BY DEF CheckInsInit, Written, NoLog
<1>5. CheckInsType
  BY CheckInsEmpty
<1> QED
  BY <1>1, <1>2, <1>3, <1>4, <1>5
     DEF CheckInsInv, OnlyStaleSwept, SessionsApart, EndKept

\* The job ends only sessions that had lasted too long, whatever comes in between; when
\* requests do not overlap a member is in a room once at a time, and the time a session
\* ended is not written over (check-in.provider.ts, stale-checkin.job.ts).
THEOREM CheckInsAreKept == CheckInsSpec => []CheckInsKept
<1>1. CheckInsInv /\ [CheckInsNext]_checkInVars => CheckInsInv'
  BY CheckInsStep
<1> QED
  BY <1>1, CheckInsHold, CheckInsStart, PTL DEF CheckInsSpec

-----------------------------------------------------------------------------
(* Accounts.                                                               *)

RowInHand == [email : Emails \cup {"none", "erased"}, verified : BOOLEAN,
              vcode : Codes \cup {NoCode}, rcode : Codes \cup {NoCode, Keep},
              link : Codes \cup {NoCode}, password : Codes \cup {NoCode},
              secret : BOOLEAN, twofa : BOOLEAN, backup : SUBSET Codes, active : BOOLEAN]
AccountFrames == [op : {"account"}, user : Users, row : RowInHand,
                  code : Codes \cup {NoCode}, facts : SUBSET Facts]

\* Two rows say the same, but of the facts F.
Agree(r, s, F) ==
    /\ "verified" \notin F => r.verified = s.verified
    /\ "password" \notin F => r.password = s.password
    /\ "twofa" \notin F => r.twofa = s.twofa
    /\ "secret" \notin F => r.secret = s.secret
    /\ "backup" \notin F => r.backup = s.backup
    /\ "link" \notin F => r.link = s.link
    /\ "active" \notin F => r.active = s.active

\* The codes with which a row lets somebody do something, once each.
Holds(row, c) == c = row.vcode \/ c = row.link \/ c \in row.backup
Apart(row) ==
    /\ row.vcode \in Codes => row.vcode # row.link /\ row.vcode \notin row.backup
    /\ row.link \in Codes => row.link \notin row.backup

\* No code of a user's row was used, and none is another user's.
Unused(u, c) ==
    /\ c <= issued /\ uses[c] = 0
    /\ \A v \in Users \ {u} : ~Holds(account[v], c)
Fresh(u, row) == \A c \in Codes : Holds(row, c) => Unused(u, c)

\* What a request is going to save is the row as it is, but for what it is about.
AccountGood(f) ==
    f.op = "account" =>
        /\ Agree(f.row, account[f.user], f.facts)
        /\ Apart(f.row) /\ Fresh(f.user, f.row)
        /\ f.code \in Codes => ~Holds(f.row, f.code) /\ Unused(f.user, f.code)

AccountsInv ==
    /\ Framed(AccountFrames)
    /\ AccountsType
    /\ DOMAIN latest = Users /\ \A u \in Users : Facts \subseteq DOMAIN latest[u]
    /\ ~overlap =>
          /\ \A w \in Workers : AccountGood(frame[w])
          /\ \A u \in Users : Apart(account[u]) /\ Fresh(u, account[u])
          /\ \A c \in Codes : c > issued => uses[c] = 0
          /\ NothingUndone /\ CodesWorkOnce

LEMMA AgreeOnFacts ==
    ASSUME NEW r, NEW s, NEW F, Agree(r, s, F)
    PROVE  \A k \in Facts \ F : r[k] = s[k]
BY DEF Facts, Agree

LEMMA CodesAreNumbers == Codes \subseteq Int /\ NoCode \notin Codes /\ Keep \notin Codes
BY AccountsAssumption DEF Codes, NoCode, Keep

\* A request that starts or ends: no row changes, and codes may be issued.
LEMMA AccountMove ==
    ASSUME AccountsInv, NEW w \in Workers, NEW f \in {Idle} \cup AccountFrames, Moves(w, f),
           UNCHANGED <<account, lapsed, uses, latest>>, issued' \in 0..MaxCodes,
           issued <= issued', ~overlap => AccountGood(f)'
    PROVE  AccountsInv'
<1>1. Framed(AccountFrames)' /\ Alone(w, f)
  BY Moved DEF AccountsInv
<1>2. AccountsType' /\ DOMAIN latest' = Users
      /\ \A u \in Users : Facts \subseteq DOMAIN latest'[u]
  BY DEF AccountsInv, AccountsType
<1>3. ASSUME ~overlap, NEW v \in Workers
      PROVE  AccountGood(frame[v])'
  <2>1. CASE v = w
    <3>1. frame'[v] = f
      BY <1>1, <2>1 DEF Alone
    <3> QED
      BY <1>3, <3>1 DEF AccountGood, Fresh, Unused
  <2>2. CASE v # w
    BY <1>1, <1>3, <2>2 DEF Alone, AccountGood, Idle
  <2> QED
    BY <2>1, <2>2
<1>4. ASSUME ~overlap
      PROVE  /\ \A u \in Users : Apart(account[u])' /\ Fresh(u, account[u])'
             /\ \A c \in Codes : c > issued' => uses'[c] = 0
  <2>1. issued \in Int /\ issued' \in Int
    BY AccountsAssumption DEF AccountsInv, AccountsType
  <2>2. \A c \in Codes : (c > issued' => c > issued) /\ (c <= issued => c <= issued')
    BY <2>1, CodesAreNumbers
  <2> QED
    BY <1>4, <2>2 DEF AccountsInv, Apart, Fresh, Unused, Holds
<1>5. ~overlap => NothingUndone' /\ CodesWorkOnce'
  BY DEF AccountsInv, NothingUndone, CodesWorkOnce
<1> QED
  BY <1>1, <1>2, <1>3, <1>4, <1>5 DEF AccountsInv, Alone

\* A request reads the row and changes it in hand.
LEMMA HandleStep ==
    ASSUME AccountsInv, NEW w \in Workers, NEW u \in Users, NEW row \in RowInHand,
           NEW code \in Codes \cup {NoCode}, NEW facts \in SUBSET Facts,
           Handle(w, u, row, code, facts), issued' \in 0..MaxCodes, issued <= issued',
           Agree(row, account[u], facts),
           ~overlap =>
              /\ Apart(row)
              /\ \A c \in Codes : Holds(row, c) =>
                    Holds(account[u], c) \/ (issued < c /\ c <= issued')
              /\ code \in Codes => Holds(account[u], code) /\ ~Holds(row, code)
    PROVE  AccountsInv'
<1>1. PICK f : f = [op |-> "account", user |-> u, row |-> row, code |-> code, facts |-> facts]
  OBVIOUS
<1>2. /\ f \in AccountFrames /\ f.op = "account" /\ f.user = u /\ f.row = row
      /\ f.code = code /\ f.facts = facts
  BY <1>1 DEF AccountFrames
<1>3. Start(w, f) /\ UNCHANGED <<account, lapsed, uses, latest>>
  BY <1>1 DEF Handle
<1>4. ASSUME ~overlap
      PROVE  AccountGood(f)'
  <2>1. /\ Fresh(u, account[u]) /\ \A c \in Codes : c > issued => uses[c] = 0
        /\ \A v \in Users : Fresh(v, account[v])
    BY <1>4 DEF AccountsInv
  <2>2. issued \in Int /\ issued' \in Int
    BY AccountsAssumption DEF AccountsInv, AccountsType
  <2>3. ASSUME NEW c \in Codes, Holds(account[u], c)
        PROVE  Unused(u, c)'
    <3>1. Unused(u, c)
      BY <2>1, <2>3 DEF Fresh
    <3>2. c <= issued'
      BY <2>2, <3>1, CodesAreNumbers DEF Unused
    <3> QED
      BY <1>3, <3>1, <3>2 DEF Unused, Holds
  <2>4. ASSUME NEW c \in Codes, issued < c, c <= issued'
        PROVE  Unused(u, c)'
    <3>1. ~(c <= issued)
      BY <2>2, <2>4, CodesAreNumbers
    <3>2. \A v \in Users : ~Holds(account[v], c)
      BY <2>1, <3>1 DEF Fresh, Unused
    <3>3. uses[c] = 0
      BY <2>1, <2>2, <2>4, CodesAreNumbers
    <3> QED
      BY <1>3, <2>4, <3>2, <3>3 DEF Unused, Holds
  <2>5. Fresh(u, row)'
    BY <1>4, <2>3, <2>4 DEF Fresh, Holds
  <2>6. code \in Codes => ~Holds(row, code) /\ Unused(u, code)'
    BY <1>4, <2>3
  <2>7. Agree(row, account[u], facts)' /\ Apart(row)' /\ (~Holds(row, code) => ~Holds(row, code)')
    BY <1>3, <1>4 DEF Agree, Apart, Holds
  <2> QED
    BY <1>2, <2>5, <2>6, <2>7 DEF AccountGood
<1> QED
  BY <1>2, <1>3, <1>4, AccountMove DEF Moves

\* A request that issues no code and keeps those of the row, or drops some.
LEMMA CodesDropped ==
    ASSUME AccountsInv, NEW w \in Workers, NEW u \in Users, NEW row \in RowInHand,
           NEW code \in Codes \cup {NoCode}, NEW facts \in SUBSET Facts,
           Handle(w, u, row, code, facts), NoIssue, Agree(row, account[u], facts),
           row.vcode \in {account[u].vcode, NoCode}, row.link \in {account[u].link, NoCode},
           row.backup \subseteq account[u].backup,
           ~overlap /\ code \in Codes => Holds(account[u], code) /\ ~Holds(row, code)
    PROVE  AccountsInv'
<1>1. issued' \in 0..MaxCodes /\ issued <= issued'
  BY AccountsAssumption DEF AccountsInv, AccountsType, NoIssue
<1>2. ASSUME ~overlap
      PROVE  Apart(row)
  <2>1. Apart(account[u])
    BY <1>2 DEF AccountsInv
  <2> QED
    BY <2>1, CodesAreNumbers DEF Apart
<1>3. \A c \in Codes : Holds(row, c) => Holds(account[u], c)
  BY CodesAreNumbers DEF Holds
<1> QED
  BY <1>1, <1>2, <1>3, HandleStep

LEMMA AccountRowFacts ==
    ASSUME AccountsInv, NEW u \in Users
    PROVE  /\ account[u] \in Row /\ account[u] \in RowInHand /\ issued \in Nat
           /\ ~overlap => /\ Apart(account[u])
                          /\ \A c \in Codes : Holds(account[u], c) => c <= issued
<1>1. account[u] \in Row /\ issued \in Nat
  BY AccountsAssumption DEF AccountsInv, AccountsType
<1>2. account[u] \in RowInHand
  BY <1>1 DEF Row, RowInHand
<1>3. ~overlap => Apart(account[u]) /\ Fresh(u, account[u])
  BY DEF AccountsInv
<1> QED
  BY <1>1, <1>2, <1>3 DEF Fresh, Unused

\* The requests that use or drop codes, or change nothing of them.
LEMMA QuietRequestStep ==
    ASSUME AccountsInv, NEW w \in Workers, NEW u \in Users, NEW active \in BOOLEAN,
           \/ VerifyOtp(w, u) \/ VerifyReset(w, u) \/ ResetPassword(w, u)
           \/ ResetByLink(w, u) \/ InitiateSetup(w, u) \/ Disable(w, u)
           \/ UpdateStatus(w, u, active) \/ Erase(w, u)
    PROVE  AccountsInv'
<1> DEFINE old == account[u]
<1>1. old \in RowInHand /\ old \in Row
  BY AccountRowFacts
<1>2. CASE VerifyOtp(w, u)
  <2>1. PICK row : row = [old EXCEPT !.verified = TRUE, !.vcode = NoCode]
    OBVIOUS
  <2>2. Handle(w, u, row, old.vcode, {"verified"}) /\ NoIssue
    BY <1>2, <2>1 DEF VerifyOtp
  <2>3. old.vcode \in Codes
    BY <1>2 DEF VerifyOtp, Usable
  <2>4. row \in RowInHand /\ Agree(row, old, {"verified"})
        /\ row.vcode \in {old.vcode, NoCode} /\ row.link \in {old.link, NoCode}
        /\ row.backup \subseteq old.backup
        /\ row.vcode = NoCode /\ row.link = old.link /\ row.backup = old.backup
    BY <1>1, <2>1 DEF RowInHand, Row, Agree
  <2>5. ~overlap => Holds(old, old.vcode) /\ ~Holds(row, old.vcode)
    BY <2>3, <2>4, CodesAreNumbers, AccountRowFacts DEF Apart, Holds
  <2>6. {"verified"} \in SUBSET Facts
    BY DEF Facts
  <2> HIDE DEF old
  <2> QED
    BY <2>2, <2>4, <2>3, <2>5, <2>6, CodesDropped DEF old
<1>3. CASE VerifyReset(w, u)
  <2>1. PICK row : row = old
    OBVIOUS
  <2>2. Handle(w, u, row, NoCode, {}) /\ NoIssue
    BY <1>3, <2>1 DEF VerifyReset
  <2>4. row \in RowInHand /\ Agree(row, old, {})
        /\ row.vcode \in {old.vcode, NoCode} /\ row.link \in {old.link, NoCode}
        /\ row.backup \subseteq old.backup
    BY <1>1, <2>1 DEF RowInHand, Row, Agree
  <2>6. {} \in SUBSET Facts
    BY DEF Facts
  <2> HIDE DEF old
  <2> QED
    BY <2>2, <2>4, CodesAreNumbers, <2>6, CodesDropped DEF old
<1>4. CASE ResetPassword(w, u)
  <2>1. PICK row : row = [old EXCEPT !.password = old.rcode, !.rcode = Keep]
    OBVIOUS
  <2>2. Handle(w, u, row, NoCode, {"password"}) /\ NoIssue
    BY <1>4, <2>1 DEF ResetPassword
  <2>4. row \in RowInHand /\ Agree(row, old, {"password"})
        /\ row.vcode \in {old.vcode, NoCode} /\ row.link \in {old.link, NoCode}
        /\ row.backup \subseteq old.backup
    BY <1>1, <2>1 DEF RowInHand, Row, Agree
  <2>6. {"password"} \in SUBSET Facts
    BY DEF Facts
  <2> HIDE DEF old
  <2> QED
    BY <2>2, <2>4, CodesAreNumbers, <2>6, CodesDropped DEF old
<1>5. CASE ResetByLink(w, u)
  <2>1. PICK row : row = [old EXCEPT !.password = old.link, !.link = NoCode]
    OBVIOUS
  <2>2. Handle(w, u, row, old.link, {"password", "link"}) /\ NoIssue
    BY <1>5, <2>1 DEF ResetByLink
  <2>3. old.link \in Codes
    BY <1>5 DEF ResetByLink, Usable
  <2>4. row \in RowInHand /\ Agree(row, old, {"password", "link"})
        /\ row.vcode \in {old.vcode, NoCode} /\ row.link \in {old.link, NoCode}
        /\ row.backup \subseteq old.backup
        /\ row.link = NoCode /\ row.vcode = old.vcode /\ row.backup = old.backup
    BY <1>1, <2>1 DEF RowInHand, Row, Agree
  <2>5. ~overlap => Holds(old, old.link) /\ ~Holds(row, old.link)
    BY <2>3, <2>4, CodesAreNumbers, AccountRowFacts DEF Apart, Holds
  <2>6. {"password", "link"} \in SUBSET Facts
    BY DEF Facts
  <2> HIDE DEF old
  <2> QED
    BY <2>2, <2>4, <2>3, <2>5, <2>6, CodesDropped DEF old
<1>6. CASE InitiateSetup(w, u)
  <2>1. PICK row : row = [old EXCEPT !.secret = TRUE]
    OBVIOUS
  <2>2. Handle(w, u, row, NoCode, {"secret"}) /\ NoIssue
    BY <1>6, <2>1 DEF InitiateSetup
  <2>4. row \in RowInHand /\ Agree(row, old, {"secret"})
        /\ row.vcode \in {old.vcode, NoCode} /\ row.link \in {old.link, NoCode}
        /\ row.backup \subseteq old.backup
    BY <1>1, <2>1 DEF RowInHand, Row, Agree
  <2>6. {"secret"} \in SUBSET Facts
    BY DEF Facts
  <2> HIDE DEF old
  <2> QED
    BY <2>2, <2>4, CodesAreNumbers, <2>6, CodesDropped DEF old
<1>7. CASE Disable(w, u)
  <2>1. PICK row : row = [old EXCEPT !.twofa = FALSE, !.secret = FALSE, !.backup = {}]
    OBVIOUS
  <2>2. Handle(w, u, row, NoCode, {"twofa", "secret", "backup"}) /\ NoIssue
    BY <1>7, <2>1 DEF Disable
  <2>4. row \in RowInHand /\ Agree(row, old, {"twofa", "secret", "backup"})
        /\ row.vcode \in {old.vcode, NoCode} /\ row.link \in {old.link, NoCode}
        /\ row.backup \subseteq old.backup
    BY <1>1, <2>1 DEF RowInHand, Row, Agree
  <2>6. {"twofa", "secret", "backup"} \in SUBSET Facts
    BY DEF Facts
  <2> HIDE DEF old
  <2> QED
    BY <2>2, <2>4, CodesAreNumbers, <2>6, CodesDropped DEF old
<1>8. CASE UpdateStatus(w, u, active)
  <2>1. PICK row : row = [old EXCEPT !.active = active]
    OBVIOUS
  <2>2. Handle(w, u, row, NoCode, {"active"}) /\ NoIssue
    BY <1>8, <2>1 DEF UpdateStatus
  <2>4. row \in RowInHand /\ Agree(row, old, {"active"})
        /\ row.vcode \in {old.vcode, NoCode} /\ row.link \in {old.link, NoCode}
        /\ row.backup \subseteq old.backup
    BY <1>1, <2>1 DEF RowInHand, Row, Agree
  <2>6. {"active"} \in SUBSET Facts
    BY DEF Facts
  <2> HIDE DEF old
  <2> QED
    BY <2>2, <2>4, CodesAreNumbers, <2>6, CodesDropped DEF old
<1>9. CASE Erase(w, u)
  <2>1. PICK row : row = [old EXCEPT !.email = "erased", !.active = FALSE]
    OBVIOUS
  <2>2. Handle(w, u, row, NoCode, {"active"}) /\ NoIssue
    BY <1>9, <2>1 DEF Erase
  <2>4. row \in RowInHand /\ Agree(row, old, {"active"})
        /\ row.vcode \in {old.vcode, NoCode} /\ row.link \in {old.link, NoCode}
        /\ row.backup \subseteq old.backup
    BY <1>1, <2>1 DEF RowInHand, Row, Agree
  <2>6. {"active"} \in SUBSET Facts
    BY DEF Facts
  <2> HIDE DEF old
  <2> QED
    BY <2>2, <2>4, CodesAreNumbers, <2>6, CodesDropped DEF old
<1> QED
  BY <1>2, <1>3, <1>4, <1>5, <1>6, <1>7, <1>8, <1>9

LEMMA BackupLoginStep ==
    ASSUME AccountsInv, NEW w \in Workers, NEW u \in Users, NEW c \in Codes,
           BackupLogin(w, u, c)
    PROVE  AccountsInv'
<1> DEFINE old == account[u]
<1>1. old \in RowInHand
  BY AccountRowFacts
<1>2. PICK row : row = [old EXCEPT !.backup = old.backup \ {c}]
  OBVIOUS
<1>3. Handle(w, u, row, c, {"backup"}) /\ NoIssue /\ c \in old.backup
  BY <1>2 DEF BackupLogin
<1>4. row \in RowInHand /\ Agree(row, old, {"backup"}) /\ row.vcode = old.vcode
      /\ row.link = old.link /\ row.backup = old.backup \ {c}
  BY <1>1, <1>2 DEF RowInHand, Agree
<1>5. ~overlap => Holds(old, c) /\ ~Holds(row, c)
  BY <1>3, <1>4, AccountRowFacts DEF Apart, Holds
<1>6. {"backup"} \in SUBSET Facts
  BY DEF Facts
<1> HIDE DEF old
<1> QED
  BY <1>3, <1>4, <1>5, <1>6, CodesDropped DEF old

\* The requests that issue codes.
LEMMA IssuingRequestStep ==
    ASSUME AccountsInv, NEW w \in Workers, NEW u \in Users,
           ResendOtp(w, u) \/ RequestReset(w, u) \/ ForgotPassword(w, u) \/ ConfirmSetup(w, u)
    PROVE  AccountsInv'
<1> DEFINE old == account[u]
           n == issued + 1
<1>1. old \in RowInHand /\ issued \in Nat
  BY AccountRowFacts
<1>2. n \in Int /\ issued < n /\ n # NoCode /\ (n <= MaxCodes => n \in Codes)
  BY <1>1, AccountsAssumption DEF Codes, NoCode
<1>3. ~overlap => /\ n \notin old.backup /\ n # old.vcode /\ n # old.link
                  /\ n + 1 # old.vcode /\ n + 1 # old.link
  <2>1. old.backup \subseteq Codes /\ old.vcode \in Codes \cup {NoCode}
        /\ old.link \in Codes \cup {NoCode}
    BY <1>1 DEF RowInHand
  <2>2. ~overlap => \A c \in Codes : Holds(old, c) => c <= issued
    BY AccountRowFacts
  <2>3. \A c \in Codes : c <= issued => c # n /\ c # n + 1
    BY <1>1, CodesAreNumbers
  <2>4. n # NoCode /\ n + 1 # NoCode
    BY <1>1 DEF NoCode
  <2> HIDE DEF old, n
  <2> QED
    BY <2>1, <2>2, <2>3, <2>4 DEF Holds
<1>4. CASE ResendOtp(w, u)
  <2>1. PICK row : row = [old EXCEPT !.vcode = n]
    OBVIOUS
  <2>2. Handle(w, u, row, NoCode, {}) /\ issued' = n /\ n <= MaxCodes
    BY <1>4, <2>1 DEF ResendOtp, Issue
  <2>3. row \in RowInHand /\ Agree(row, old, {}) /\ row.vcode = n /\ row.link = old.link
        /\ row.backup = old.backup
    BY <1>1, <1>2, <2>1, <2>2 DEF RowInHand, Agree
  <2>4. issued' \in 0..MaxCodes /\ issued <= issued' /\ n <= issued'
    BY <1>1, <2>2, AccountsAssumption
  <2> HIDE DEF old, n
  <2>5. ~overlap => Apart(row)
    BY <1>3, <2>3, AccountRowFacts DEF Apart, old
  <2>6. \A c \in Codes : Holds(row, c) => Holds(old, c) \/ (issued < c /\ c <= issued')
    BY <1>2, <2>3, <2>4 DEF Holds
  <2>7. {} \in SUBSET Facts
    OBVIOUS
  <2> QED
    BY <2>2, <2>3, <2>4, <2>5, <2>6, <2>7, CodesAreNumbers, HandleStep DEF old
<1>5. CASE RequestReset(w, u)
  <2>1. PICK row : row = [old EXCEPT !.rcode = n]
    OBVIOUS
  <2>2. Handle(w, u, row, NoCode, {}) /\ issued' = n /\ n <= MaxCodes
    BY <1>5, <2>1 DEF RequestReset, Issue
  <2>3. row \in RowInHand /\ Agree(row, old, {}) /\ row.vcode = old.vcode
        /\ row.link = old.link /\ row.backup = old.backup
    BY <1>1, <1>2, <2>1, <2>2 DEF RowInHand, Agree
  <2>4. issued' \in 0..MaxCodes /\ issued <= issued'
    BY <1>1, <2>2, AccountsAssumption
  <2> HIDE DEF old, n
  <2>5. ~overlap => Apart(row)
    BY <2>3, AccountRowFacts DEF Apart, old
  <2>6. \A c \in Codes : Holds(row, c) => Holds(old, c)
    BY <2>3 DEF Holds
  <2>7. {} \in SUBSET Facts
    OBVIOUS
  <2> QED
    BY <2>2, <2>3, <2>4, <2>5, <2>6, <2>7, CodesAreNumbers, HandleStep DEF old
<1>6. CASE ForgotPassword(w, u)
  <2>1. PICK row : row = [old EXCEPT !.link = n]
    OBVIOUS
  <2>2. Handle(w, u, row, NoCode, {"link"}) /\ issued' = n /\ n <= MaxCodes
    BY <1>6, <2>1 DEF ForgotPassword, Issue
  <2>3. row \in RowInHand /\ Agree(row, old, {"link"}) /\ row.vcode = old.vcode
        /\ row.link = n /\ row.backup = old.backup
    BY <1>1, <1>2, <2>1, <2>2 DEF RowInHand, Agree
  <2>4. issued' \in 0..MaxCodes /\ issued <= issued' /\ n <= issued'
    BY <1>1, <2>2, AccountsAssumption
  <2> HIDE DEF old, n
  <2>5. ~overlap => Apart(row)
    BY <1>3, <2>3, AccountRowFacts DEF Apart, old
  <2>6. \A c \in Codes : Holds(row, c) => Holds(old, c) \/ (issued < c /\ c <= issued')
    BY <1>2, <2>3, <2>4 DEF Holds
  <2>7. {"link"} \in SUBSET Facts
    BY DEF Facts
  <2> QED
    BY <2>2, <2>3, <2>4, <2>5, <2>6, <2>7, CodesAreNumbers, HandleStep DEF old
<1>7. CASE ConfirmSetup(w, u)
  <2>1. PICK row : row = [old EXCEPT !.twofa = TRUE, !.backup = {n, issued + 2}]
    OBVIOUS
  <2>2. Handle(w, u, row, NoCode, {"twofa", "backup"}) /\ issued' = issued + 2
        /\ issued + 2 <= MaxCodes
    BY <1>7, <2>1 DEF ConfirmSetup, Issue
  <2>3. /\ issued' \in 0..MaxCodes /\ issued <= issued' /\ n <= issued' /\ n \in Codes
        /\ issued + 2 \in Codes /\ issued < issued + 2 /\ issued + 2 = n + 1
    BY <1>1, <2>2, AccountsAssumption DEF Codes
  <2>4. row \in RowInHand /\ Agree(row, old, {"twofa", "backup"}) /\ row.vcode = old.vcode
        /\ row.link = old.link /\ row.backup = {n, n + 1}
    BY <1>1, <2>1, <2>3 DEF RowInHand, Agree
  <2>5. issued' = n + 1 /\ issued < n + 1 /\ n + 1 <= issued'
    BY <1>1, <2>2
  <2> HIDE DEF old, n
  <2>6. ~overlap => Apart(row)
    BY <1>3, <2>4, AccountRowFacts DEF Apart, old
  <2>7. \A c \in Codes : Holds(row, c) => Holds(old, c) \/ (issued < c /\ c <= issued')
    BY <1>2, <2>3, <2>4, <2>5 DEF Holds
  <2>8. {"twofa", "backup"} \in SUBSET Facts
    BY DEF Facts
  <2> QED
    BY <2>2, <2>3, <2>4, <2>6, <2>7, <2>8, CodesAreNumbers, HandleStep DEF old
<1> QED
  BY <1>4, <1>5, <1>6, <1>7

LEMMA RegisterStep ==
    ASSUME AccountsInv, NEW w \in Workers, NEW u \in Users, NEW email \in Emails,
           NEW withCode \in BOOLEAN, Register(w, u, email, withCode)
    PROVE  AccountsInv'
<1> DEFINE code == IF withCode THEN issued + 1 ELSE NoCode
<1>1. issued \in Nat
  BY AccountRowFacts
<1>2. PICK row : row = [NoAccountRow EXCEPT !.email = email, !.vcode = code]
  OBVIOUS
<1>3. Handle(w, u, row, NoCode, Facts)
  BY <1>2 DEF Register
<1>4. /\ issued' \in 0..MaxCodes /\ issued <= issued' /\ code \in Codes \cup {NoCode}
      /\ code \in Codes => issued < code /\ code <= issued'
  <2>1. CASE withCode
    <3>1. issued' = issued + 1 /\ issued + 1 <= MaxCodes /\ code = issued + 1
      BY <2>1 DEF Register, Issue
    <3>2. issued + 1 \in Codes /\ issued + 1 \in 0..MaxCodes /\ issued < issued + 1
      BY <1>1, <3>1, AccountsAssumption DEF Codes
    <3> HIDE DEF code
    <3> QED
      BY <1>1, <3>1, <3>2
  <2>2. CASE ~withCode
    <3>1. issued' = issued /\ code = NoCode
      BY <2>2 DEF Register, NoIssue
    <3>2. issued \in 0..MaxCodes
      BY DEF AccountsInv, AccountsType
    <3> HIDE DEF code
    <3> QED
      BY <1>1, <3>1, <3>2, CodesAreNumbers
  <2> QED
    BY <2>1, <2>2
<1> HIDE DEF code
<1>5. row \in RowInHand /\ row.vcode = code /\ row.link = NoCode /\ row.backup = {}
  BY <1>2, <1>4 DEF NoAccountRow, RowInHand
<1>6. Agree(row, account[u], Facts)
  BY DEF Agree, Facts
<1>7. Apart(row) /\ \A c \in Codes : Holds(row, c) => issued < c /\ c <= issued'
  BY <1>4, <1>5, CodesAreNumbers DEF Apart, Holds
<1>8. Facts \in SUBSET Facts /\ NoCode \in Codes \cup {NoCode} /\ NoCode \notin Codes
  BY CodesAreNumbers
<1> QED
  BY <1>3, <1>4, <1>5, <1>6, <1>7, <1>8, HandleStep

LEMMA AccountSavedStep ==
    ASSUME AccountsInv, NEW w \in Workers, AccountSaved(w)
    PROVE  AccountsInv'
<1> DEFINE f == frame[w]
<1>0. PICK u, code, facts : u = f.user /\ code = f.code /\ facts = f.facts
  OBVIOUS
<1>1. f.op = "account" /\ f # Idle /\ f \in AccountFrames
  BY DEF AccountsInv, Framed, AccountSaved, Doing, Idle
<1>2. u \in Users /\ f.row \in RowInHand /\ code \in Codes \cup {NoCode}
  BY <1>0, <1>1 DEF AccountFrames
<1>3. PICK row : row = [f.row EXCEPT !.rcode = IF f.row.rcode = Keep THEN account[u].rcode
                                                                   ELSE f.row.rcode]
  OBVIOUS
<1>4. account[u] \in Row
  BY <1>2 DEF AccountsInv, AccountsType
<1>5. /\ row \in Row /\ row.vcode = f.row.vcode /\ row.link = f.row.link
      /\ row.backup = f.row.backup /\ Agree(row, f.row, {})
  <2>1. f.row.email # "erased"
    BY DEF AccountSaved
  <2> QED
    BY <1>2, <1>3, <1>4, <2>1 DEF Row, RowInHand, Agree
<1>6. PICK said : said = [k \in DOMAIN latest[u] |-> IF k \in facts THEN f.row[k]
                                                                  ELSE latest[u][k]]
  OBVIOUS
<1>7. /\ account' = [account EXCEPT ![u] = row]
      /\ uses' = [c \in Codes |-> uses[c] + (IF c = code THEN 1 ELSE 0)]
      /\ latest' = [latest EXCEPT ![u] = said]
      /\ issued' = issued /\ lapsed' = lapsed /\ Goes(w, Idle)
  BY <1>0, <1>3, <1>6 DEF AccountSaved, Ends
<1>8. Framed(AccountFrames)' /\ Alone(w, Idle)
  BY <1>1, <1>7, Moved DEF AccountsInv, Moves
<1>9. Facts \subseteq DOMAIN said /\ \A k \in Facts : said[k] = IF k \in facts THEN f.row[k]
                                                                 ELSE latest[u][k]
  BY <1>2, <1>6 DEF AccountsInv
<1>10. /\ account' \in [Users -> Row] /\ account'[u] = row
       /\ \A v \in Users \ {u} : account'[v] = account[v]
  <2> QED
    BY <1>2, <1>5, <1>7 DEF AccountsInv, AccountsType
<1>11. /\ DOMAIN latest' = Users /\ latest'[u] = said
       /\ \A v \in Users \ {u} : latest'[v] = latest[v]
  <2> QED
    BY <1>2, <1>7 DEF AccountsInv
<1>12. /\ uses' \in [Codes -> Nat] /\ \A c \in Codes \ {code} : uses'[c] = uses[c]
       /\ code \in Codes => uses'[code] = uses[code] + 1
  <2>1. uses \in [Codes -> Nat]
    BY DEF AccountsInv, AccountsType
  <2> QED
    BY <1>7, <2>1
<1>13. AccountsType' /\ \A v \in Users : Facts \subseteq DOMAIN latest'[v]
  <2> QED
    BY <1>7, <1>9, <1>10, <1>11, <1>12 DEF AccountsInv, AccountsType
<1>14. ~overlap => \A v \in Workers : AccountGood(frame[v])'
  BY <1>8 DEF Alone, AccountGood, Idle
<1>15. ASSUME ~overlap
       PROVE  NothingUndone'
  <2>1. Agree(f.row, account[u], facts) /\ NothingUndone
    BY <1>0, <1>1, <1>15 DEF AccountsInv, AccountGood
  <2>2. ASSUME NEW k \in Facts
        PROVE  row[k] = said[k]
    <3>1. row[k] = f.row[k]
      BY <1>5, AgreeOnFacts
    <3>2. CASE k \in facts
      BY <1>9, <3>1, <3>2
    <3>3. CASE k \notin facts
      <4>1. f.row[k] = account[u][k]
        BY <2>1, <3>3, AgreeOnFacts
      <4> QED
        BY <1>2, <1>9, <2>1, <3>1, <3>3, <4>1 DEF NothingUndone
    <3> QED
      BY <3>2, <3>3
  <2> QED
    BY <1>10, <1>11, <2>1, <2>2 DEF NothingUndone
<1>16. ASSUME ~overlap
       PROVE  CodesWorkOnce'
  <2>1. code \in Codes => uses[code] = 0
    BY <1>0, <1>1, <1>16 DEF AccountsInv, AccountGood, Unused
  <2>2. CodesWorkOnce
    BY <1>16 DEF AccountsInv
  <2> QED
    BY <1>12, <2>1, <2>2 DEF CodesWorkOnce
<1>17. ASSUME ~overlap
       PROVE  \A v \in Users : Apart(account[v])' /\ Fresh(v, account[v])'
  <2>1. /\ Apart(f.row) /\ Fresh(u, f.row)
        /\ code \in Codes => ~Holds(f.row, code) /\ Unused(u, code)
    BY <1>0, <1>1, <1>17 DEF AccountsInv, AccountGood
  <2>2. \A v \in Users : Apart(account[v]) /\ Fresh(v, account[v])
    BY <1>17 DEF AccountsInv
  <2>3. \A c : Holds(row, c) <=> Holds(f.row, c)
    BY <1>5 DEF Holds
  <2>4. Apart(row)
    BY <1>5, <2>1 DEF Apart
  <2>5. Fresh(u, row)'
    <3> SUFFICES ASSUME NEW c \in Codes, Holds(row, c)
                 PROVE  Unused(u, c)'
      BY DEF Fresh, Holds
    <3>1. Unused(u, c) /\ c # code
      BY <2>1, <2>3 DEF Fresh
    <3> QED
      BY <1>7, <1>10, <1>12, <3>1 DEF Unused, Holds
  <2>6. ASSUME NEW v \in Users \ {u}
        PROVE  Fresh(v, account[v])'
    <3> SUFFICES ASSUME NEW c \in Codes, Holds(account[v], c)
                 PROVE  Unused(v, c)'
      BY <1>10 DEF Fresh, Holds
    <3>1. Unused(v, c)
      BY <2>2 DEF Fresh
    <3>2. c # code
      BY <2>1 DEF Unused
    <3>3. ~Holds(row, c)
      BY <2>1, <2>3 DEF Fresh, Unused
    <3>4. \A x \in Users \ {v} : ~Holds(account'[x], c)
      BY <1>10, <3>1, <3>3 DEF Unused, Holds
    <3> QED
      BY <1>7, <1>12, <3>1, <3>2, <3>4 DEF Unused, Holds
  <2>7. ASSUME NEW v \in Users
        PROVE  Apart(account[v])'
    BY <1>10, <2>2, <2>4 DEF Apart
  <2> QED
    BY <1>10, <2>5, <2>6, <2>7 DEF Fresh, Holds
<1>18. ~overlap => \A c \in Codes : c > issued' => uses'[c] = 0
  <2> SUFFICES ASSUME ~overlap, NEW c \in Codes, c > issued
               PROVE  uses'[c] = 0
    BY <1>7
  <2>1. uses[c] = 0
    BY DEF AccountsInv
  <2>2. code \in Codes => code <= issued
    BY <1>0, <1>1 DEF AccountsInv, AccountGood, Unused
  <2>3. issued \in Nat
    BY <1>2, AccountRowFacts
  <2>4. c # code
    BY <2>2, <2>3, CodesAreNumbers
  <2> QED
    BY <1>12, <2>1, <2>4
<1> QED
  BY <1>8, <1>11, <1>13, <1>14, <1>15, <1>16, <1>17, <1>18 DEF AccountsInv, Alone

LEMMA AccountsStep ==
    ASSUME AccountsInv, [AccountsNext]_accountVars
    PROVE  AccountsInv'
<1>1. ASSUME NEW w \in Workers, NEW u \in Users, AccountRequest(w, u)
      PROVE  AccountsInv'
  BY <1>1, QuietRequestStep, BackupLoginStep, IssuingRequestStep, RegisterStep
     DEF AccountRequest
<1>2. ASSUME NEW w \in Workers, Fails(w), UNCHANGED AC_rows
      PROVE  AccountsInv'
  <2>1. UNCHANGED <<account, issued, lapsed, uses, latest>>
    BY <1>2 DEF AC_rows
  <2>2. issued' \in 0..MaxCodes /\ issued <= issued'
    BY <2>1, AccountsAssumption DEF AccountsInv, AccountsType
  <2>3. AccountGood(Idle)'
    BY DEF AccountGood, Idle
  <2> QED
    BY <1>2, <2>1, <2>2, <2>3, AccountMove DEF Fails, Ends, Moves
<1>3. ASSUME NEW c \in Codes, CodeLapses(c)
      PROVE  AccountsInv'
  <2>1. UNCHANGED <<requests, overlap, frame, account, issued, uses, latest>>
        /\ lapsed' = lapsed \cup {c}
    BY <1>3 DEF CodeLapses, requests
  <2>2. Framed(AccountFrames)'
    BY <2>1, Unmoved DEF AccountsInv
  <2>3. AccountsType'
    BY <2>1 DEF AccountsInv, AccountsType
  <2>4. ~overlap => /\ \A w \in Workers : AccountGood(frame[w])'
                    /\ \A u \in Users : Apart(account[u])' /\ Fresh(u, account[u])'
                    /\ NothingUndone' /\ CodesWorkOnce'
    BY <2>1 DEF AccountsInv, AccountGood, Fresh, Unused, Apart, Agree, Holds, NothingUndone,
                CodesWorkOnce
  <2> QED
    BY <2>1, <2>2, <2>3, <2>4 DEF AccountsInv
<1>4. CASE UNCHANGED accountVars
  <2>1. UNCHANGED <<requests, overlap, frame, account, issued, lapsed, uses, latest>>
    BY <1>4 DEF accountVars, AC_rows, requests
  <2>2. Framed(AccountFrames)'
    BY <2>1, Unmoved DEF AccountsInv
  <2>3. AccountsType'
    BY <2>1 DEF AccountsInv, AccountsType
  <2>4. ~overlap => /\ \A w \in Workers : AccountGood(frame[w])'
                    /\ \A u \in Users : Apart(account[u])' /\ Fresh(u, account[u])'
                    /\ NothingUndone' /\ CodesWorkOnce'
    BY <2>1 DEF AccountsInv, AccountGood, Fresh, Unused, Apart, Agree, Holds, NothingUndone,
                CodesWorkOnce
  <2> QED
    BY <2>1, <2>2, <2>3, <2>4 DEF AccountsInv
<1> QED
  BY <1>1, <1>2, <1>3, <1>4, AccountSavedStep DEF AccountsNext

LEMMA AccountsHold == AccountsInv => AccountsKept /\ AccountsType
BY DEF AccountsInv, AccountsKept

LEMMA AccountsEmpty == AccountsInit => AccountsKept /\ AccountsType
<1> SUFFICES ASSUME AccountsInit
             PROVE  AccountsKept /\ AccountsType
  OBVIOUS
<1>1. NoAccountRow \in Row
  BY DEF NoAccountRow, Row
<1>2. AccountsType
  BY <1>1, AccountsAssumption DEF AccountsInit, AccountsType
<1>3. NothingUndone
  BY DEF AccountsInit, NothingUndone
<1>4. CodesWorkOnce
  BY DEF AccountsInit, CodesWorkOnce
<1> QED
  BY <1>2, <1>3, <1>4 DEF AccountsKept

LEMMA AccountsStart == RequestsInit /\ AccountsInit => AccountsInv
<1> SUFFICES ASSUME RequestsInit, AccountsInit
             PROVE  AccountsInv
  OBVIOUS
<1>1. Framed(AccountFrames) /\ \A w \in Workers : frame[w] = Idle
  BY AllIdle
<1>2. \A w \in Workers : AccountGood(frame[w])
  BY <1>1 DEF AccountGood, Idle
<1>3. \A u \in Users : account[u] = NoAccountRow /\ latest[u] = NoAccountRow
  BY DEF AccountsInit
<1>4. \A u \in Users : Apart(account[u]) /\ \A c \in Codes : ~Holds(account[u], c)
  BY <1>3, CodesAreNumbers DEF NoAccountRow, Apart, Holds
<1>5. DOMAIN latest = Users /\ \A u \in Users : Facts \subseteq DOMAIN latest[u]
  BY <1>3 DEF AccountsInit, NoAccountRow, Facts
<1>6. AccountsType /\ NothingUndone /\ CodesWorkOnce /\ \A c \in Codes : uses[c] = 0
  <2>1. AccountsType
    BY AccountsEmpty
  <2>2. NothingUndone
    BY <1>3 DEF NothingUndone
  <2>3. \A c \in Codes : uses[c] = 0
    BY DEF AccountsInit
  <2> QED
    BY <2>1, <2>2, <2>3 DEF CodesWorkOnce
<1> QED
  BY <1>1, <1>2, <1>4, <1>5, <1>6 DEF AccountsInv, Fresh

\* When requests do not overlap, whatever a request saved of an account stays until
\* another request about it, and a code of one time works once (auth.service.ts and the
\* providers of users/, whose handlers save the whole row).
THEOREM AccountsAreKept == AccountsSpec => []AccountsKept
<1>1. AccountsInv /\ [AccountsNext]_accountVars => AccountsInv'
  BY AccountsStep
<1> QED
  BY <1>1, AccountsHold, AccountsStart, PTL DEF AccountsSpec

-----------------------------------------------------------------------------
(* The services together.                                                  *)

\* The one that serves keeps its invariant, and the tables of the others stay empty.
BackendInv ==
    /\ serving = "accounts" => AccountsInv
    /\ serving # "accounts" => AccountsInit
    /\ serving = "checkIns" => CheckInsInv
    /\ serving # "checkIns" => CheckInsInit
    /\ serving = "invoices" => InvoicesInv
    /\ serving # "invoices" => InvoicesInit
    /\ serving = "parking" => ParkingInv
    /\ serving # "parking" => ParkingInit
    /\ serving = "plans" => PlansInv
    /\ serving # "plans" => MembershipPlansInit
    /\ serving = "visitors" => VisitorsInv
    /\ serving # "visitors" => VisitorsInit
    /\ serving = "newsletter" => NewsletterInv
    /\ serving # "newsletter" => NewsletterInit
    /\ serving = "leads" => LeadsInv
    /\ serving # "leads" => LeadsInit

\* A step is one of the service that serves, and leaves the tables of the others.
LEMMA OneServes ==
    ASSUME [MCNext]_all
    PROVE  /\ serving' = serving
           /\ serving = "accounts" => [AccountsNext]_accountVars
           /\ serving # "accounts" => UNCHANGED AC_rows
           /\ serving = "checkIns" => [CheckInsNext]_checkInVars
           /\ serving # "checkIns" => UNCHANGED CI_rows
           /\ serving = "invoices" => [InvoicesNext]_invoiceVars
           /\ serving # "invoices" => UNCHANGED IV_rows
           /\ serving = "parking" => [ParkingNext]_parkingVars
           /\ serving # "parking" => UNCHANGED PK_rows
           /\ serving = "plans" => [MembershipPlansNext]_planVars
           /\ serving # "plans" => UNCHANGED MP_rows
           /\ serving = "visitors" => [VisitorsNext]_visitorVars
           /\ serving # "visitors" => UNCHANGED VS_rows
           /\ serving = "newsletter" => [NewsletterNext]_newsletterVars
           /\ serving # "newsletter" => UNCHANGED NL_rows
           /\ serving = "leads" => [LeadsNext]_leadVars
           /\ serving # "leads" => UNCHANGED LD_rows
<1>1. CASE UNCHANGED all
  <2>1. UNCHANGED <<serving, requests, AC_rows, CI_rows, IV_rows, PK_rows, MP_rows, VS_rows,
                    NL_rows, LD_rows>>
    BY <1>1 DEF all
  <2> QED
    BY <2>1 DEF accountVars, checkInVars, invoiceVars, parkingVars, planVars, visitorVars,
                newsletterVars, leadVars
<1>2. CASE serving = "accounts" /\ AccountsCalls /\ Rest("accounts")
  BY <1>2 DEF Rest, AccountsCalls
<1>3. CASE serving = "checkIns" /\ CheckInsNext /\ Rest("checkIns")
  BY <1>3 DEF Rest
<1>4. CASE serving = "invoices" /\ InvoicesNext /\ Rest("invoices")
  BY <1>4 DEF Rest
<1>5. CASE serving = "parking" /\ ParkingNext /\ Rest("parking")
  BY <1>5 DEF Rest
<1>6. CASE serving = "plans" /\ MembershipPlansNext /\ Rest("plans")
  BY <1>6 DEF Rest
<1>7. CASE serving = "visitors" /\ VisitorsNext /\ Rest("visitors")
  BY <1>7 DEF Rest
<1>8. CASE serving = "newsletter" /\ NewsletterNext /\ Rest("newsletter")
  BY <1>8 DEF Rest
<1>9. CASE serving = "leads" /\ LeadsNext /\ Rest("leads")
  BY <1>9 DEF Rest
<1> QED
  BY <1>1, <1>2, <1>3, <1>4, <1>5, <1>6, <1>7, <1>8, <1>9 DEF MCNext

LEMMA AccountsUntouched ==
    ASSUME AccountsInit, UNCHANGED AC_rows
    PROVE  AccountsInit'
BY DEF AccountsInit, AC_rows

LEMMA CheckInsUntouched ==
    ASSUME CheckInsInit, UNCHANGED CI_rows
    PROVE  CheckInsInit'
BY DEF CheckInsInit, CI_rows

LEMMA InvoicesUntouched ==
    ASSUME InvoicesInit, UNCHANGED IV_rows
    PROVE  InvoicesInit'
BY DEF InvoicesInit, IV_rows

LEMMA ParkingUntouched ==
    ASSUME ParkingInit, UNCHANGED PK_rows
    PROVE  ParkingInit'
BY DEF ParkingInit, PK_rows

LEMMA PlansUntouched ==
    ASSUME MembershipPlansInit, UNCHANGED MP_rows
    PROVE  MembershipPlansInit'
BY DEF MembershipPlansInit, MP_rows

LEMMA VisitorsUntouched ==
    ASSUME VisitorsInit, UNCHANGED VS_rows
    PROVE  VisitorsInit'
BY DEF VisitorsInit, VS_rows

LEMMA NewsletterUntouched ==
    ASSUME NewsletterInit, UNCHANGED NL_rows
    PROVE  NewsletterInit'
BY DEF NewsletterInit, NL_rows

LEMMA LeadsUntouched ==
    ASSUME LeadsInit, UNCHANGED LD_rows
    PROVE  LeadsInit'
BY DEF LeadsInit, LD_rows

LEMMA BackendStep ==
    ASSUME BackendInv, [MCNext]_all
    PROVE  BackendInv'
<1>1. (serving' = "accounts" => AccountsInv') /\ (serving' # "accounts" => AccountsInit')
  BY OneServes, AccountsStep, AccountsUntouched DEF BackendInv
<1>2. (serving' = "checkIns" => CheckInsInv') /\ (serving' # "checkIns" => CheckInsInit')
  BY OneServes, CheckInsStep, CheckInsUntouched DEF BackendInv
<1>3. (serving' = "invoices" => InvoicesInv') /\ (serving' # "invoices" => InvoicesInit')
  BY OneServes, InvoicesStep, InvoicesUntouched DEF BackendInv
<1>4. (serving' = "parking" => ParkingInv') /\ (serving' # "parking" => ParkingInit')
  BY OneServes, ParkingStep, ParkingUntouched DEF BackendInv
<1>5. (serving' = "plans" => PlansInv') /\ (serving' # "plans" => MembershipPlansInit')
  BY OneServes, PlansStep, PlansUntouched DEF BackendInv
<1>6. (serving' = "visitors" => VisitorsInv') /\ (serving' # "visitors" => VisitorsInit')
  BY OneServes, VisitorsStep, VisitorsUntouched DEF BackendInv
<1>7. (serving' = "newsletter" => NewsletterInv') /\ (serving' # "newsletter" => NewsletterInit')
  BY OneServes, NewsletterStep, NewsletterUntouched DEF BackendInv
<1>8. (serving' = "leads" => LeadsInv') /\ (serving' # "leads" => LeadsInit')
  BY OneServes, LeadsStep, LeadsUntouched DEF BackendInv
<1> QED
  BY <1>1, <1>2, <1>3, <1>4, <1>5, <1>6, <1>7, <1>8 DEF BackendInv

LEMMA BackendHolds ==
    BackendInv =>
        /\ AccountsKept /\ AccountsType
        /\ CheckInsKept /\ CheckInsType
        /\ InvoicesKept /\ InvoicesType
        /\ ParkingKept /\ ParkingType
        /\ MembershipPlansKept /\ MembershipPlansType
        /\ VisitorsKept /\ VisitorsType
        /\ NewsletterKept /\ NewsletterType
        /\ LeadsKept /\ LeadsType
<1> SUFFICES ASSUME BackendInv
             PROVE  /\ AccountsKept /\ AccountsType
                    /\ CheckInsKept /\ CheckInsType
                    /\ InvoicesKept /\ InvoicesType
                    /\ ParkingKept /\ ParkingType
                    /\ MembershipPlansKept /\ MembershipPlansType
                    /\ VisitorsKept /\ VisitorsType
                    /\ NewsletterKept /\ NewsletterType
                    /\ LeadsKept /\ LeadsType
  OBVIOUS
<1>1. AccountsKept /\ AccountsType
  BY AccountsEmpty, AccountsHold DEF BackendInv
<1>2. CheckInsKept /\ CheckInsType
  BY CheckInsEmpty, CheckInsHold DEF BackendInv
<1>3. InvoicesKept /\ InvoicesType
  BY InvoicesEmpty, InvoicesHold DEF BackendInv
<1>4. ParkingKept /\ ParkingType
  BY ParkingEmpty DEF BackendInv, ParkingInv
<1>5. MembershipPlansKept /\ MembershipPlansType
  BY PlansEmpty, PlansHold DEF BackendInv
<1>6. VisitorsKept /\ VisitorsType
  BY VisitorsEmpty DEF BackendInv, VisitorsInv
<1>7. NewsletterKept /\ NewsletterType
  BY NewsletterEmpty DEF BackendInv, NewsletterInv, NewsletterKept
<1>8. LeadsKept /\ LeadsType
  BY LeadsEmpty, LeadsHold DEF BackendInv
<1> QED
  BY <1>1, <1>2, <1>3, <1>4, <1>5, <1>6, <1>7, <1>8

LEMMA BackendStart == MCInit => BackendInv
BY AccountsStart, CheckInsStart, InvoicesStart, ParkingStart, PlansStart, VisitorsStart, NewsletterStart, LeadsStart
   DEF MCInit, BackendInv

LEMMA BackendAlways == BackendSpec => []BackendInv
<1>1. BackendInv /\ [MCNext]_all => BackendInv'
  BY BackendStep
<1> QED
  BY <1>1, BackendStart, PTL DEF BackendSpec

\* Every table holds rows of its entity, whichever service runs.
THEOREM BackendIsTyped == BackendSpec => []BackendTypeOK
<1>1. BackendInv => BackendTypeOK
  BY BackendHolds DEF BackendTypeOK
<1> QED
  BY <1>1, BackendAlways, PTL

\* The records of what was used and paid are right in the backend as a whole
\* (check-in.provider.ts, stale-checkin.job.ts, invoices.service.ts).
THEOREM RecordsAreKept == BackendSpec => []RecordsKept
<1>1. BackendInv => RecordsKept
  BY BackendHolds DEF RecordsKept
<1> QED
  BY <1>1, BackendAlways, PTL

\* What members, hosts and readers are told agrees with the tables, in the backend as a
\* whole (parking, membership-plans, visitors, newsletter and leads services).
THEOREM DeskIsKept == BackendSpec => []DeskKept
<1>1. BackendInv => DeskKept
  BY BackendHolds DEF DeskKept
<1> QED
  BY <1>1, BackendAlways, PTL

\* What was saved of an account stays, and its codes work once, in the backend as a
\* whole (auth.service.ts, users/providers).
THEOREM BackendAccountsKept == BackendSpec => []AccountsKept
<1>1. BackendInv => AccountsKept
  BY BackendHolds
<1> QED
  BY <1>1, BackendAlways, PTL
=============================================================================

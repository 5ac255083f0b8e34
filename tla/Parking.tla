-------------------------------- MODULE Parking --------------------------------
(***************************************************************************)
(* Parking spots and the members they are assigned to                      *)
(* (parking/parking.service.ts).  A notice is stored or lost.              *)
(***************************************************************************)
EXTENDS Requests

CONSTANTS Spots, Drivers

VARIABLES
    spot,     \* a spot's row
    told      \* members last told that a spot is theirs, with no notice lost since

PK_rows == <<spot, told>>
parkingVars == <<requests, PK_rows>>

None == "none"

ASSUME ParkingAssumption == None \notin Drivers

ParkingInit ==
    /\ spot = [s \in Spots |-> [known |-> FALSE, active |-> FALSE, holder |-> None]]
    /\ told = [s \in Spots |-> {}]

ParkingType ==
    /\ spot \in [Spots -> [known : BOOLEAN, active : BOOLEAN, holder : Drivers \cup {None}]]
    /\ told \in [Spots -> SUBSET Drivers]

\* What is saved, and whom a notice then tells what.
SpotRequest(w, s, row, member, notice) ==
    /\ Start(w, [op |-> "spot", spot |-> s, row |-> row, member |-> member,
                 notice |-> notice, insert |-> ~spot[s].known])
    /\ UNCHANGED PK_rows

createSpot(w, s, active) ==
    /\ ~spot[s].known
    /\ SpotRequest(w, s, [known |-> TRUE, active |-> active, holder |-> None],
                   None, None)

updateSpot(w, s, active) ==
    /\ spot[s].known
    /\ SpotRequest(w, s, [spot[s] EXCEPT !.active = active], None, None)

\* Also of a spot that is not active.
assignSpot(w, s, d) ==
    /\ spot[s].known /\ spot[s].holder = None
    /\ SpotRequest(w, s, [spot[s] EXCEPT !.holder = d], d, "assigned")

\* The column is set to null while the relation read with it still names the member:
\* what save makes of the two is the library's matter, and both are possible.
unassignSpot(w, s) ==
    /\ spot[s].known
    /\ \E holder \in {None, spot[s].holder} :
          SpotRequest(w, s, [spot[s] EXCEPT !.holder = holder], spot[s].holder,
                      IF spot[s].holder = None THEN None ELSE "unassigned")

\* spotNumber is unique: a second insert of it fails.
SpotSaved(w) ==
    LET f == frame[w] IN
    /\ Doing(w, "spot")
    /\ f.insert => ~spot[f.spot].known
    /\ spot' = [spot EXCEPT ![f.spot] = f.row]
    /\ IF f.notice = None THEN Ends(w) ELSE Goes(w, [f EXCEPT !.op = "tell"])
    /\ UNCHANGED told

\* The member is told, or the notice fails and with it the request; the spot is saved.
MemberTold(w, stored) ==
    LET f == frame[w] IN
    /\ Doing(w, "tell")
    /\ told' = [told EXCEPT ![f.spot] =
          IF stored /\ f.notice = "assigned" THEN @ \cup {f.member} ELSE @ \ {f.member}]
    /\ Ends(w)
    /\ UNCHANGED spot

\* A request that fails before its save leaves nothing, after it a notice untold.
SpotRequestFails(w) ==
    /\ Doing(w, "spot") /\ Fails(w)
    /\ UNCHANGED PK_rows

ParkingNext ==
    \E w \in Workers \ {Cron}, s \in Spots :
       \/ \E active \in BOOLEAN : createSpot(w, s, active) \/ updateSpot(w, s, active)
       \/ \E d \in Drivers : assignSpot(w, s, d)
       \/ unassignSpot(w, s) \/ SpotSaved(w) \/ SpotRequestFails(w)
       \/ \E stored \in BOOLEAN : MemberTold(w, stored)

ParkingSpec == RequestsInit /\ ParkingInit /\ [][ParkingNext]_parkingVars

-----------------------------------------------------------------------------

\* A member who was last told that a spot is theirs has it and nobody else was told so,
\* unless a notice about it is on its way.
SpotsToldTrue ==
    \A s \in Spots :
        \/ told[s] \subseteq {spot[s].holder}
        \/ \E w \in Workers : Doing(w, "tell") /\ frame[w].spot = s

\* What parking promises when requests do not overlap (parking.service.ts:62).
ParkingKept == ~overlap => SpotsToldTrue
=============================================================================

------------------------------- MODULE Visitors -------------------------------
(***************************************************************************)
(* Visitors, from the host's announcement to their leaving                 *)
(* (visitors/visitors.service.ts).                                         *)
(***************************************************************************)
EXTENDS Requests

CONSTANTS Visits

VARIABLES
    visit,      \* a visitor's row: its status, "none" before it is there
    announced   \* visits whose host was told of the arrival

VS_rows == <<visit, announced>>
visitorVars == <<requests, VS_rows>>

VisitStatus == {"none", "EXPECTED", "CHECKED_IN", "CHECKED_OUT", "CANCELLED"}

VisitorsInit ==
    /\ visit = [v \in Visits |-> "none"]
    /\ announced = {}

VisitorsType ==
    /\ visit \in [Visits -> VisitStatus]
    /\ announced \subseteq Visits

VisitRequest(w, v, from, to) ==
    /\ visit[v] = from
    /\ Start(w, [op |-> "visit", visit |-> v, status |-> to])
    /\ UNCHANGED VS_rows

announceVisit(w, v) == VisitRequest(w, v, "none", "EXPECTED")
checkInVisitor(w, v) == VisitRequest(w, v, "EXPECTED", "CHECKED_IN")
checkOutVisitor(w, v) == VisitRequest(w, v, "CHECKED_IN", "CHECKED_OUT")
cancelVisit(w, v) == VisitRequest(w, v, "EXPECTED", "CANCELLED")

VisitSaved(w) ==
    LET f == frame[w] IN
    /\ Doing(w, "visit")
    /\ visit' = [visit EXCEPT ![f.visit] = f.status]
    /\ IF f.status = "CHECKED_IN" THEN Goes(w, [f EXCEPT !.op = "arrived"]) ELSE Ends(w)
    /\ UNCHANGED announced

\* The notice to the host comes after the save; without it (Fails) the visitor is
\* checked in all the same.
HostTold(w) ==
    /\ Doing(w, "arrived")
    /\ announced' = announced \cup {frame[w].visit}
    /\ Ends(w)
    /\ UNCHANGED visit

VisitorsNext ==
    \E w \in Workers \ {Cron} :
       \/ \E v \in Visits : \/ announceVisit(w, v) \/ checkInVisitor(w, v)
                            \/ checkOutVisitor(w, v) \/ cancelVisit(w, v)
       \/ VisitSaved(w) \/ HostTold(w)
       \/ Fails(w) /\ UNCHANGED VS_rows

VisitorsSpec == RequestsInit /\ VisitorsInit /\ [][VisitorsNext]_visitorVars

-----------------------------------------------------------------------------

\* A host is told of an arrival only of a visit that took place, and its record does
\* not say later that the visit was called off.
HostsToldTrue == \A v \in announced : visit[v] \in {"CHECKED_IN", "CHECKED_OUT"}

\* What visitor records promise when requests do not overlap (visitors.service.ts:126,
\* where a cancellation may come in between the read and the save).
VisitorsKept == ~overlap => HostsToldTrue
=============================================================================

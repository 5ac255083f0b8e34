--------------------------------- MODULE Leads ---------------------------------
(***************************************************************************)
(* Leads and their activity log (leads/leads.service.ts).                  *)
(***************************************************************************)
EXTENDS Requests

CONSTANTS
    Contacts,        \* e-mail addresses
    MaxActivities    \* bound: activities of a lead

ASSUME LeadsAssumption == MaxActivities \in Nat

VARIABLES
    lead,       \* an address's row
    happened    \* history: activities whose request was told that it is done

LD_rows == <<lead, happened>>
leadVars == <<requests, LD_rows>>

Stages == {"NEW", "CONTACTED", "WON"}
Activities == {"created", "touched", "stage_changed", "won"}
NoLead == [stage |-> "none", activities |-> << >>]

Known(e) == lead[e] # NoLead

LeadsInit ==
    /\ lead = [e \in Contacts |-> NoLead]
    /\ happened = [e \in Contacts |-> << >>]

LeadsType ==
    \A e \in Contacts :
        /\ lead[e].stage \in Stages \cup {"none"}
        /\ \A i \in DOMAIN lead[e].activities : lead[e].activities[i] \in Activities
        /\ \A i \in DOMAIN happened[e] : happened[e][i] \in Activities

\* The row in hand with one more activity.
LeadRequest(w, e, stage, activity) ==
    /\ Len(lead[e].activities) < MaxActivities
    /\ Start(w, [op |-> "lead", email |-> e, insert |-> ~Known(e), activity |-> activity,
                 row |-> [stage |-> stage,
                          activities |-> Append(lead[e].activities, activity)]])
    /\ UNCHANGED LD_rows

upsert(w, e) ==
    IF Known(e) THEN LeadRequest(w, e, lead[e].stage, "touched")
    ELSE LeadRequest(w, e, "NEW", "created")

updateStage(w, e, stage) ==
    /\ Known(e) /\ lead[e].stage # stage
    /\ LeadRequest(w, e, stage, "stage_changed")

markWon(w, e) ==
    /\ Known(e) /\ lead[e].stage # "WON"
    /\ LeadRequest(w, e, "WON", "won")

\* save; upsert takes a second insert for one address as done by the first one.
LeadSaved(w) ==
    LET f == frame[w] IN
    /\ Doing(w, "lead")
    /\ IF f.insert /\ Known(f.email) THEN UNCHANGED LD_rows
       ELSE /\ lead' = [lead EXCEPT ![f.email] = f.row]
            /\ happened' = [happened EXCEPT ![f.email] = Append(@, f.activity)]
    /\ Ends(w)

LeadsNext ==
    \E w \in Workers \ {Cron} :
       \/ \E e \in Contacts : \/ upsert(w, e) \/ markWon(w, e)
                              \/ \E stage \in Stages : updateStage(w, e, stage)
       \/ LeadSaved(w)
       \/ Fails(w) /\ UNCHANGED LD_rows

LeadsSpec == RequestsInit /\ LeadsInit /\ [][LeadsNext]_leadVars

-----------------------------------------------------------------------------

\* A lead's log begins with its creation, which is in it once, also when two requests
\* create it.
CreatedOnce ==
    \A e \in Contacts : Known(e) =>
        {i \in DOMAIN lead[e].activities : lead[e].activities[i] = "created"} = {1}

\* The log has what was done about the lead, in order.
ActivitiesKept == \A e \in Contacts : lead[e].activities = happened[e]

\* A lead that was won says so in its log.
WonIsLogged ==
    \A e \in Contacts : lead[e].stage = "WON" =>
        \E i \in DOMAIN lead[e].activities :
            lead[e].activities[i] \in {"won", "stage_changed"}

\* What leads promise: the log is whole when requests do not overlap
\* (leads.service.ts:47), the rest always.
LeadsKept == CreatedOnce /\ WonIsLogged /\ (~overlap => ActivitiesKept)
=============================================================================

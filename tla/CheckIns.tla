------------------------------- MODULE CheckIns -------------------------------
(***************************************************************************)
(* Check-ins to workspaces and the hourly job that closes the stale ones   *)
(* (workspace-tracking/providers/check-in.provider.ts,                     *)
(* jobs/stale-checkin.job.ts).  Time is counted in hours.                  *)
(***************************************************************************)
EXTENDS Requests

CONSTANTS
    Logs, Members, Rooms,
    MaxHours,     \* CHECKIN_MAX_HOURS, as resolveMaxHours leaves it
    Cap,          \* MAX_LOGS_PER_RUN
    LastHour      \* bound: the clock

ASSUME CheckInsAssumption ==
    MaxHours \in Nat \ {0} /\ Cap \in Nat \ {0} /\ LastHour \in Nat

VARIABLES
    hour,
    log,      \* the rows of workspace_logs
    left      \* history: when a log was first closed

CI_rows == <<hour, log, left>>
checkInVars == <<requests, CI_rows>>

Open == -1
Hours == 0..LastHour
NoLog == [member |-> "none", room |-> "none", in |-> 0, out |-> Open, auto |-> FALSE]
LogRow == [member : Members \cup {"none"}, room : Rooms \cup {"none"}, in : Hours,
           out : Hours \cup {Open}, auto : BOOLEAN]

Written(l) == log[l].member # "none"
IsOpen(l) == Written(l) /\ log[l].out = Open
Closed(l) == Written(l) /\ log[l].out # Open
Stale(l) == IsOpen(l) /\ log[l].in < hour - MaxHours

CheckInsInit ==
    /\ hour = 0
    /\ log = [l \in Logs |-> NoLog]
    /\ left = [l \in Logs |-> Open]

CheckInsType ==
    /\ hour \in Hours
    /\ log \in [Logs -> LogRow]
    /\ left \in [Logs -> Hours \cup {Open}]

\* save writes the row as it is in hand; the database has its own copy.
LogSaved(l, row) ==
    /\ log' = [log EXCEPT ![l] = row]
    /\ left' = [left EXCEPT ![l] = IF @ = Open THEN row.out ELSE @]
    /\ UNCHANGED hour

CheckIn(w, m, r) ==
    /\ \A l \in Logs : ~(IsOpen(l) /\ log[l].member = m /\ log[l].room = r)
    /\ Start(w, [op |-> "checkIn", member |-> m, room |-> r])
    /\ UNCHANGED CI_rows

\* checkedInAt is the database's clock at the insert.
LogInserted(w, l) ==
    /\ Doing(w, "checkIn") /\ ~Written(l)
    /\ LogSaved(l, [NoLog EXCEPT !.member = frame[w].member, !.room = frame[w].room,
                                 !.in = hour])
    /\ Ends(w)

CheckOut(w, l) ==
    /\ IsOpen(l)
    /\ Start(w, [op |-> "checkOut", log |-> l, row |-> [log[l] EXCEPT !.out = hour]])
    /\ UNCHANGED CI_rows

CheckOutSaved(w) ==
    /\ Doing(w, "checkOut")
    /\ LogSaved(frame[w].log, frame[w].row)
    /\ Ends(w)

\* closeStaleCheckIns: skipped while a run is in progress.  The query has no order.
JobTriggered ==
    \E S \in SUBSET {l \in Logs : Stale(l)} :
        /\ S # {} /\ Cardinality(S) <= Cap
        /\ Cardinality(S) < Cap => S = {l \in Logs : Stale(l)}
        /\ Start(Cron, [op |-> "close", todo |-> S, rows |-> [l \in S |-> log[l]]])
        /\ UNCHANGED CI_rows

\* Mutant: isRunning stays set when the last save failed.
Mut_JobGoesOn(l) == Goes(Cron, [frame[Cron] EXCEPT !.todo = @ \ {l}])

\* The finally of closeStaleCheckIns resets isRunning however the run ended.
JobGoesOn(l) ==
    LET todo == frame[Cron].todo \ {l}
    IN IF todo = {} THEN Ends(Cron) ELSE Goes(Cron, [frame[Cron] EXCEPT !.todo = todo])

\* The log as the query read it, with the time of now.
JobCloses(l) ==
    /\ Doing(Cron, "close") /\ l \in frame[Cron].todo
    /\ LogSaved(l, [frame[Cron].rows[l] EXCEPT !.out = hour, !.auto = TRUE])
    /\ JobGoesOn(l)

JobFails(l) ==
    /\ Doing(Cron, "close") /\ l \in frame[Cron].todo
    /\ JobGoesOn(l)
    /\ UNCHANGED CI_rows

HourPasses ==
    /\ hour < LastHour
    /\ hour' = hour + 1
    /\ UNCHANGED <<requests, log, left>>

CheckInsNext ==
    \/ \E w \in Workers \ {Cron} :
          \/ \E m \in Members, r \in Rooms : CheckIn(w, m, r)
          \/ \E l \in Logs : LogInserted(w, l) \/ CheckOut(w, l)
          \/ CheckOutSaved(w)
    \/ \E l \in Logs : JobCloses(l) \/ JobFails(l)
    \/ \E w \in Workers : Fails(w) /\ UNCHANGED CI_rows
    \/ JobTriggered \/ HourPasses

-----------------------------------------------------------------------------

\* A member is in a room once at a time.
SessionsApart ==
    \A l, k \in Logs :
        /\ l # k /\ Written(l) /\ Written(k)
        /\ log[l].member = log[k].member /\ log[l].room = log[k].room
        => \/ Closed(l) /\ log[l].out <= log[k].in
           \/ Closed(k) /\ log[k].out <= log[l].in

\* The time a session ended is not written over, neither by the job nor by a member.
EndKept == \A l \in Logs : log[l].out = left[l]

\* The job ends only sessions that had lasted too long, also when the member's own
\* check-out, a failed save or a restart came in between.
OnlyStaleSwept ==
    \A l \in Logs : log[l].auto => log[l].out > log[l].in + MaxHours

\* What check-ins promise: the last part always, the others when requests do not
\* overlap (check-in.provider.ts:30, stale-checkin.job.ts:115).
CheckInsKept == OnlyStaleSwept /\ (~overlap => SessionsApart /\ EndKept)

\* A stale log is closed in the end, by the job or by the member, although saves
\* fail and the process restarts.
StaleLogsClose == \A l \in Logs : Stale(l) ~> ~IsOpen(l)

RequestEnds(w) ==
    \/ \E l \in Logs : LogInserted(w, l)
    \/ CheckOutSaved(w)
    \/ Fails(w) /\ UNCHANGED CI_rows

\* The scheduler keeps triggering the job, not every save of it fails, and a
\* request does not last for ever.
CheckInsFairness ==
    /\ SF_checkInVars(JobTriggered)
    /\ SF_checkInVars(\E l \in Logs : JobCloses(l))
    /\ \A w \in Workers \ {Cron} : WF_checkInVars(RequestEnds(w))

CheckInsSpec ==
    RequestsInit /\ CheckInsInit /\ [][CheckInsNext]_checkInVars /\ CheckInsFairness
=============================================================================

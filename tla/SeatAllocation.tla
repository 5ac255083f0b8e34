--------------------------- MODULE SeatAllocation ---------------------------
(***************************************************************************)
(* Capacity of one workspace: bookings and public day passes are created   *)
(* in a transaction that locks the workspace row, while confirm, cancel,   *)
(* complete and the workspace endpoints work without it.  A workspace's    *)
(* rows are touched by no other workspace's handlers, so one is enough.    *)
(*                                                                         *)
(* save(entity) writes back the copy the handler read earlier: it selects  *)
(* the row again and updates the columns that differ from the copy.  The   *)
(* UPDATE of the workspace row waits for the row lock; reads do not.       *)
(***************************************************************************)
EXTENDS Integers, FiniteSets, Functions

CONSTANTS
    Ids,          \* booking ids
    LastDay,      \* dates are 1..LastDay
    MaxSeats,     \* bound: seatCount and totalSeats in requests
    InitialSeats, \* totalSeats of the workspace when it was created
    Creators,     \* concurrent create-booking and day-pass requests
    Handlers,     \* concurrent confirm, cancel, complete and workspace requests
    Asked,        \* what create-booking and day-pass requests ask for
    Totals,       \* totalSeats in workspace updates
    NoOne

ASSUME SeatsAssumption ==
    /\ LastDay \in Nat \ {0} /\ MaxSeats \in Nat
    /\ InitialSeats \in 1..MaxSeats
    /\ Creators \cap Handlers = {}
    /\ NoOne \notin Creators
    /\ Asked \subseteq [from : 1..LastDay, to : 1..LastDay,
                        seats : 1..MaxSeats, dayPass : BOOLEAN]
    /\ \A r \in Asked : IF r.dayPass THEN r.from = r.to /\ r.seats = 1
                                     ELSE r.from < r.to
    /\ Totals \subseteq 1..MaxSeats

VARIABLES
    rows,       \* bookings of the workspace
    workspace,  \* its row: totalSeats, availableSeats, isActive
    lock,       \* the transaction that holds the row lock
    frame,      \* what each request is in the middle of
    shrunk,     \* history: a save lowered the row's totalSeats
    revived     \* history: a save made an ended booking live again

vars == <<rows, workspace, lock, frame, shrunk, revived>>

Days == 1..LastDay
Workers == Creators \cup Handlers
Status == {"absent", "pending", "confirmed", "cancelled", "completed"}
Request == [from : Days, to : Days, seats : 1..MaxSeats, dayPass : BOOLEAN]
Row == [status : Status, req : Request]
WorkspaceRow == [total : 1..MaxSeats, avail : 0..MaxSeats, active : BOOLEAN]

NoRequest == [from |-> 1, to |-> 1, seats |-> 1, dayPass |-> TRUE]
NoRow == [status |-> "absent", req |-> NoRequest]

Columns == {"total", "avail", "active"}
Steps == {"idle", "checkSeats", "insert", "saveStatus", "adjustRead",
          "saveWorkspace", "updateColumns"}
Frame == [pc : Steps, req : Request, id : Ids \cup {NoOne}, row : Row,
          ws : WorkspaceRow, cols : SUBSET Columns]

NewWorkspace == [total |-> InitialSeats, avail |-> InitialSeats,
                 active |-> TRUE]
Idle == [pc |-> "idle", req |-> NoRequest, id |-> NoOne, row |-> NoRow,
         ws |-> NewWorkspace, cols |-> {}]

Free(w) == frame[w].pc = "idle"
At(w, step) == frame[w].pc = step
Go(w, f) == frame' = [frame EXCEPT ![w] = f]
Finish(w) == Go(w, Idle)

Init ==
    /\ rows = [i \in Ids |-> NoRow]
    /\ workspace = NewWorkspace
    /\ lock = NoOne
    /\ frame = [w \in Workers |-> Idle]
    /\ shrunk = FALSE /\ revived = FALSE

-----------------------------------------------------------------------------
(* CreateBookingProvider.create and CreatePublicDayPassProvider.create     *)

Live == {"pending", "confirmed"}

Overlaps(r, from, to) == r.from <= to /\ r.to >= from

Seats == [i \in Ids |-> rows[i].req.seats]

LiveIn(from, to) ==
    {i \in Ids : rows[i].status \in Live /\ Overlaps(rows[i].req, from, to)}

\* getBookedSeats: seats of live bookings overlapping the range, added up even
\* when they do not overlap each other.
BookedSeats(from, to) == SumFunctionOnSet(Seats, LiveIn(from, to))

\* Mutant: the workspace is read without the lock.
Mut_LockWorkspace(w, r) ==
    /\ Free(w) /\ workspace.active
    /\ Go(w, [Idle EXCEPT !.pc = "checkSeats", !.req = r, !.ws = workspace])
    /\ UNCHANGED <<rows, workspace, lock, shrunk, revived>>

\* SELECT ... FOR UPDATE; an inactive workspace ends the transaction at once.
LockWorkspace(w, r) ==
    /\ Free(w)
    /\ lock = NoOne
    /\ workspace.active
    /\ lock' = w
    /\ Go(w, [Idle EXCEPT !.pc = "checkSeats", !.req = r, !.ws = workspace])
    /\ UNCHANGED <<rows, workspace, shrunk, revived>>

CheckSeats(w) ==
    /\ At(w, "checkSeats")
    /\ LET r == frame[w].req
           fits == BookedSeats(r.from, r.to) + r.seats <= frame[w].ws.total
       IN  \/ /\ fits
              /\ Go(w, [frame[w] EXCEPT !.pc = "insert"])
              /\ UNCHANGED lock
           \/ /\ ~fits
              /\ Finish(w)
              /\ lock' = NoOne
    /\ UNCHANGED <<rows, workspace, shrunk, revived>>

\* The booking is inserted, availableSeats lowered (create-booking only) and
\* the transaction committed; or Paystack or the database fails and it is
\* rolled back.
CommitBooking(w) ==
    /\ At(w, "insert")
    /\ \/ /\ \E i \in Ids :
               /\ rows[i].status = "absent"
               /\ rows' = [rows EXCEPT ![i] = [status |-> "pending",
                                               req |-> frame[w].req]]
          /\ IF frame[w].req.dayPass
             THEN UNCHANGED workspace
             ELSE LET left == frame[w].ws.avail - frame[w].req.seats
                  IN  workspace' = [frame[w].ws EXCEPT !.avail =
                                        IF left > 0 THEN left ELSE 0]
       \/ UNCHANGED <<rows, workspace>>
    /\ lock' = NoOne
    /\ Finish(w)
    /\ UNCHANGED <<shrunk, revived>>

-----------------------------------------------------------------------------
(* ConfirmBookingProvider, CancelBookingProvider, CompleteBookingProvider: *)
(* the read with its status check, the save, and for the last two          *)
(* adjustAvailableSeats.                                                   *)

MayBecome(status) ==
    {new \in {"confirmed", "cancelled", "completed"} :
        \/ new = "confirmed" /\ status = "pending"
        \/ new = "cancelled" /\ status \in Live
        \/ new = "completed" /\ status = "confirmed"}

ReadBooking(w, i) ==
    /\ Free(w)
    /\ \E new \in MayBecome(rows[i].status) :
         Go(w, [Idle EXCEPT !.pc = "saveStatus", !.id = i,
                            !.row = [rows[i] EXCEPT !.status = new]])
    /\ UNCHANGED <<rows, workspace, lock, shrunk, revived>>

SaveStatus(w) ==
    /\ At(w, "saveStatus")
    /\ rows' = [rows EXCEPT ![frame[w].id] = frame[w].row]
    /\ IF frame[w].row.status = "confirmed"
       THEN Finish(w)
       ELSE Go(w, [frame[w] EXCEPT !.pc = "adjustRead"])
    /\ revived' = \/ revived
                  \/ /\ frame[w].row.status \in Live
                     /\ rows[frame[w].id].status \notin Live
    /\ UNCHANGED <<workspace, lock, shrunk>>

\* Mutant: the counter is not clamped to totalSeats.
Mut_AdjustRead(w) ==
    /\ At(w, "adjustRead")
    /\ LET next == workspace.avail + frame[w].row.req.seats
       IN  Go(w, [frame[w] EXCEPT !.pc = "saveWorkspace",
                  !.ws = [workspace EXCEPT !.avail = next]])
    /\ UNCHANGED <<rows, workspace, lock, shrunk, revived>>

\* adjustAvailableSeats(+seatCount), clamped to [0, totalSeats].
AdjustRead(w) ==
    /\ At(w, "adjustRead")
    /\ LET next == workspace.avail + frame[w].row.req.seats
       IN  Go(w, [frame[w] EXCEPT !.pc = "saveWorkspace",
                  !.ws = [workspace EXCEPT !.avail =
                             IF next < workspace.total THEN next
                                                       ELSE workspace.total]])
    /\ UNCHANGED <<rows, workspace, lock, shrunk, revived>>

-----------------------------------------------------------------------------
(* UpdateWorkspaceProvider.update and DeleteWorkspaceProvider.softDelete   *)

UpdateRead(w, total, active) ==
    /\ Free(w)
    /\ LET added == IF total > workspace.total THEN total - workspace.total
                                               ELSE 0
       IN  /\ workspace.avail + added <= MaxSeats     \* bound of the model
           /\ Go(w, [Idle EXCEPT !.pc = "saveWorkspace",
                     !.ws = [total |-> total, avail |-> workspace.avail + added,
                             active |-> active]])
    /\ UNCHANGED <<rows, workspace, lock, shrunk, revived>>

SoftDeleteRead(w) ==
    /\ Free(w)
    /\ Go(w, [Idle EXCEPT !.pc = "saveWorkspace",
                          !.ws = [workspace EXCEPT !.active = FALSE]])
    /\ UNCHANGED <<rows, workspace, lock, shrunk, revived>>

-----------------------------------------------------------------------------
(* workspacesRepository.save(copy): the select, then the update.           *)

Overwritten(row, copy, cols) ==
    [total |-> IF "total" \in cols THEN copy.total ELSE row.total,
     avail |-> IF "avail" \in cols THEN copy.avail ELSE row.avail,
     active |-> IF "active" \in cols THEN copy.active ELSE row.active]

SaveWorkspace(w) ==
    /\ At(w, "saveWorkspace")
    /\ LET mine == frame[w].ws
       IN  Go(w, [frame[w] EXCEPT !.pc = "updateColumns",
                  !.cols = {c \in Columns :
                      \/ c = "total" /\ mine.total # workspace.total
                      \/ c = "avail" /\ mine.avail # workspace.avail
                      \/ c = "active" /\ mine.active # workspace.active}])
    /\ UNCHANGED <<rows, workspace, lock, shrunk, revived>>

\* Mutant: the update overtakes a transaction that holds the row lock.
Mut_UpdateColumns(w) ==
    /\ At(w, "updateColumns")
    /\ workspace' = Overwritten(workspace, frame[w].ws, frame[w].cols)
    /\ shrunk' = (shrunk \/ workspace'.total < workspace.total)
    /\ Finish(w)
    /\ UNCHANGED <<rows, lock, revived>>

UpdateColumns(w) ==
    /\ At(w, "updateColumns")
    /\ lock = NoOne \/ frame[w].cols = {}
    /\ workspace' = Overwritten(workspace, frame[w].ws, frame[w].cols)
    /\ shrunk' = (shrunk \/ workspace'.total < workspace.total)
    /\ Finish(w)
    /\ UNCHANGED <<rows, lock, revived>>

Next ==
    \/ \E w \in Creators : \/ \E r \in Asked : LockWorkspace(w, r)
                           \/ CheckSeats(w) \/ CommitBooking(w)
    \/ \E w \in Handlers : \/ \E i \in Ids : ReadBooking(w, i)
                           \/ SaveStatus(w) \/ AdjustRead(w)
                           \/ \E total \in Totals \cup {workspace.total},
                                 active \in BOOLEAN :
                                  UpdateRead(w, total, active)
                           \/ SoftDeleteRead(w) \/ SaveWorkspace(w)
                           \/ UpdateColumns(w)

Spec == Init /\ [][Next]_vars

-----------------------------------------------------------------------------
TypeOK ==
    /\ rows \in [Ids -> Row]
    /\ workspace \in WorkspaceRow
    /\ lock \in Creators \cup {NoOne}
    /\ frame \in [Workers -> Frame]
    /\ shrunk \in BOOLEAN /\ revived \in BOOLEAN

\* Seats of live bookings that cover a day.
Occupied(d) == BookedSeats(d, d)

\* No interleaving of creations, day passes, outcomes and capacity changes sells
\* a day beyond totalSeats (create-booking's lock and overlap query), as long as
\* no save lowers totalSeats and none brings an ended booking back.
NoOverbooking ==
    ~shrunk /\ ~revived => \A d \in Days : Occupied(d) <= workspace.total

\* availableSeats stays within [0, totalSeats] whatever handlers write it back
\* concurrently, as long as no save lowers totalSeats (update does not clamp).
GaugeInRange == ~shrunk => workspace.avail <= workspace.total

\* What a transaction holding the lock read of the workspace stays true until it
\* commits, although other handlers save the same row without asking for a lock.
LockedCapacityIsCurrent ==
    \A w \in Creators : frame[w].pc \in {"checkSeats", "insert"} =>
        lock = w /\ frame[w].ws = workspace

-----------------------------------------------------------------------------
(* What comments of the code say and the runs refute.                      *)

\* "Lock the workspace row to prevent concurrent seat over-booking".
NeverOverbooked == \A d \in Days : Occupied(d) <= workspace.total
=============================================================================

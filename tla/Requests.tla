------------------------------ MODULE Requests ------------------------------
(***************************************************************************)
(* How the backend's handlers and jobs run: each reads rows, computes, and *)
(* saves what it has in hand, with other requests coming in between.  A    *)
(* save writes the whole row as the handler has it.  What a worker is in   *)
(* the middle of is its frame.                                             *)
(***************************************************************************)
EXTENDS Integers, FiniteSets, Sequences

CONSTANTS
    Workers,   \* requests served at a time, and the scheduler
    Cron,      \* the one that runs the hourly job
    Overlaps   \* whether requests may come in between, or either way

ASSUME RequestsAssumption == Cron \in Workers /\ Overlaps \subseteq BOOLEAN

VARIABLES overlap, frame

requests == <<overlap, frame>>

Idle == [op |-> "idle"]

RequestsInit ==
    /\ overlap \in Overlaps
    /\ frame = [w \in Workers |-> Idle]

Start(w, f) ==
    /\ frame[w] = Idle
    /\ overlap \/ \A v \in Workers : frame[v] = Idle
    /\ frame' = [frame EXCEPT ![w] = f]
    /\ UNCHANGED overlap

Doing(w, op) == frame[w].op = op

Goes(w, f) == frame' = [frame EXCEPT ![w] = f] /\ UNCHANGED overlap
Ends(w) == Goes(w, Idle)

\* The database refuses the write, or the process ends: what was read is gone.
Fails(w) == frame[w] # Idle /\ Ends(w)
=============================================================================

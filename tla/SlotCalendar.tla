---------------------------- MODULE SlotCalendar ----------------------------
(***************************************************************************)
(* What a booking contract promises: a calendar of half-open slots, each   *)
(* held by one member.  A slot is given only when it is free and not over, *)
(* stays the same while it is held, and once given back is not restored.   *)
(***************************************************************************)
EXTENDS Integers

CONSTANTS Reservations, Rooms, Members, Moments

VARIABLES held,   \* what each reservation holds
          clock

Free == [state |-> "free"]
Gone == [state |-> "gone"]

Clash(room, from, to) ==
    \E r \in Reservations :
        /\ held[r].state = "held" /\ held[r].room = room
        /\ held[r].from < to /\ from < held[r].to

Init ==
    /\ held = [r \in Reservations |-> Free]
    /\ clock \in Nat

Reserve(r) ==
    LET h == held'[r] IN
    /\ held[r] = Free /\ h.state = "held"
    /\ h.room \in Rooms /\ h.member \in Members /\ {h.from, h.to} \subseteq Moments
    /\ h.from < h.to /\ clock < h.to
    /\ ~Clash(h.room, h.from, h.to)
    /\ held' = [held EXCEPT ![r] = h]
    /\ UNCHANGED clock

GiveBack(r) ==
    /\ held[r].state = "held"
    /\ held' = [held EXCEPT ![r] = Gone]
    /\ UNCHANGED clock

Tick == clock' > clock /\ UNCHANGED held

Next ==
    \/ \E r \in Reservations : Reserve(r) \/ GiveBack(r)
    \/ Tick

Spec == Init /\ [][Next]_<<held, clock>>
=============================================================================

-------------------------- MODULE MCSeatAllocation --------------------------
(***************************************************************************)
(* Small instances of SeatAllocation for TLC.                              *)
(***************************************************************************)
EXTENDS SeatAllocation, TLC

CONSTANTS i1, i2, i3, c1, c2, h1, h2

Ask(from, to, seats, dayPass) ==
    [from |-> from, to |-> to, seats |-> seats, dayPass |-> dayPass]

\* A two-day booking and a day pass on its first day.
TwoKinds == {Ask(1, 2, 1, FALSE), Ask(1, 1, 1, TRUE)}

Symmetry == Permutations(Ids) \cup Permutations(Creators)
                              \cup Permutations(Handlers)
=============================================================================

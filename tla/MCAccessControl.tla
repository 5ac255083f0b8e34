--------------------------- MODULE MCAccessControl ---------------------------
(***************************************************************************)
(* Small boards of administrators for AccessControl: configurations a      *)
(* board may be given by its own vote, sensible ones and ones that         *)
(* validate accepts although they list an address twice or lock proposals  *)
(* for longer than they live.                                              *)
(***************************************************************************)
EXTENDS AccessControl

CONSTANTS ann, ben, cas

Board(twice, once, thresholds, limit, lock) ==
    [admins |-> [o \in Officers |-> IF o \in twice THEN 2 ELSE IF o \in once THEN 1 ELSE 0],
     required |-> thresholds[1], critical |-> thresholds[2], emergency |-> thresholds[3],
     limit |-> limit, lock |-> lock, expiry |-> 1]

Proposed(kind, user, b) == [kind |-> kind, user |-> user, board |-> b]

Smaller == Board({}, {ann, ben, cas}, <<1, 1, 3>>, 1, 1)
Doubled == Board({ann}, {ben}, <<1, 2, 3>>, 2, 2)
TestBoards == {Smaller, Doubled}
TestActions ==
    {Proposed("SetRole", cas, NoBoard), Proposed("RemoveAdmin", cas, NoBoard),
     Proposed("AddAdmin", cas, NoBoard), Proposed("EmergencyPause", ann, NoBoard),
     Proposed("Unpause", ann, NoBoard), Proposed("ScheduleUpgrade", ann, NoBoard),
     Proposed("UpdateMultisigConfig", ann, Smaller),
     Proposed("UpdateMultisigConfig", ann, Doubled)}
=============================================================================

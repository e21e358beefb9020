---------------------------- MODULE MCLANSession ----------------------------
(* Instances of LANSession: a and b are on two machines, c is the player of  *)
(* a who comes back.                                                         *)
EXTENDS LANSession

CONSTANTS a, b, c

Two == {a, b}
Three == {a, b, c}
Machines == [x \in Three |-> IF x = b THEN "m2" ELSE "m1"]
=============================================================================

----------------------------- MODULE MCLocalMP ------------------------------
(* A small instance of LocalMP for TLC: three consoles on one channel.     *)
EXTENDS LocalMP, TLC

CONSTANTS a, b, c, mac1

OneMac == [i \in {a, b, c} |-> mac1]
ThreeAids == a :> 1 @@ b :> 2 @@ c :> 3

(* Two consoles with every role.                                           *)
AnyRole == [role \in Roles |-> {a, b}]

(* One host and two clients, of which one may leave.                       *)
Trio ==
  [AnyRole EXCEPT !["player"] = {a, b, c}, !["leaver"] = {b}, !["talker"] = {},
                  !["listener"] = {}, !["host"] = {a}, !["client"] = {b, c}]

Pair == {AnyRole}
PairOrTrio == {AnyRole, Trio}
=============================================================================

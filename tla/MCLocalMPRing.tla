--------------------------- MODULE MCLocalMPRing ----------------------------
(* A small instance of LocalMPRing for TLC.                                *)
EXTENDS LocalMPRing

(* Records of three lengths: header only, short, and long enough that two  *)
(* of them do not fit.                                                     *)
SmallFrames == {[id |-> 1, len |-> 0], [id |-> 2, len |-> 1], [id |-> 1, len |-> 3]}
=============================================================================

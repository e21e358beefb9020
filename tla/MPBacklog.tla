----------------------------- MODULE MPBacklog ------------------------------
(***************************************************************************)
(* What the broadcast queue of local multiplayer promises its readers,     *)
(* without cursors, bytes or semaphores: every instance that is online has *)
(* a backlog of whole records, in the order they were sent.  A record goes *)
(* to every online instance (its sender included); a reader whose backlog  *)
(* has no room loses that backlog but still gets the new record; joining   *)
(* and leaving start from an empty backlog.                                *)
(***************************************************************************)
EXTENDS MPRecord

CONSTANTS
  Inst,   \* the emulated consoles of one process
  Frame   \* the records that may be sent

VARIABLES
  online,    \* the instances whose Wi-Fi is powered on
  backlog    \* backlog[i]: what instance i has not yet received

vars == <<online, backlog>>

Init ==
  /\ online = {}
  /\ backlog = [i \in Inst |-> <<>>]

Join(i) ==
  /\ online' = online \cup {i}
  /\ backlog' = [backlog EXCEPT ![i] = <<>>]

Leave(i) ==
  /\ online' = online \ {i}
  /\ backlog' = [backlog EXCEPT ![i] = <<>>]

Broadcast(rec) ==
  /\ online # {}
  /\ backlog' = [i \in Inst |-> IF i \in online THEN Enqueue(backlog[i], rec)
                                                ELSE backlog[i]]
  /\ UNCHANGED online

Take(i) ==
  /\ i \in online
  /\ backlog[i] # <<>>
  /\ backlog' = [backlog EXCEPT ![i] = Tail(@)]
  /\ UNCHANGED online

Next ==
  \/ \E i \in Inst : Join(i) \/ Leave(i) \/ Take(i)
  \/ \E rec \in Frame : Broadcast(rec)

Spec == Init /\ [][Next]_vars
=============================================================================

------------------------------ MODULE MPRecord ------------------------------
(***************************************************************************)
(* The records of the local multiplayer queues and the overflow rule that  *)
(* every writer applies before it adds one (src/src/net/LocalMP.cpp).      *)
(* A record is a fixed header followed by `len' bytes of payload; a queue  *)
(* is a ring of QueueSize bytes of which one stays unused, so that equal   *)
(* cursors always mean "empty".                                            *)
(***************************************************************************)
EXTENDS Integers, Sequences

CONSTANTS
  QueueSize,   \* kPacketQueueSize = kReplyQueueSize, in bytes
  HeaderLen    \* sizeof(MPPacketHeader), in bytes

ASSUME QueueAssumption ==
  /\ QueueSize \in Nat \ {0}
  /\ HeaderLen \in Nat \ {0}
  /\ HeaderLen < QueueSize

RecordLen(rec) == HeaderLen + rec.len

(* The bytes a backlog occupies in its ring.                               *)
Bytes(queue) ==
  LET sum[n \in 0..Len(queue)] ==
        IF n = 0 THEN 0 ELSE sum[n - 1] + RecordLen(queue[n])
  IN  sum[Len(queue)]

(* MakeRoom: the record does not fit if it would leave no byte free.       *)
Overflows(queue, rec) == RecordLen(rec) >= QueueSize - Bytes(queue)

(* MakeRoom, then FIFOWrite: a lagging reader loses its whole backlog, and *)
(* only that reader does.                                                  *)
Enqueue(queue, rec) ==
  IF Overflows(queue, rec) THEN <<rec>> ELSE Append(queue, rec)
=============================================================================

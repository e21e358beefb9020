---------------------------- MODULE LocalMPRing -----------------------------
(***************************************************************************)
(* The byte ring under the queues of LocalMP (src/src/net/LocalMP.cpp):    *)
(* one array, one write cursor, one read cursor per instance.  A record is *)
(* written and read in pieces, each of which may wrap around the end of    *)
(* the array; a reader trusts the header it finds at its cursor.  What a   *)
(* byte holds is abstracted to "byte number `at' of record rec".           *)
(* The reply queue is the same code with one reader.                       *)
(***************************************************************************)
EXTENDS MPRecord

CONSTANTS
  Inst,       \* the instances
  Frame,      \* the records that may be sent
  Capacity    \* sizes of receive buffers

ASSUME RingAssumption ==
  /\ \A rec \in Frame : rec.len \in Nat /\ RecordLen(rec) < QueueSize
  /\ Capacity \subseteq Nat

VARIABLES
  connected,  \* MPStatus.ConnectedBitmask
  ring,       \* MPPacketQueue
  write,      \* MPStatus.PacketWriteOffset
  read        \* PacketReadOffset

vars == <<connected, ring, write, read>>

Offset == 0..(QueueSize - 1)
Blank == [rec |-> [len |-> 0], at |-> -1]

Init ==
  /\ connected = {}
  /\ ring = [p \in Offset |-> Blank]
  /\ write = 0
  /\ read = [i \in Inst |-> 0]

(* The bytes between two cursors, walking forward.                         *)
Distance(from, to) == (to + QueueSize - from) % QueueSize

(* Where FIFORead and FIFOWrite leave a cursor after n bytes.              *)
Advance(off, n) == IF off + n >= QueueSize THEN n - (QueueSize - off) ELSE off + n

(* The ring after FIFOWrite of n bytes of rec, the first one numbered at.  *)
FIFOWrite(bytes, off, rec, at, n) ==
  [p \in Offset |-> IF Distance(off, p) < n
                    THEN [rec |-> rec, at |-> at + Distance(off, p)]
                    ELSE bytes[p]]

-----------------------------------------------------------------------------
Join(i) ==
  /\ connected' = connected \cup {i}
  /\ read' = [read EXCEPT ![i] = write]
  /\ UNCHANGED <<ring, write>>

Leave(i) ==
  /\ connected' = connected \ {i}
  /\ read' = [read EXCEPT ![i] = write]
  /\ UNCHANGED <<ring, write>>

(* Mutant: a record that fills the ring to the last byte is let in.        *)
FitsExactly(i, rec) == RecordLen(rec) <= QueueSize - Distance(read[i], write)

Fits(i, rec) == RecordLen(rec) < QueueSize - Distance(read[i], write)

(* MakeRoom for every connected reader, then the header and the payload.   *)
Send(rec) ==
  /\ connected # {}
  /\ read' = [i \in Inst |-> IF i \in connected /\ ~Fits(i, rec) THEN write ELSE read[i]]
  /\ ring' = FIFOWrite(FIFOWrite(ring, write, rec, 0, HeaderLen),
                       Advance(write, HeaderLen), rec, HeaderLen, rec.len)
  /\ write' = Advance(Advance(write, HeaderLen), rec.len)
  /\ UNCHANGED connected

(* The n bytes from off on are the first n of rec.                         *)
Holds(bytes, off, rec, n) ==
  \A k \in 0..(n - 1) : bytes[Advance(off, k)] = [rec |-> rec, at |-> k]

HeaderAt(i) == ring[read[i]].rec

(* Magic, sender, type and length are plausible and the record is there.   *)
ValidHeader(i) ==
  LET available == Distance(read[i], write)
  IN  /\ available >= HeaderLen
      /\ Holds(ring, read[i], HeaderAt(i), HeaderLen)
      /\ available >= HeaderLen + HeaderAt(i).len

(* Mutant: what does not fit the receive buffer stays in the ring.         *)
AfterCopied(i, capacity) ==
  LET len == HeaderAt(i).len
      copied == IF len < capacity THEN len ELSE capacity
  IN  Advance(Advance(read[i], HeaderLen), copied)

(* The cursor after the header, the part that fits the receive buffer and  *)
(* the part that does not.                                                 *)
AfterRecord(i, capacity) ==
  LET len == HeaderAt(i).len
      copied == IF len < capacity THEN len ELSE capacity
  IN  Advance(Advance(Advance(read[i], HeaderLen), copied), len - copied)

(* A record that is not valid costs the reader its backlog.                *)
Receive(i, capacity) ==
  /\ i \in connected
  /\ read[i] # write
  /\ read' = [read EXCEPT ![i] = IF ValidHeader(i) THEN AfterRecord(i, capacity)
                                                   ELSE write]
  /\ UNCHANGED <<connected, ring, write>>

Next ==
  \/ \E i \in Inst : Join(i) \/ Leave(i)
  \/ \E rec \in Frame : Send(rec)
  \/ \E i \in Inst, capacity \in Capacity : Receive(i, capacity)

Spec == Init /\ [][Next]_vars

-----------------------------------------------------------------------------
Torn == [len |-> -1]

(* The records in the last n bytes before the cursor to, for every n: what *)
(* a reader n bytes behind it has yet to receive.  Torn ends the list      *)
(* where no whole record starts.                                           *)
Records(bytes, to) ==
  LET records[n \in Offset] ==
        LET off == Distance(n, to)
            rec == bytes[off].rec
        IN  IF n = 0 THEN <<>>
            ELSE IF /\ bytes[off].at = 0
                    /\ RecordLen(rec) <= n
                    /\ Holds(bytes, off, rec, RecordLen(rec))
                 THEN <<rec>> \o records[n - RecordLen(rec)]
                 ELSE <<Torn>>
  IN  records

Unread(i) ==
  IF i \in connected THEN Records(ring, write)[Distance(read[i], write)] ELSE <<>>

(* A connected reader always finds whole records between its cursor and    *)
(* the write cursor, payload included: no writer overwrites what it has    *)
(* not read, no wrap splits a record wrongly, and the branch that reports  *)
(* an invalid record is never taken.                                       *)
NeverTorn ==
  \A i \in connected : \A n \in 1..Len(Unread(i)) : Unread(i)[n] # Torn

(* The ring with its cursors is the broadcast backlog of MPBacklog: only   *)
(* an overflow loses records, and it loses the backlog of the lagging      *)
(* reader alone.                                                           *)
Backlog == INSTANCE MPBacklog WITH online <- connected,
                                   backlog <- [i \in Inst |-> Unread(i)]

ImplementsBacklog == Backlog!Spec
=============================================================================

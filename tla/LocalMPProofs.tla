--------------------------- MODULE LocalMPProofs ----------------------------
(***************************************************************************)
(* Theorems about LocalMP, for every number of instances, every ring size  *)
(* and every bound on the number of sends.                                 *)
(***************************************************************************)
EXTENDS LocalMP, SequenceTheorems, TLAPS

(* The calls that only move the program counter of a receive call.         *)
LEMMA IdleType == Idle \in Call
  BY InstAssumption DEF Idle, Call, PC

(* A queue after a send is a sequence of records of the same set; it holds *)
(* the new record last, and one record more than before or nothing else.   *)
LEMMA EnqueueType ==
  ASSUME NEW S, NEW queue \in Seq(S), NEW rec \in S
  PROVE  Enqueue(queue, rec) \in Seq(S)
  BY DEF Enqueue

(* The length of a queue after a send.                                     *)
LEMMA EnqueueLen ==
  ASSUME NEW S, NEW queue \in Seq(S), NEW rec \in S
  PROVE  Len(Enqueue(queue, rec)) =
           IF Overflows(queue, rec) THEN 1 ELSE Len(queue) + 1
  BY DEF Enqueue

(* The records of a queue after a send: the new one at the end, before it  *)
(* either those that were there or none.                                   *)
LEMMA EnqueueElements ==
  ASSUME NEW S, NEW queue \in Seq(S), NEW rec \in S,
         NEW n \in 1..Len(Enqueue(queue, rec))
  PROVE  \/ n = Len(Enqueue(queue, rec)) /\ Enqueue(queue, rec)[n] = rec
         \/ n \in 1..Len(queue) /\ Enqueue(queue, rec)[n] = queue[n]
  BY DEF Enqueue

-----------------------------------------------------------------------------

(* A frame that a connected instance sends is one of the records.          *)
LEMMA RecordType ==
  ASSUME TypeOK, NEW i \in Inst, CanSend(i),
         NEW kind \in {"packet", "cmd", "ack"},
         NEW len \in PayloadLen, NEW addr \in AnyAddr
  PROVE  Record(i, kind, len, addr) \in Frame
  BY InstAssumption DEF TypeOK, CanSend, Record, Frame

(* A broadcast keeps the types of what it changes.                         *)
LEMMA BroadcastType ==
  ASSUME TypeOK, NEW rec \in Frame, sent < MaxSends, Broadcast(rec)
  PROVE  /\ packets' \in [Inst -> Seq(Frame)]
         /\ sem' \in [Inst -> Nat]
         /\ sent' \in 0..MaxSends
<1>1. \A j \in Inst : Enqueue(packets[j], rec) \in Seq(Frame)
  BY EnqueueType DEF TypeOK
<1> QED
  BY <1>1, InstAssumption DEF TypeOK, Broadcast

(* The reply host is one of the active, connected hosts.                   *)
LEMMA FindReplyHostType ==
  ASSUME NEW i \in Inst, NEW addr, FindReplyHost(i, addr) # NoInst
  PROVE  FindReplyHost(i, addr) \in (activeHosts \cap connected) \ {i}
<1>1. ASSUME NEW hosts, TheOnly(hosts) # NoInst
      PROVE  TheOnly(hosts) \in hosts
  BY <1>1 DEF TheOnly
<1>2. CASE addr # NoAddr
  BY <1>1, <1>2 DEF FindReplyHost
<1>3. CASE addr = NoAddr /\ lastHost[i] = NoInst
  BY <1>1, <1>3 DEF FindReplyHost
<1>4. CASE addr = NoAddr /\ lastHost[i] # NoInst
  BY <1>1, <1>4 DEF FindReplyHost
<1> QED
  BY <1>2, <1>3, <1>4

(* Forgetting a session keeps the types of what it changes.                *)
LEMMA ForgetType ==
  ASSUME TypeOK, NEW i \in Inst, ForgetSession(i)
  PROVE  /\ activeHosts' \in SUBSET Inst /\ hasReplyQueue' \in SUBSET Inst
         /\ hostAddr' \in [Inst -> AnyAddr]
         /\ lastHost' \in [Inst -> AnyHost] /\ replyHost' \in [Inst -> AnyHost]
         /\ packets' \in [Inst -> Seq(Frame)] /\ sem' \in [Inst -> Nat]
         /\ replies' \in [Inst -> Seq(Reply)] /\ replySem' \in [Inst -> Nat]
         /\ call' \in [Inst -> Call]
         /\ sent' \in 0..MaxSends /\ cmdSeq' \in [Inst -> 0..MaxSends]
         /\ lastReply' \in [Inst -> 0..MaxSends]
  BY DEF TypeOK, ForgetSession, ResetPackets, ResetReplies, AnyAddr, AnyHost

(* A call stays well typed when the steps of a receive call update it.     *)
LEMMA CallUpdate ==
  ASSUME NEW k \in Call, NEW pc \in PC
  PROVE  /\ [k EXCEPT !.pc = pc] \in Call
         /\ \A group \in SUBSET Inst, since \in 0..MaxSends :
              [k EXCEPT !.pc = pc, !.group = group, !.since = since] \in Call
         /\ \A seen \in SUBSET Inst, got \in SUBSET (1..15) :
              [k EXCEPT !.pc = pc, !.seen = seen, !.got = got] \in Call
<1>1. [k EXCEPT !.pc = pc] \in Call
  BY DEF Call
<1>2. ASSUME NEW group \in SUBSET Inst, NEW since \in 0..MaxSends
      PROVE  [k EXCEPT !.pc = pc, !.group = group, !.since = since] \in Call
  BY DEF Call
<1>3. ASSUME NEW seen \in SUBSET Inst, NEW got \in SUBSET (1..15)
      PROVE  [k EXCEPT !.pc = pc, !.seen = seen, !.got = got] \in Call
  BY DEF Call
<1> QED
  BY <1>1, <1>2, <1>3

(* Moving a program counter keeps the calls well typed.                    *)
LEMMA CallType ==
  ASSUME TypeOK, NEW i \in Inst
  PROVE  /\ Return(i) => call' \in [Inst -> Call]
         /\ \A pc \in PC : Goto(i, pc) => call' \in [Inst -> Call]
<1>1. call \in [Inst -> Call]
  BY DEF TypeOK
<1>2. Return(i) => call' \in [Inst -> Call]
  BY <1>1, IdleType DEF Return
<1>3. ASSUME NEW pc \in PC, Goto(i, pc) PROVE call' \in [Inst -> Call]
  BY <1>1, <1>3, CallUpdate DEF Goto
<1> QED
  BY <1>2, <1>3

(* A reply goes to the ring of one active, connected host.                 *)
LEMMA ReplyIsSent ==
  ASSUME TypeOK, NEW i \in Inst, NEW len \in PayloadLen \cup {0}, NEW addr \in AnyAddr,
         NEW ts \in Time, SendReply(i, len, addr, ts)
  PROVE  \E host \in Inst, rec \in Reply :
           /\ host \in activeHosts \cap connected
           /\ host = FindReplyHost(i, addr)
           /\ rec.seq = sent + 1 /\ rec.addr = addr /\ rec.sender = i
           /\ lastReply' = [lastReply EXCEPT ![i] = sent + 1]
           /\ sent < MaxSends /\ sent' = sent + 1
           /\ replies' = [replies EXCEPT ![host] = Enqueue(@, rec)]
           /\ replySem' = [replySem EXCEPT
                             ![host] = IF Overflows(replies[host], rec) THEN 1 ELSE @ + 1]
           /\ replyHost' = [replyHost EXCEPT ![i] = host]
           /\ UNCHANGED <<connected, activeHosts, hasReplyQueue, hostAddr, lastHost,
                          packets, sem, call, cmdSeq, lastSeq>>
<1> DEFINE host == FindReplyHost(i, addr)
           rec == [sender |-> i, aid |-> IF len = 0 THEN 0 ELSE AidOf[i],
                   len |-> len, addr |-> addr, ts |-> ts, seq |-> sent + 1]
<1>1. host \in Inst /\ host \in activeHosts \cap connected
  BY FindReplyHostType DEF SendReply, TypeOK
<1>2. rec \in Reply
  <2>1. sent + 1 \in 1..MaxSends
    BY InstAssumption DEF SendReply, CanSend, TypeOK
  <2>2. AidOf[i] \in 1..15
    BY InstAssumption
  <2> QED
    BY <2>1, <2>2 DEF Reply
<1>3. rec.seq = sent + 1 /\ rec.addr = addr /\ rec.sender = i
  OBVIOUS
<1> HIDE DEF host, rec
<1>4. /\ sent < MaxSends /\ sent' = sent + 1
      /\ lastReply' = [lastReply EXCEPT ![i] = sent + 1]
      /\ host = FindReplyHost(i, addr)
      /\ replies' = [replies EXCEPT ![host] = Enqueue(@, rec)]
      /\ replySem' = [replySem EXCEPT
                        ![host] = IF Overflows(replies[host], rec) THEN 1 ELSE @ + 1]
      /\ replyHost' = [replyHost EXCEPT ![i] = host]
      /\ UNCHANGED <<connected, activeHosts, hasReplyQueue, hostAddr, lastHost,
                     packets, sem, call, cmdSeq, lastSeq>>
  BY DEF SendReply, CanSend, host, rec, packetQueue
<1> QED
  BY <1>1, <1>2, <1>3, <1>4

(* What returning and moving on do to the program counters.                *)
LEMMA CounterMoves ==
  ASSUME TypeOK, NEW i \in Inst, NEW j \in Inst
  PROVE  /\ Return(i) => call'[j].pc = IF j = i THEN "idle" ELSE call[j].pc
         /\ \A pc : Goto(i, pc) => call'[j].pc = IF j = i THEN pc ELSE call[j].pc
<1>1. call \in [Inst -> Call]
  BY DEF TypeOK
<1>2. Return(i) => call'[j].pc = IF j = i THEN "idle" ELSE call[j].pc
  BY <1>1 DEF Return, Idle
<1>3. ASSUME NEW pc, Goto(i, pc)
      PROVE  call'[j].pc = IF j = i THEN pc ELSE call[j].pc
  BY <1>1, <1>3 DEF Goto, Call
<1> QED
  BY <1>2, <1>3

(* Reading a reply leaves the step where its permit was held.              *)
LEMMA ReplyReadMoves ==
  ASSUME TypeOK, NEW i \in Inst, SkipReply(i) \/ TakeReply(i)
  PROVE  /\ \A j \in Inst \ {i} : call'[j] = call[j]
         /\ call'[i].pc \in {"collect", "idle"}
<1>1. CASE SkipReply(i)
  BY <1>1 DEF SkipReply, Goto, TypeOK, Call
<1>2. CASE TakeReply(i)
  <2>1. PICK seen, got :
          \/ Return(i)
          \/ call' = [call EXCEPT ![i].pc = "collect", ![i].seen = seen, ![i].got = got]
    BY <1>2 DEF TakeReply
  <2>2. CASE Return(i)
    BY <2>2 DEF Return, Idle, TypeOK
  <2>3. CASE call' = [call EXCEPT ![i].pc = "collect", ![i].seen = seen, ![i].got = got]
    BY <2>3 DEF TypeOK, Call
  <2> QED
    BY <2>1, <2>2, <2>3
<1> QED
  BY <1>1, <1>2

(* Every variable keeps its type.                                          *)
LEMMA TypeStep == TypeOK /\ [Next]_vars => TypeOK'
<1> SUFFICES ASSUME TypeOK, [Next]_vars PROVE TypeOK'
  OBVIOUS
<1>0. cast' \in Casts
  BY DEF Next, vars, TypeOK
<1>1. CASE UNCHANGED vars
  BY <1>1 DEF vars, TypeOK
<1>2. ASSUME NEW i \in Inst, Begin(i) \/ End(i) PROVE TypeOK'
  <2>1. ForgetSession(i)
    BY <1>2 DEF Begin, End
  <2>2. connected' \in SUBSET Inst
    BY <1>2 DEF TypeOK, Begin, End
  <2>3. lastSeq' \in [Inst -> 0..MaxSends]
    BY <1>2 DEF TypeOK, Begin, End
  <2> QED
    BY <1>0, <2>1, <2>2, <2>3, ForgetType DEF TypeOK
<1>3. ASSUME NEW i \in Inst, NEW len \in PayloadLen, SendPacket(i, len) \/ SendAck(i, len)
      PROVE TypeOK'
  <2>1. PICK kind \in {"packet", "ack"} :
          CanSend(i) /\ Broadcast(Record(i, kind, len, NoAddr))
    BY <1>3 DEF SendPacket, SendAck
  <2>2. Record(i, kind, len, NoAddr) \in Frame /\ sent < MaxSends
    BY <2>1, RecordType DEF AnyAddr, CanSend
  <2> QED
    BY <1>0, <1>3, <2>1, <2>2, BroadcastType
       DEF TypeOK, SendPacket, SendAck, routing, replyQueue
<1>4. ASSUME NEW i \in Inst, NEW len \in PayloadLen, NEW addr \in {MacOf[i], NoAddr},
             SendCmd(i, len, addr)
      PROVE TypeOK'
  <2>1. addr \in AnyAddr
    BY InstAssumption DEF AnyAddr
  <2>2. Record(i, "cmd", len, addr) \in Frame /\ sent < MaxSends
    BY <1>4, <2>1, RecordType DEF SendCmd, CanSend
  <2>3. Broadcast(Record(i, "cmd", len, addr))
    BY <1>4 DEF SendCmd
  <2>4. packets' \in [Inst -> Seq(Frame)] /\ sem' \in [Inst -> Nat] /\ sent' \in 0..MaxSends
    BY <2>2, <2>3, BroadcastType
  <2>5. replies' \in [Inst -> Seq(Reply)] /\ replySem' \in [Inst -> Nat]
    BY <1>4 DEF SendCmd, ResetReplies, TypeOK
  <2>6. hostAddr' \in [Inst -> AnyAddr] /\ cmdSeq' \in [Inst -> 0..MaxSends]
    BY <1>4, <2>1, <2>4 DEF SendCmd, TypeOK
  <2> QED
    BY <1>0, <1>4, <2>4, <2>5, <2>6 DEF TypeOK, SendCmd
<1>5. ASSUME NEW i \in Inst, NEW len \in PayloadLen \cup {0}, NEW addr \in AnyAddr,
             NEW ts \in Time, SendReply(i, len, addr, ts)
      PROVE TypeOK'
  <2>1. PICK host \in Inst, rec \in Reply :
          /\ sent < MaxSends /\ sent' = sent + 1
          /\ lastReply' = [lastReply EXCEPT ![i] = sent + 1]
          /\ replies' = [replies EXCEPT ![host] = Enqueue(@, rec)]
          /\ replySem' = [replySem EXCEPT
                            ![host] = IF Overflows(replies[host], rec) THEN 1 ELSE @ + 1]
          /\ replyHost' = [replyHost EXCEPT ![i] = host]
          /\ UNCHANGED <<connected, activeHosts, hasReplyQueue, hostAddr, lastHost,
                         packets, sem, call, cmdSeq, lastSeq>>
    BY <1>5, ReplyIsSent
  <2>2. /\ replies \in [Inst -> Seq(Reply)] /\ replySem \in [Inst -> Nat]
        /\ replyHost \in [Inst -> AnyHost] /\ lastReply \in [Inst -> 0..MaxSends]
        /\ sent \in 0..MaxSends
    BY DEF TypeOK
  <2>3. replies' \in [Inst -> Seq(Reply)] /\ replySem' \in [Inst -> Nat]
    <3>1. Enqueue(replies[host], rec) \in Seq(Reply)
      BY <2>2, EnqueueType
    <3> QED
      BY <2>1, <2>2, <3>1
  <2>4. /\ replyHost' \in [Inst -> AnyHost] /\ sent' \in 0..MaxSends
        /\ lastReply' \in [Inst -> 0..MaxSends]
    BY <2>1, <2>2, InstAssumption DEF AnyHost
  <2> QED
    BY <1>0, <2>1, <2>3, <2>4 DEF TypeOK
<1>6. ASSUME NEW i \in Inst, RecvPacket(i) \/ RecvHostPacket(i) PROVE TypeOK'
  <2>1. Goto(i, "wait")
    BY <1>6 DEF RecvPacket, RecvHostPacket
  <2>2. call' \in [Inst -> Call]
    BY <2>1, CallType DEF PC
  <2> QED
    BY <1>0, <1>6, <2>2
       DEF TypeOK, RecvPacket, RecvHostPacket, receiving, routing, replyQueue, packetQueue
<1>7. ASSUME NEW i \in Inst, NEW ts \in Time, NEW want \in SUBSET (1..15),
             RecvReplies(i, ts, want)
      PROVE TypeOK'
  <2>1. cmdSeq[i] \in 0..MaxSends
    BY DEF TypeOK
  <2> DEFINE first == [Idle EXCEPT !.pc = "collect", !.ts = ts, !.want = want, !.seen = {i}]
  <2>2. [first EXCEPT !.asked = cmdSeq[i]] \in Call
    <3>1. first \in Call
      BY IdleType, InstAssumption DEF Idle, Call, PC
    <3> HIDE DEF first
    <3> QED
      BY <2>1, <3>1 DEF Call
  <2>3. call' \in [Inst -> Call]
    BY <1>7, <2>2 DEF TypeOK, RecvReplies
  <2> QED
    BY <1>0, <1>7, <2>3 DEF TypeOK, RecvReplies, collecting, routing, replyQueue, packetQueue
<1>8. ASSUME NEW i \in Inst, TakePermit(i) \/ PermitTimeout(i) \/ NothingToRead(i)
      PROVE TypeOK'
  <2>1. call' \in [Inst -> Call]
    BY <1>8, CallType DEF TakePermit, PermitTimeout, NothingToRead, PC
  <2>2. packets' \in [Inst -> Seq(Frame)] /\ sem' \in [Inst -> Nat]
    <3>1. CASE TakePermit(i)
      BY <3>1 DEF TypeOK, TakePermit
    <3>2. CASE PermitTimeout(i)
      BY <3>2 DEF TypeOK, PermitTimeout, packetQueue
    <3>3. CASE NothingToRead(i)
      BY <3>3 DEF TypeOK, NothingToRead, ResetPackets
    <3> QED
      BY <1>8, <3>1, <3>2, <3>3
  <2> QED
    BY <1>0, <1>8, <2>1, <2>2
       DEF TypeOK, TakePermit, PermitTimeout, NothingToRead, receiving, routing, replyQueue
<1>9. ASSUME NEW i \in Inst, SkipOwnRecord(i) \/ TakeRecord(i) PROVE TypeOK'
  <2>1. call' \in [Inst -> Call]
    BY <1>9, CallType DEF SkipOwnRecord, TakeRecord, PC
  <2>2. ReadRecord(i)
    BY <1>9 DEF SkipOwnRecord, TakeRecord
  <2>3. Head(packets[i]) \in Frame /\ packets' \in [Inst -> Seq(Frame)]
    BY <2>2, HeadTailProperties DEF ReadRecord, TypeOK
  <2>4. Head(packets[i]).sender \in AnyHost /\ Head(packets[i]).seq \in 0..MaxSends
    BY <2>3, InstAssumption DEF Frame, AnyHost
  <2>5. lastHost' \in [Inst -> AnyHost]
    BY <1>9, <2>4 DEF TypeOK, SkipOwnRecord, TakeRecord
  <2>6. lastSeq' \in [Inst -> 0..MaxSends]
    BY <1>9, <2>4 DEF TypeOK, SkipOwnRecord, TakeRecord
  <2> QED
    BY <1>0, <2>1, <2>2, <2>3, <2>5, <2>6 DEF TypeOK, ReadRecord, receiving, routing, replyQueue
<1>10. ASSUME NEW i \in Inst, StopCollecting(i) \/ KeepCollecting(i) PROVE TypeOK'
  <2>1. Group(i) \subseteq Inst
    BY DEF Group, TypeOK
  <2>2. call' \in [Inst -> Call]
    <3>1. CASE StopCollecting(i)
      BY <3>1, CallType DEF StopCollecting
    <3>2. CASE KeepCollecting(i)
      <4>1. [call[i] EXCEPT !.pc = "waitReply", !.group = Group(i), !.since = sent] \in Call
        BY <2>1, CallUpdate DEF TypeOK, PC
      <4> QED
        BY <3>2, <4>1 DEF KeepCollecting, TypeOK
    <3> QED
      BY <1>10, <3>1, <3>2
  <2> QED
    BY <1>0, <1>10, <2>2
       DEF TypeOK, StopCollecting, KeepCollecting, collecting, routing, replyQueue, packetQueue
<1>11. ASSUME NEW i \in Inst, TakeReplyPermit(i) \/ ReplyTimeout(i) \/ NoReplyToRead(i)
       PROVE TypeOK'
  <2>1. call' \in [Inst -> Call]
    BY <1>11, CallType DEF TakeReplyPermit, ReplyTimeout, NoReplyToRead, PC
  <2>2. replies' \in [Inst -> Seq(Reply)] /\ replySem' \in [Inst -> Nat]
    <3>1. CASE TakeReplyPermit(i)
      BY <3>1 DEF TypeOK, TakeReplyPermit
    <3>2. CASE ReplyTimeout(i)
      BY <3>2 DEF TypeOK, ReplyTimeout, replyQueue
    <3>3. CASE NoReplyToRead(i)
      BY <3>3 DEF TypeOK, NoReplyToRead, ResetReplies
    <3> QED
      BY <1>11, <3>1, <3>2, <3>3
  <2> QED
    BY <1>0, <1>11, <2>1, <2>2
       DEF TypeOK, TakeReplyPermit, ReplyTimeout, NoReplyToRead, collecting, routing,
           packetQueue
<1>12. ASSUME NEW i \in Inst, SkipReply(i) \/ TakeReply(i) PROVE TypeOK'
  <2>1. ReadReply(i)
    BY <1>12 DEF SkipReply, TakeReply
  <2>2. Head(replies[i]) \in Reply /\ replies' \in [Inst -> Seq(Reply)]
    BY <2>1, HeadTailProperties DEF ReadReply, TypeOK
  <2>3. call' \in [Inst -> Call]
    <3>1. CASE SkipReply(i)
      BY <3>1, CallType DEF SkipReply, PC
    <3>2. CASE TakeReply(i)
      <4> DEFINE rec == Head(replies[i])
                 seen == Seen(i)
                 got == call[i].got \cup (IF rec.len > 0 THEN {rec.aid} ELSE {})
      <4>1. rec.sender \in Inst /\ seen \subseteq Inst
        BY <2>2 DEF Reply, TypeOK, Call, Seen
      <4>2. CASE Return(i)
        BY <4>2, CallType
      <4>3. got \subseteq 1..15
        <5>1. rec.len > 0 => rec.aid \in 1..15
          BY <2>2, InstAssumption DEF Reply
        <5> QED
          BY <5>1 DEF TypeOK, Call
      <4>4. CASE call' = [call EXCEPT ![i].pc = "collect", ![i].seen = seen,
                                      ![i].got = got]
        <5> HIDE DEF seen, got
        <5>1. [call[i] EXCEPT !.pc = "collect", !.seen = seen, !.got = got] \in Call
          BY <4>1, <4>3, CallUpdate DEF TypeOK, PC
        <5> QED
          BY <4>4, <5>1 DEF TypeOK
      <4> QED
        BY <3>2, <4>2, <4>4 DEF TakeReply
    <3> QED
      BY <1>12, <3>1, <3>2
  <2> QED
    BY <1>0, <2>1, <2>2, <2>3
       DEF TypeOK, ReadReply, collecting, routing, packetQueue
<1>13. ASSUME NEW i \in Inst, NEW want \in SUBSET {AidOf[c] : c \in cast["client"] \ {i}}
       PROVE  want \in SUBSET (1..15)
  <2>1. cast["client"] \subseteq Inst
    BY InstAssumption DEF TypeOK, Roles
  <2> QED
    BY <2>1, InstAssumption
<1>14. ASSUME NEW i \in Inst, HostCall(i) PROVE TypeOK'
  BY <1>3, <1>4, <1>7, <1>13, <1>14 DEF HostCall
<1> QED
  BY <1>1, <1>2, <1>3, <1>14, <1>5, <1>6, <1>8, <1>9, <1>10, <1>11, <1>12
     DEF Next, Start, ClientCall, Continue

(* Every variable always has its type.                                     *)
THEOREM TypeCorrect == Spec => []TypeOK
<1>1. Init => TypeOK
  BY IdleType, InstAssumption DEF Init, TypeOK, AnyAddr, AnyHost
<1> QED
  BY <1>1, TypeStep, PTL DEF Spec

-----------------------------------------------------------------------------
(* Permits.                                                                *)

(* The bounds between which the permits for a queue stay.                  *)
LEMMA HeldType ==
  ASSUME NEW i \in Inst
  PROVE  Held(i) \in {0, 1} /\ HeldReply(i) \in {0, 1}
  BY DEF Held, HeldReply

(* What an overflow or a send does to one queue and its permits.           *)
LEMMA SendKeepsCover ==
  ASSUME NEW S, NEW queue \in Seq(S), NEW rec \in S, NEW permits \in Nat,
         NEW held \in {0, 1},
         permits + held \in Len(queue)..(Len(queue) + 1),
         NEW after, after = IF Overflows(queue, rec) THEN 1 ELSE permits + 1
  PROVE  after + held \in Len(Enqueue(queue, rec))..(Len(Enqueue(queue, rec)) + 1)
<1>1. Len(queue) \in Nat
  BY LenProperties
<1>2. CASE Overflows(queue, rec)
  <2>1. Len(Enqueue(queue, rec)) = 1
    BY <1>2, EnqueueLen
  <2> QED
    BY <1>2, <2>1
<1>3. CASE ~Overflows(queue, rec)
  <2>1. Len(Enqueue(queue, rec)) = Len(queue) + 1
    BY <1>3, EnqueueLen
  <2> QED
    BY <1>1, <1>3, <2>1
<1> QED
  BY <1>2, <1>3

PacketCover(i) == sem[i] + Held(i) \in Len(packets[i])..(Len(packets[i]) + 1)
ReplyCover(i) == replySem[i] + HeldReply(i) \in Len(replies[i])..(Len(replies[i]) + 1)

(* Permits cover the backlogs after every step.                            *)
LEMMA PermitStep == TypeOK /\ PermitsCoverBacklog /\ [Next]_vars => PermitsCoverBacklog'
<1> SUFFICES ASSUME TypeOK, PermitsCoverBacklog, [Next]_vars, NEW j \in Inst
             PROVE  PacketCover(j)' /\ ReplyCover(j)'
  BY DEF PermitsCoverBacklog, PacketCover, ReplyCover
<1>0. /\ PacketCover(j) /\ ReplyCover(j)
      /\ Held(j) \in {0, 1} /\ HeldReply(j) \in {0, 1}
      /\ packets[j] \in Seq(Frame) /\ replies[j] \in Seq(Reply)
      /\ sem[j] \in Nat /\ replySem[j] \in Nat
      /\ Len(packets[j]) \in Nat /\ Len(replies[j]) \in Nat
  BY HeldType, LenProperties DEF PermitsCoverBacklog, PacketCover, ReplyCover, TypeOK
<1>a. ASSUME packets'[j] = packets[j], sem'[j] = sem[j], Held(j)' = Held(j)
      PROVE  PacketCover(j)'
  BY <1>0, <1>a DEF PacketCover
<1>b. ASSUME replies'[j] = replies[j], replySem'[j] = replySem[j],
             HeldReply(j)' = HeldReply(j)
      PROVE  ReplyCover(j)'
  BY <1>0, <1>b DEF ReplyCover
<1>c. ASSUME NEW i \in Inst, ResetPackets(i), call' = call \/ Return(i)
      PROVE  PacketCover(j)'
  <2>1. Held(j)' \in {0, 1} /\ (j # i => Held(j)' = Held(j))
    BY <1>c DEF TypeOK, Held, Return
  <2>2. CASE j = i
    BY <1>c, <2>1, <2>2 DEF ResetPackets, PacketCover, TypeOK
  <2>3. CASE j # i
    BY <1>0, <1>c, <2>1, <2>3 DEF ResetPackets, PacketCover, TypeOK
  <2> QED
    BY <2>2, <2>3
<1>d. ASSUME NEW i \in Inst, ResetReplies(i), call' = call \/ Return(i)
      PROVE  ReplyCover(j)'
  <2>1. HeldReply(j)' \in {0, 1} /\ (j # i => HeldReply(j)' = HeldReply(j))
    BY <1>d DEF TypeOK, HeldReply, Return
  <2>2. CASE j = i
    BY <1>d, <2>1, <2>2 DEF ResetReplies, ReplyCover, TypeOK
  <2>3. CASE j # i
    BY <1>0, <1>d, <2>1, <2>3 DEF ResetReplies, ReplyCover, TypeOK
  <2> QED
    BY <2>2, <2>3
<1>e. ASSUME NEW rec \in Frame, Broadcast(rec), call' = call
      PROVE  PacketCover(j)'
  <2>1. Held(j)' = Held(j)
    BY <1>e DEF Held
  <2>2. CASE j \in connected
    <3>1. /\ packets'[j] = Enqueue(packets[j], rec)
          /\ sem'[j] = IF Overflows(packets[j], rec) THEN 1 ELSE sem[j] + 1
      BY <1>e, <2>2 DEF Broadcast
    <3> QED
      BY <1>0, <2>1, <3>1, SendKeepsCover DEF PacketCover
  <2>3. CASE j \notin connected
    BY <1>a, <1>e, <2>1, <2>3 DEF Broadcast
  <2> QED
    BY <2>2, <2>3
<1>1. CASE UNCHANGED vars
  BY <1>1, <1>a, <1>b DEF vars, Held, HeldReply
<1>2. ASSUME NEW i \in Inst, Begin(i) \/ End(i) PROVE PacketCover(j)' /\ ReplyCover(j)'
  BY <1>2, <1>c, <1>d DEF Begin, End, ForgetSession
<1>3. ASSUME NEW i \in Inst, NEW len \in PayloadLen, SendPacket(i, len) \/ SendAck(i, len)
      PROVE  PacketCover(j)' /\ ReplyCover(j)'
  <2>1. PICK kind \in {"packet", "ack"} :
          CanSend(i) /\ Broadcast(Record(i, kind, len, NoAddr))
    BY <1>3 DEF SendPacket, SendAck
  <2>2. Record(i, kind, len, NoAddr) \in Frame
    BY <2>1, RecordType DEF AnyAddr
  <2>3. UNCHANGED <<call, replies, replySem>>
    BY <1>3 DEF SendPacket, SendAck, replyQueue
  <2> QED
    BY <1>b, <1>e, <2>1, <2>2, <2>3 DEF HeldReply
<1>4. ASSUME NEW i \in Inst, NEW len \in PayloadLen, NEW addr \in {MacOf[i], NoAddr},
             SendCmd(i, len, addr)
      PROVE  PacketCover(j)' /\ ReplyCover(j)'
  <2>1. Record(i, "cmd", len, addr) \in Frame
    <3>1. addr \in AnyAddr
      BY InstAssumption DEF AnyAddr
    <3> QED
      BY <1>4, <3>1, RecordType DEF SendCmd
  <2>2. Broadcast(Record(i, "cmd", len, addr)) /\ ResetReplies(i) /\ call' = call
    BY <1>4 DEF SendCmd
  <2> QED
    BY <1>d, <1>e, <2>1, <2>2
<1>5. ASSUME NEW i \in Inst, NEW len \in PayloadLen \cup {0}, NEW addr \in AnyAddr,
             NEW ts \in Time, SendReply(i, len, addr, ts)
      PROVE  PacketCover(j)' /\ ReplyCover(j)'
  <2>1. PICK host \in Inst, rec \in Reply :
          /\ replies' = [replies EXCEPT ![host] = Enqueue(@, rec)]
          /\ replySem' = [replySem EXCEPT
                            ![host] = IF Overflows(replies[host], rec) THEN 1 ELSE @ + 1]
          /\ UNCHANGED <<packets, sem, call>>
    BY <1>5, ReplyIsSent
  <2>2. HeldReply(j)' = HeldReply(j) /\ Held(j)' = Held(j)
    BY <2>1 DEF Held, HeldReply
  <2>3. CASE j = host
    <3>1. /\ replies'[j] = Enqueue(replies[j], rec)
          /\ replySem'[j] = IF Overflows(replies[j], rec) THEN 1 ELSE replySem[j] + 1
      BY <2>1, <2>3 DEF TypeOK
    <3>2. ReplyCover(j)'
      BY <1>0, <2>2, <3>1, SendKeepsCover DEF ReplyCover
    <3> QED
      BY <1>a, <2>1, <2>2, <3>2
  <2>4. CASE j # host
    BY <1>a, <1>b, <2>1, <2>2, <2>4 DEF TypeOK
  <2> QED
    BY <2>3, <2>4
<1>6. ASSUME NEW i \in Inst,
             \/ RecvPacket(i) \/ RecvHostPacket(i) \/ PermitTimeout(i)
             \/ StopCollecting(i) \/ KeepCollecting(i) \/ ReplyTimeout(i)
             \/ \E ts, want : RecvReplies(i, ts, want)
      PROVE  PacketCover(j)' /\ ReplyCover(j)'
  <2>1. UNCHANGED <<packets, sem, replies, replySem>>
    BY <1>6 DEF RecvPacket, RecvHostPacket, PermitTimeout, StopCollecting, KeepCollecting,
                ReplyTimeout, RecvReplies, receiving, collecting, packetQueue, replyQueue
  <2>2. Held(j)' = Held(j) /\ HeldReply(j)' = HeldReply(j)
    <3> SUFFICES call'[j].pc = call[j].pc \/ {call'[j].pc, call[j].pc} \cap {"got", "gotReply"} = {}
      BY DEF Held, HeldReply
    <3>1. CASE RecvPacket(i) \/ RecvHostPacket(i)
      BY <3>1, CounterMoves DEF RecvPacket, RecvHostPacket, IsIdle
    <3>2. CASE PermitTimeout(i) \/ StopCollecting(i) \/ ReplyTimeout(i)
      BY <3>2, CounterMoves DEF PermitTimeout, StopCollecting, ReplyTimeout
    <3>3. CASE KeepCollecting(i)
      BY <3>3 DEF KeepCollecting, TypeOK, Call
    <3>4. ASSUME NEW ts, NEW want, RecvReplies(i, ts, want)
          PROVE  call'[j].pc = call[j].pc \/ {call'[j].pc, call[j].pc} \cap {"got", "gotReply"} = {}
      BY <3>4 DEF RecvReplies, Idle, IsIdle, TypeOK, Call
    <3> QED
      BY <1>6, <3>1, <3>2, <3>3, <3>4
  <2> QED
    BY <1>a, <1>b, <2>1, <2>2
<1>7. ASSUME NEW i \in Inst, TakePermit(i) PROVE PacketCover(j)' /\ ReplyCover(j)'
  <2>1. UNCHANGED <<packets, replies, replySem>>
    BY <1>7 DEF TakePermit, receiving, replyQueue
  <2>2. HeldReply(j)' = HeldReply(j)
    BY <1>7, CounterMoves DEF TakePermit, HeldReply
  <2>3. sem'[j] + Held(j)' = sem[j] + Held(j)
    <3>1. /\ call[i].pc = "wait"
          /\ call'[j].pc = IF j = i THEN "got" ELSE call[j].pc
      BY <1>7, CounterMoves DEF TakePermit
    <3>2. sem'[j] = IF j = i THEN sem[j] - 1 ELSE sem[j]
      BY <1>7 DEF TakePermit, TypeOK
    <3> QED
      BY <1>0, <3>1, <3>2 DEF Held
  <2> QED
    BY <1>0, <1>b, <2>1, <2>2, <2>3 DEF PacketCover
<1>8. ASSUME NEW i \in Inst, NothingToRead(i) PROVE PacketCover(j)' /\ ReplyCover(j)'
  <2>1. UNCHANGED <<replies, replySem>> /\ ResetPackets(i) /\ Return(i)
    BY <1>8 DEF NothingToRead, receiving, replyQueue
  <2>2. HeldReply(j)' = HeldReply(j)
    BY <1>8, CounterMoves DEF NothingToRead, HeldReply
  <2> QED
    BY <1>b, <1>c, <2>1, <2>2
<1>9. ASSUME NEW i \in Inst, SkipOwnRecord(i) \/ TakeRecord(i)
      PROVE  PacketCover(j)' /\ ReplyCover(j)'
  <2>1. ReadRecord(i) /\ (Return(i) \/ Goto(i, "wait"))
    BY <1>9 DEF SkipOwnRecord, TakeRecord
  <2>2. /\ UNCHANGED <<replies, replySem, sem>>
        /\ call[i].pc = "got"
        /\ packets[i] # <<>> /\ packets' = [packets EXCEPT ![i] = Tail(@)]
    BY <2>1 DEF ReadRecord, receiving, replyQueue
  <2>3. HeldReply(j)' = HeldReply(j)
    BY <2>1, <2>2, CounterMoves DEF HeldReply
  <2>4. CASE j = i
    <3>1. Len(packets'[j]) = Len(packets[j]) - 1
      BY <1>0, <2>2, <2>4, HeadTailProperties DEF TypeOK
    <3>2. Held(j) = 1 /\ Held(j)' = 0
      BY <2>1, <2>2, <2>4 DEF Return, Goto, Idle, Held, TypeOK, Call
    <3> QED
      BY <1>0, <1>b, <2>2, <2>3, <3>1, <3>2 DEF PacketCover
  <2>5. CASE j # i
    <3>1. Held(j)' = Held(j)
      BY <2>1, <2>5 DEF Return, Goto, Held, TypeOK
    <3> QED
      BY <1>a, <1>b, <2>2, <2>3, <2>5, <3>1 DEF TypeOK
  <2> QED
    BY <2>4, <2>5
<1>10. ASSUME NEW i \in Inst, TakeReplyPermit(i) PROVE PacketCover(j)' /\ ReplyCover(j)'
  <2>1. UNCHANGED <<packets, sem, replies>>
    BY <1>10 DEF TakeReplyPermit, collecting, packetQueue
  <2>2. Held(j)' = Held(j)
    BY <1>10, CounterMoves DEF TakeReplyPermit, Held
  <2>3. replySem'[j] + HeldReply(j)' = replySem[j] + HeldReply(j)
    <3>1. /\ call[i].pc = "waitReply"
          /\ call'[j].pc = IF j = i THEN "gotReply" ELSE call[j].pc
      BY <1>10, CounterMoves DEF TakeReplyPermit
    <3>2. replySem'[j] = IF j = i THEN replySem[j] - 1 ELSE replySem[j]
      BY <1>10 DEF TakeReplyPermit, TypeOK
    <3> QED
      BY <1>0, <3>1, <3>2 DEF HeldReply
  <2> QED
    BY <1>0, <1>a, <2>1, <2>2, <2>3 DEF ReplyCover
<1>11. ASSUME NEW i \in Inst, NoReplyToRead(i) PROVE PacketCover(j)' /\ ReplyCover(j)'
  <2>1. UNCHANGED <<packets, sem>> /\ ResetReplies(i) /\ Return(i)
    BY <1>11 DEF NoReplyToRead, collecting, packetQueue
  <2>2. Held(j)' = Held(j)
    BY <1>11 DEF NoReplyToRead, Return, Idle, Held, TypeOK
  <2> QED
    BY <1>a, <1>d, <2>1, <2>2
<1>12. ASSUME NEW i \in Inst, SkipReply(i) \/ TakeReply(i)
       PROVE  PacketCover(j)' /\ ReplyCover(j)'
  <2>1. ReadReply(i)
    BY <1>12 DEF SkipReply, TakeReply
  <2>2. /\ UNCHANGED <<packets, sem, replySem>>
        /\ call[i].pc = "gotReply"
        /\ replies[i] # <<>> /\ replies' = [replies EXCEPT ![i] = Tail(@)]
    BY <2>1 DEF ReadReply, collecting, packetQueue
  <2>3. /\ Held(j)' = Held(j)
        /\ j # i => HeldReply(j)' = HeldReply(j)
        /\ j = i => HeldReply(j) = 1 /\ HeldReply(j)' = 0
    BY <1>12, <2>2, ReplyReadMoves DEF Held, HeldReply, TypeOK
  <2>4. CASE j = i
    <3>1. Len(replies'[j]) = Len(replies[j]) - 1
      BY <1>0, <2>2, <2>4, HeadTailProperties DEF TypeOK
    <3> QED
      BY <1>0, <1>a, <2>2, <2>3, <2>4, <3>1 DEF ReplyCover
  <2>5. CASE j # i
    BY <1>a, <1>b, <2>2, <2>3, <2>5 DEF TypeOK
  <2> QED
    BY <2>4, <2>5
<1> QED
  BY <1>1, <1>2, <1>3, <1>4, <1>5, <1>6, <1>7, <1>8, <1>9, <1>10, <1>11, <1>12
     DEF Next, Start, HostCall, ClientCall, Continue

(* No wakeup is lost: every unread record has a permit, whatever is sent,  *)
(* overflows or powers off while a receiver is between semaphore and lock. *)
THEOREM PermitsCorrect == Spec => []PermitsCoverBacklog
<1>1. Init => PermitsCoverBacklog
  BY DEF Init, PermitsCoverBacklog, Held, HeldReply, Idle
<1>2. TypeOK /\ PermitsCoverBacklog /\ [Next]_vars => PermitsCoverBacklog'
  BY PermitStep
<1> QED
  BY <1>1, <1>2, TypeCorrect, PTL DEF Spec

-----------------------------------------------------------------------------
(* Reply queues belong to active hosts.                                    *)

(* Activity, connection and unread records agree after every step.         *)
LEMMA OwnerStep == TypeOK /\ HostOwnsReplyQueue /\ [Next]_vars => HostOwnsReplyQueue'
<1> SUFFICES ASSUME TypeOK, HostOwnsReplyQueue, [Next]_vars PROVE HostOwnsReplyQueue'
  OBVIOUS
<1>1. CASE UNCHANGED vars
  BY <1>1 DEF vars, HostOwnsReplyQueue
<1>2. ASSUME NEW i \in Inst, Begin(i) \/ End(i) PROVE HostOwnsReplyQueue'
  <2>1. /\ activeHosts' = activeHosts \ {i} /\ hasReplyQueue' = hasReplyQueue
        /\ packets' = [packets EXCEPT ![i] = <<>>] /\ replies' = [replies EXCEPT ![i] = <<>>]
        /\ connected \ {i} \subseteq connected'
    BY <1>2 DEF Begin, End, ForgetSession, ResetPackets, ResetReplies
  <2>2. \A j \in Inst : j \notin connected' => j = i \/ j \notin connected
    BY <2>1
  <2> QED
    BY <2>1, <2>2 DEF HostOwnsReplyQueue, TypeOK
<1>3. ASSUME NEW i \in Inst, NEW rec, Broadcast(rec), connected' = connected
      PROVE  \A j \in Inst : j \notin connected' => packets'[j] = <<>>
  BY <1>3 DEF Broadcast, HostOwnsReplyQueue
<1>4. ASSUME NEW i \in Inst, NEW len \in PayloadLen, SendPacket(i, len) \/ SendAck(i, len)
      PROVE  HostOwnsReplyQueue'
  BY <1>3, <1>4 DEF SendPacket, SendAck, routing, replyQueue, HostOwnsReplyQueue
<1>5. ASSUME NEW i \in Inst, NEW len \in PayloadLen, NEW addr \in {MacOf[i], NoAddr},
             SendCmd(i, len, addr)
      PROVE  HostOwnsReplyQueue'
  <2>1. i \in connected
    BY <1>5 DEF SendCmd, CanSend
  <2> QED
    BY <1>3, <1>5, <2>1 DEF SendCmd, ResetReplies, HostOwnsReplyQueue, TypeOK
<1>6. ASSUME NEW i \in Inst, NEW len \in PayloadLen \cup {0}, NEW addr \in AnyAddr,
             NEW ts \in Time, SendReply(i, len, addr, ts)
      PROVE  HostOwnsReplyQueue'
  <2>1. PICK host \in activeHosts, rec \in Reply :
          /\ replies' = [replies EXCEPT ![host] = Enqueue(@, rec)]
          /\ UNCHANGED <<connected, activeHosts, hasReplyQueue, packets>>
    BY <1>6, ReplyIsSent
  <2> QED
    BY <2>1 DEF HostOwnsReplyQueue, TypeOK
<1>7. ASSUME NEW i \in Inst, Continue(i) PROVE HostOwnsReplyQueue'
  <2>1. CASE TakePermit(i) \/ PermitTimeout(i) \/ NothingToRead(i)
    BY <2>1 DEF TakePermit, PermitTimeout, NothingToRead, ResetPackets, receiving, routing,
                packetQueue, replyQueue, HostOwnsReplyQueue, TypeOK
  <2>2. CASE SkipOwnRecord(i) \/ TakeRecord(i)
    <3>1. ReadRecord(i)
      BY <2>2 DEF SkipOwnRecord, TakeRecord
    <3> QED
      BY <3>1 DEF ReadRecord, receiving, routing, replyQueue, HostOwnsReplyQueue, TypeOK
  <2>3. CASE StopCollecting(i) \/ KeepCollecting(i)
    BY <2>3 DEF StopCollecting, KeepCollecting, collecting, routing, packetQueue, replyQueue,
                HostOwnsReplyQueue
  <2>4. CASE TakeReplyPermit(i) \/ ReplyTimeout(i) \/ NoReplyToRead(i)
    BY <2>4 DEF TakeReplyPermit, ReplyTimeout, NoReplyToRead, ResetReplies, collecting,
                routing, packetQueue, replyQueue, HostOwnsReplyQueue, TypeOK
  <2>5. CASE SkipReply(i) \/ TakeReply(i)
    <3>1. ReadReply(i)
      BY <2>5 DEF SkipReply, TakeReply
    <3> QED
      BY <3>1 DEF ReadReply, collecting, routing, packetQueue, HostOwnsReplyQueue, TypeOK
  <2> QED
    BY <1>7, <2>1, <2>2, <2>3, <2>4, <2>5 DEF Continue
<1>8. ASSUME NEW i \in Inst,
             \/ RecvPacket(i) \/ RecvHostPacket(i)
             \/ \E ts, want : RecvReplies(i, ts, want)
      PROVE  HostOwnsReplyQueue'
  BY <1>8 DEF RecvPacket, RecvHostPacket, RecvReplies, receiving, collecting, routing,
              packetQueue, replyQueue, HostOwnsReplyQueue
<1> QED
  BY <1>1, <1>2, <1>4, <1>5, <1>6, <1>7, <1>8
     DEF Next, Start, HostCall, ClientCall

(* The reply ring of every host that may be replied to is allocated, and   *)
(* what is off the air holds no unread record.                             *)
THEOREM ReplyQueuesOwned == Spec => []HostOwnsReplyQueue
<1>1. Init => HostOwnsReplyQueue
  BY DEF Init, HostOwnsReplyQueue
<1> QED
  BY <1>1, OwnerStep, TypeCorrect, PTL DEF Spec

-----------------------------------------------------------------------------
(* Order.                                                                  *)

(* The numbers of a queue's records: after the last one handed out, up to  *)
(* the last one sent, and increasing.                                      *)
Numbered(queue, low, high) ==
  /\ \A n \in 1..Len(queue) : low < queue[n].seq /\ queue[n].seq <= high
  /\ \A m, n \in 1..Len(queue) : m < n => queue[m].seq < queue[n].seq

(* The strengthening that makes the order of delivery inductive.           *)
SeqInv ==
  \A i \in Inst :
    lastSeq[i] <= sent /\ cmdSeq[i] <= sent /\ Numbered(packets[i], lastSeq[i], sent)

(* An empty queue is numbered.                                             *)
LEMMA NumberedEmpty ==
  ASSUME NEW low, NEW high
  PROVE  Numbered(<<>>, low, high)
  BY DEF Numbered

(* The records of a queue carry numbers.                                   *)
LEMMA FrameNumber ==
  ASSUME NEW queue \in Seq(Frame), NEW n \in 1..Len(queue)
  PROVE  queue[n] \in Frame /\ queue[n].seq \in Nat
<1>1. queue[n] \in Frame
  OBVIOUS
<1> QED
  BY <1>1, InstAssumption DEF Frame

(* Adding the next record keeps the numbering.                             *)
LEMMA NumberedEnqueue ==
  ASSUME NEW queue \in Seq(Frame), NEW rec \in Frame, NEW low \in Nat, NEW high \in Nat,
         low <= high, rec.seq = high + 1, Numbered(queue, low, high)
  PROVE  Numbered(Enqueue(queue, rec), low, high + 1)
<1>1. \A n \in 1..Len(queue) : queue[n] \in Frame /\ queue[n].seq \in Nat
  BY FrameNumber
<1>2. CASE Overflows(queue, rec)
  BY <1>2 DEF Enqueue, Numbered
<1>3. CASE ~Overflows(queue, rec)
  <2>1. Enqueue(queue, rec) = Append(queue, rec)
    BY <1>3 DEF Enqueue
  <2>2. Len(Append(queue, rec)) = Len(queue) + 1
    OBVIOUS
  <2>3. \A n \in 1..(Len(queue) + 1) :
          Append(queue, rec)[n] = IF n = Len(queue) + 1 THEN rec ELSE queue[n]
    OBVIOUS
  <2>4. Len(queue) \in Nat
    OBVIOUS
  <2>5. \A n \in 1..(Len(queue) + 1) :
          low < Append(queue, rec)[n].seq /\ Append(queue, rec)[n].seq <= high + 1
    BY <1>1, <2>3, <2>4 DEF Numbered
  <2>6. ASSUME NEW m \in 1..(Len(queue) + 1), NEW n \in 1..(Len(queue) + 1), m < n
        PROVE  Append(queue, rec)[m].seq < Append(queue, rec)[n].seq
    <3>1. m \in 1..Len(queue) /\ Append(queue, rec)[m] = queue[m]
      BY <2>3, <2>4, <2>6
    <3>2. CASE n = Len(queue) + 1
      <4>1. Append(queue, rec)[n] = rec
        BY <2>3, <3>2
      <4>2. queue[m].seq \in Nat /\ queue[m].seq <= high
        BY <1>1, <3>1 DEF Numbered
      <4> QED
        BY <3>1, <4>1, <4>2
    <3>3. CASE n # Len(queue) + 1
      <4>1. n \in 1..Len(queue) /\ Append(queue, rec)[n] = queue[n]
        BY <2>3, <2>4, <3>3
      <4>2. queue[m].seq < queue[n].seq
        BY <2>6, <3>1, <4>1 DEF Numbered
      <4> QED
        BY <3>1, <4>1, <4>2
    <3> QED
      BY <3>2, <3>3
  <2> QED
    BY <2>1, <2>2, <2>5, <2>6 DEF Numbered
<1> QED
  BY <1>2, <1>3

(* Taking the first record raises the lower end of the numbering.          *)
LEMMA NumberedTail ==
  ASSUME NEW queue \in Seq(Frame), queue # <<>>, NEW low \in Nat, NEW high \in Nat,
         Numbered(queue, low, high)
  PROVE  /\ Head(queue).seq \in Nat /\ low < Head(queue).seq /\ Head(queue).seq <= high
         /\ Numbered(Tail(queue), Head(queue).seq, high)
         /\ Numbered(Tail(queue), low, high)
<1>1. Len(queue) \in Nat /\ Len(queue) > 0 /\ Head(queue) = queue[1]
  OBVIOUS
<1>2. Len(Tail(queue)) = Len(queue) - 1
  OBVIOUS
<1>3. \A n \in 1..(Len(queue) - 1) : Tail(queue)[n] = queue[n + 1]
  OBVIOUS
<1>4. \A n \in 1..Len(queue) : queue[n].seq \in Nat
  BY FrameNumber
<1>5. Head(queue).seq \in Nat /\ low < Head(queue).seq /\ Head(queue).seq <= high
  BY <1>1, <1>4 DEF Numbered
<1>6. \A n \in 1..(Len(queue) - 1) :
        Head(queue).seq < Tail(queue)[n].seq /\ Tail(queue)[n].seq <= high
        /\ low < Tail(queue)[n].seq
  BY <1>1, <1>3 DEF Numbered
<1>7. \A m, n \in 1..(Len(queue) - 1) : m < n => Tail(queue)[m].seq < Tail(queue)[n].seq
  BY <1>1, <1>3 DEF Numbered
<1> QED
  BY <1>2, <1>5, <1>6, <1>7 DEF Numbered

(* The number of records sent may grow without the queue.                  *)
LEMMA NumberedLater ==
  ASSUME NEW queue \in Seq(Frame), NEW low \in Nat, NEW high \in Nat,
         Numbered(queue, low, high)
  PROVE  Numbered(queue, low, high + 1)
<1>1. ASSUME NEW n \in 1..Len(queue)
      PROVE  low < queue[n].seq /\ queue[n].seq <= high + 1
  <2>1. queue[n].seq \in Nat
    BY FrameNumber
  <2>2. low < queue[n].seq /\ queue[n].seq <= high
    BY DEF Numbered
  <2> QED
    BY <2>1, <2>2
<1>2. \A m, n \in 1..Len(queue) : m < n => queue[m].seq < queue[n].seq
  BY DEF Numbered
<1> QED
  BY <1>1, <1>2 DEF Numbered

(* A broadcast keeps the numbers in order.                                 *)
LEMMA SeqBroadcast ==
  ASSUME TypeOK, SeqInv, NEW rec \in Frame, rec.seq = sent + 1, Broadcast(rec),
         lastSeq' = lastSeq, \A i \in Inst : cmdSeq'[i] \in {cmdSeq[i], sent'}
  PROVE  SeqInv'
<1> SUFFICES ASSUME NEW i \in Inst
             PROVE  /\ lastSeq'[i] <= sent' /\ cmdSeq'[i] <= sent'
                    /\ Numbered(packets'[i], lastSeq'[i], sent')
  BY DEF SeqInv
<1>1. /\ packets[i] \in Seq(Frame) /\ lastSeq[i] \in Nat /\ cmdSeq[i] \in Nat /\ sent \in Nat
      /\ lastSeq[i] <= sent /\ cmdSeq[i] <= sent /\ Numbered(packets[i], lastSeq[i], sent)
  BY InstAssumption DEF TypeOK, SeqInv
<1>2. sent' = sent + 1
  BY DEF Broadcast
<1>3. lastSeq'[i] <= sent' /\ cmdSeq'[i] <= sent'
  BY <1>1, <1>2
<1>4. CASE i \in connected
  <2>1. packets'[i] = Enqueue(packets[i], rec)
    BY <1>4 DEF Broadcast
  <2> QED
    BY <1>1, <1>2, <1>3, <2>1, NumberedEnqueue
<1>5. CASE i \notin connected
  <2>1. packets'[i] = packets[i]
    BY <1>5 DEF Broadcast
  <2>2. Numbered(packets[i], lastSeq[i], sent + 1)
    BY <1>1, NumberedLater
  <2> QED
    BY <1>2, <1>3, <2>1, <2>2
<1> QED
  BY <1>4, <1>5

(* The numbers stay in order.                                              *)
LEMMA SeqStep == TypeOK /\ SeqInv /\ [Next]_vars => SeqInv'
<1> SUFFICES ASSUME TypeOK, SeqInv, [Next]_vars PROVE SeqInv'
  OBVIOUS
<1>0. ASSUME NEW i \in Inst
      PROVE  /\ packets[i] \in Seq(Frame) /\ lastSeq[i] \in Nat /\ cmdSeq[i] \in Nat
             /\ sent \in Nat /\ lastSeq[i] <= sent /\ cmdSeq[i] <= sent
             /\ Numbered(packets[i], lastSeq[i], sent)
  BY InstAssumption DEF TypeOK, SeqInv
<1>a. ASSUME UNCHANGED <<packets, sent, cmdSeq, lastSeq>> PROVE SeqInv'
  BY <1>a DEF SeqInv
<1>1. CASE UNCHANGED vars
  BY <1>1, <1>a DEF vars
<1>2. ASSUME NEW i \in Inst, Begin(i) \/ End(i) PROVE SeqInv'
  <2>1. /\ packets' = [packets EXCEPT ![i] = <<>>] /\ sent' = sent /\ cmdSeq' = cmdSeq
        /\ lastSeq' = lastSeq \/ lastSeq' = [lastSeq EXCEPT ![i] = sent]
    BY <1>2 DEF Begin, End, ForgetSession, ResetPackets
  <2> QED
    BY <1>0, <2>1, NumberedEmpty DEF SeqInv, TypeOK
<1>3. ASSUME NEW i \in Inst, NEW len \in PayloadLen, SendPacket(i, len) \/ SendAck(i, len)
      PROVE  SeqInv'
  <2>1. PICK kind \in {"packet", "ack"} :
          CanSend(i) /\ Broadcast(Record(i, kind, len, NoAddr))
    BY <1>3 DEF SendPacket, SendAck
  <2>2. /\ Record(i, kind, len, NoAddr) \in Frame
        /\ Record(i, kind, len, NoAddr).seq = sent + 1
    BY <2>1, RecordType DEF AnyAddr, Record
  <2>3. lastSeq' = lastSeq /\ cmdSeq' = cmdSeq
    BY <1>3 DEF SendPacket, SendAck
  <2> QED
    BY <2>1, <2>2, <2>3, SeqBroadcast
<1>4. ASSUME NEW i \in Inst, NEW len \in PayloadLen, NEW addr \in {MacOf[i], NoAddr},
             SendCmd(i, len, addr)
      PROVE  SeqInv'
  <2>1. /\ Record(i, "cmd", len, addr) \in Frame
        /\ Record(i, "cmd", len, addr).seq = sent + 1
    <3>1. addr \in AnyAddr
      BY InstAssumption DEF AnyAddr
    <3> QED
      BY <1>4, <3>1, RecordType DEF SendCmd, Record
  <2>2. /\ Broadcast(Record(i, "cmd", len, addr)) /\ lastSeq' = lastSeq
        /\ \A j \in Inst : cmdSeq'[j] \in {cmdSeq[j], sent'}
    BY <1>4 DEF SendCmd, TypeOK
  <2> QED
    BY <2>1, <2>2, SeqBroadcast
<1>5. ASSUME NEW i \in Inst, NEW len \in PayloadLen \cup {0}, NEW addr \in AnyAddr,
             NEW ts \in Time, SendReply(i, len, addr, ts)
      PROVE  SeqInv'
  <2>1. sent' = sent + 1 /\ UNCHANGED <<packets, cmdSeq, lastSeq>>
    BY <1>5, ReplyIsSent
  <2>2. ASSUME NEW j \in Inst
        PROVE  lastSeq[j] <= sent + 1 /\ cmdSeq[j] <= sent + 1
               /\ Numbered(packets[j], lastSeq[j], sent + 1)
    <3>1. \A n \in 1..Len(packets[j]) : packets[j][n].seq \in Nat
      BY <1>0, FrameNumber
    <3> QED
      BY <1>0, <3>1 DEF Numbered
  <2> QED
    BY <2>1, <2>2 DEF SeqInv
<1>6. ASSUME NEW i \in Inst, SkipOwnRecord(i) \/ TakeRecord(i) PROVE SeqInv'
  <2>1. /\ packets[i] # <<>> /\ packets' = [packets EXCEPT ![i] = Tail(@)]
        /\ UNCHANGED <<sent, cmdSeq>>
        /\ lastSeq' = lastSeq \/ lastSeq' = [lastSeq EXCEPT ![i] = Head(packets[i]).seq]
    BY <1>6 DEF SkipOwnRecord, TakeRecord, ReadRecord, receiving
  <2>2. /\ Head(packets[i]).seq \in Nat /\ Head(packets[i]).seq <= sent
        /\ Numbered(Tail(packets[i]), Head(packets[i]).seq, sent)
        /\ Numbered(Tail(packets[i]), lastSeq[i], sent)
    BY <1>0, <2>1, NumberedTail
  <2> QED
    BY <1>0, <2>1, <2>2 DEF SeqInv, TypeOK
<1>7. ASSUME NEW i \in Inst, NothingToRead(i) PROVE SeqInv'
  <2>1. packets' = [packets EXCEPT ![i] = <<>>] /\ UNCHANGED <<sent, cmdSeq, lastSeq>>
    BY <1>7 DEF NothingToRead, ResetPackets, receiving
  <2> QED
    BY <1>0, <2>1, NumberedEmpty DEF SeqInv, TypeOK
<1>8. ASSUME NEW i \in Inst,
             \/ RecvPacket(i) \/ RecvHostPacket(i) \/ TakePermit(i) \/ PermitTimeout(i)
             \/ StopCollecting(i) \/ KeepCollecting(i)
             \/ TakeReplyPermit(i) \/ ReplyTimeout(i) \/ NoReplyToRead(i)
             \/ SkipReply(i) \/ TakeReply(i)
             \/ \E ts, want : RecvReplies(i, ts, want)
      PROVE  SeqInv'
  <2>1. UNCHANGED <<packets, sent, cmdSeq, lastSeq>>
    BY <1>8 DEF RecvPacket, RecvHostPacket, TakePermit, PermitTimeout, StopCollecting,
                KeepCollecting, TakeReplyPermit, ReplyTimeout, NoReplyToRead, SkipReply,
                TakeReply, ReadReply, RecvReplies, receiving, collecting, packetQueue
  <2> QED
    BY <2>1, <1>a
<1> QED
  BY <1>1, <1>2, <1>3, <1>4, <1>5, <1>6, <1>7, <1>8
     DEF Next, Start, HostCall, ClientCall, Continue

(* The numbers are always in order.                                        *)
LEMMA SeqCorrect == Spec => []SeqInv
<1>1. Init => SeqInv
  BY InstAssumption, NumberedEmpty DEF Init, SeqInv
<1> QED
  BY <1>1, SeqStep, TypeCorrect, PTL DEF Spec

(* Records are handed out at most once and in the order they were sent,    *)
(* none of them from before the reader powered on.                         *)
THEOREM DeliveryOrder == Spec => DeliveredInOrder
<1> DEFINE Ordered == \A i \in Inst : lastSeq'[i] >= lastSeq[i] /\
                        (TakeRecord(i) => lastSeq'[i] > lastSeq[i])
<1>1. TypeOK /\ SeqInv /\ [Next]_vars => [Ordered]_vars
  <2> SUFFICES ASSUME TypeOK, SeqInv, Next, NEW i \in Inst
               PROVE  lastSeq'[i] >= lastSeq[i] /\ (TakeRecord(i) => lastSeq'[i] > lastSeq[i])
    BY DEF vars, TypeOK
  <2>0. /\ packets[i] \in Seq(Frame) /\ lastSeq[i] \in Nat /\ sent \in Nat
        /\ lastSeq[i] <= sent /\ Numbered(packets[i], lastSeq[i], sent)
    BY InstAssumption DEF TypeOK, SeqInv
  <2>1. ASSUME NEW j \in Inst, TakeRecord(j)
        PROVE  /\ lastSeq'[i] >= lastSeq[i]
               /\ j = i => lastSeq'[i] > lastSeq[i]
    <3>1. packets[j] # <<>> /\ lastSeq' = [lastSeq EXCEPT ![j] = Head(packets[j]).seq]
      BY <2>1 DEF TakeRecord, ReadRecord
    <3>2. CASE j = i
      BY <2>0, <3>1, <3>2, NumberedTail DEF TypeOK
    <3>3. CASE j # i
      BY <2>0, <3>1, <3>3 DEF TypeOK
    <3> QED
      BY <3>2, <3>3
  <2>2. TakeRecord(i) => lastSeq'[i] > lastSeq[i]
    BY <2>1
  <2>3. lastSeq'[i] >= lastSeq[i]
    <3>1. ASSUME NEW j \in Inst, Begin(j) PROVE lastSeq'[i] >= lastSeq[i]
      BY <2>0, <3>1 DEF Begin, TypeOK
    <3>2. ASSUME lastSeq' = lastSeq PROVE lastSeq'[i] >= lastSeq[i]
      BY <2>0, <3>2
    <3>3. ASSUME NEW j \in Inst, Continue(j) PROVE lastSeq' = lastSeq \/ TakeRecord(j)
      BY <3>3 DEF Continue, TakePermit, PermitTimeout, NothingToRead, SkipOwnRecord,
                  StopCollecting, KeepCollecting, TakeReplyPermit, ReplyTimeout,
                  NoReplyToRead, SkipReply, TakeReply, ReadReply, collecting
    <3>4. ASSUME NEW j \in Inst, Start(j) PROVE lastSeq' = lastSeq \/ Begin(j)
      BY <3>4 DEF Start, HostCall, ClientCall, End, SendPacket, SendAck, SendCmd, SendReply,
                  RecvPacket, RecvHostPacket, RecvReplies, collecting
    <3> QED
      BY <2>1, <3>1, <3>2, <3>3, <3>4 DEF Next
  <2> QED
    BY <2>2, <2>3
<1> QED
  BY <1>1, SeqCorrect, TypeCorrect, PTL DEF Spec, DeliveredInOrder

-----------------------------------------------------------------------------
(* Rounds.                                                                 *)

(* What an addressed reply is matched with.                                *)
LEMMA FindReplyHostAddr ==
  ASSUME NEW i \in Inst, NEW addr, addr # NoAddr, FindReplyHost(i, addr) # NoInst
  PROVE  hostAddr[FindReplyHost(i, addr)] = addr
<1> DEFINE hosts == {h \in (activeHosts \cap connected) \ {i} : hostAddr[h] = addr}
<1>1. FindReplyHost(i, addr) = TheOnly(hosts)
  BY DEF FindReplyHost
<1>2. FindReplyHost(i, addr) \in hosts
  BY <1>1 DEF TheOnly
<1> QED
  BY <1>2

(* The replies in a host's ring answer its last command.                   *)
Answers(h) ==
  \A n \in 1..Len(replies[h]) :
    replies[h][n].seq > cmdSeq[h] /\ replies[h][n].addr \in {hostAddr[h], NoAddr}

(* No step leaves a reply of another round or group in a ring.             *)
LEMMA RoundStep ==
  TypeOK /\ SeqInv /\ RepliesAreForTheLastCommand /\ [Next]_vars
    => RepliesAreForTheLastCommand'
<1> SUFFICES ASSUME TypeOK, SeqInv, RepliesAreForTheLastCommand, [Next]_vars,
                    NEW h \in activeHosts'
             PROVE  Answers(h)'
  BY DEF RepliesAreForTheLastCommand, Answers
<1>0. TypeOK'
  BY TypeStep
<1>h. h \in Inst
  BY <1>0 DEF TypeOK
<1>a. ASSUME h \in activeHosts, replies'[h] = replies[h], cmdSeq'[h] = cmdSeq[h],
             hostAddr'[h] = hostAddr[h]
      PROVE  Answers(h)'
  BY <1>a DEF RepliesAreForTheLastCommand, Answers
<1>b. ASSUME replies'[h] = <<>> PROVE Answers(h)'
  BY <1>b DEF Answers
<1>1. CASE UNCHANGED vars
  BY <1>1, <1>a DEF vars
<1>2. ASSUME NEW i \in Inst, Begin(i) \/ End(i) PROVE Answers(h)'
  <2>1. h # i /\ h \in activeHosts
    BY <1>2 DEF Begin, End, ForgetSession
  <2> QED
    BY <1>2, <1>a, <1>h, <2>1 DEF Begin, End, ForgetSession, ResetReplies, TypeOK
<1>3. ASSUME NEW i \in Inst, NEW len \in PayloadLen, SendPacket(i, len) \/ SendAck(i, len)
      PROVE  Answers(h)'
  BY <1>3, <1>a DEF SendPacket, SendAck, routing, replyQueue
<1>4. ASSUME NEW i \in Inst, NEW len \in PayloadLen, NEW addr \in {MacOf[i], NoAddr},
             SendCmd(i, len, addr)
      PROVE  Answers(h)'
  <2>1. CASE h = i
    BY <1>4, <1>b, <1>h, <2>1 DEF SendCmd, ResetReplies, TypeOK
  <2>2. CASE h # i
    BY <1>4, <1>a, <1>h, <2>2 DEF SendCmd, ResetReplies, TypeOK
  <2> QED
    BY <2>1, <2>2
<1>5. ASSUME NEW i \in Inst, NEW len \in PayloadLen \cup {0}, NEW addr \in AnyAddr,
             NEW ts \in Time, SendReply(i, len, addr, ts)
      PROVE  Answers(h)'
  <2>1. PICK host \in Inst, rec \in Reply :
          /\ host = FindReplyHost(i, addr) /\ rec.seq = sent + 1 /\ rec.addr = addr
          /\ replies' = [replies EXCEPT ![host] = Enqueue(@, rec)]
          /\ UNCHANGED <<activeHosts, hostAddr, cmdSeq>>
    BY <1>5, ReplyIsSent
  <2>2. CASE h # host
    BY <1>a, <1>h, <2>1, <2>2 DEF TypeOK
  <2>3. CASE h = host
    <3>1. replies'[h] = Enqueue(replies[h], rec) /\ replies[h] \in Seq(Reply)
      BY <1>h, <2>1, <2>3 DEF TypeOK
    <3>2. rec.seq > cmdSeq[h]
      <4>1. cmdSeq[h] \in Nat /\ cmdSeq[h] <= sent /\ sent \in Nat
        BY <1>h, InstAssumption DEF SeqInv, TypeOK
      <4> QED
        BY <2>1, <4>1
    <3>3. rec.addr \in {hostAddr[h], NoAddr}
      BY <2>1, <2>3, FindReplyHostAddr, InstAssumption
    <3>4. \A n \in 1..Len(replies[h]) :
            replies[h][n].seq > cmdSeq[h] /\ replies[h][n].addr \in {hostAddr[h], NoAddr}
      BY <2>1 DEF RepliesAreForTheLastCommand
    <3>5. ASSUME NEW n \in 1..Len(Enqueue(replies[h], rec))
          PROVE  /\ Enqueue(replies[h], rec)[n].seq > cmdSeq[h]
                 /\ Enqueue(replies[h], rec)[n].addr \in {hostAddr[h], NoAddr}
      BY <3>1, <3>2, <3>3, <3>4, EnqueueElements
    <3> QED
      BY <2>1, <3>1, <3>5 DEF Answers
  <2> QED
    BY <2>2, <2>3
<1>6. ASSUME NEW i \in Inst, SkipReply(i) \/ TakeReply(i) PROVE Answers(h)'
  <2>1. /\ replies[i] # <<>> /\ replies' = [replies EXCEPT ![i] = Tail(@)]
        /\ UNCHANGED <<activeHosts, hostAddr, cmdSeq>>
    BY <1>6 DEF SkipReply, TakeReply, ReadReply, collecting, routing
  <2>2. CASE h # i
    BY <1>a, <1>h, <2>1, <2>2 DEF TypeOK
  <2>3. CASE h = i
    <3>1. replies'[h] = Tail(replies[h]) /\ replies[h] \in Seq(Reply) /\ replies[h] # <<>>
      BY <1>h, <2>1, <2>3 DEF TypeOK
    <3>2. /\ Len(replies'[h]) = Len(replies[h]) - 1 /\ Len(replies[h]) \in Nat
          /\ \A n \in 1..(Len(replies[h]) - 1) : replies'[h][n] = replies[h][n + 1]
      BY <3>1
    <3> QED
      BY <2>1, <3>2 DEF Answers, RepliesAreForTheLastCommand
  <2> QED
    BY <2>2, <2>3
<1>7. ASSUME NEW i \in Inst, NoReplyToRead(i) PROVE Answers(h)'
  <2>1. /\ replies' = [replies EXCEPT ![i] = <<>>]
        /\ UNCHANGED <<activeHosts, hostAddr, cmdSeq>>
    BY <1>7 DEF NoReplyToRead, ResetReplies, collecting, routing
  <2>2. replies'[h] = <<>> \/ replies'[h] = replies[h]
    BY <1>h, <2>1 DEF TypeOK
  <2> QED
    BY <1>a, <1>b, <2>1, <2>2
<1>8. ASSUME NEW i \in Inst,
             \/ RecvPacket(i) \/ RecvHostPacket(i) \/ TakePermit(i) \/ PermitTimeout(i)
             \/ NothingToRead(i) \/ SkipOwnRecord(i) \/ TakeRecord(i)
             \/ StopCollecting(i) \/ KeepCollecting(i)
             \/ TakeReplyPermit(i) \/ ReplyTimeout(i)
             \/ \E ts, want : RecvReplies(i, ts, want)
      PROVE  Answers(h)'
  <2>1. UNCHANGED <<activeHosts, hostAddr, replies, cmdSeq>>
    BY <1>8 DEF RecvPacket, RecvHostPacket, TakePermit, PermitTimeout, NothingToRead,
                SkipOwnRecord, TakeRecord, ReadRecord, StopCollecting, KeepCollecting,
                TakeReplyPermit, ReplyTimeout, RecvReplies, receiving, collecting, routing,
                replyQueue
  <2> QED
    BY <1>a, <2>1
<1> QED
  BY <1>1, <1>2, <1>3, <1>4, <1>5, <1>6, <1>7, <1>8
     DEF Next, Start, HostCall, ClientCall, Continue

(* A host never reads a reply to an earlier command or to another group.   *)
THEOREM RoundsIsolated == Spec => []RepliesAreForTheLastCommand
<1>1. Init => RepliesAreForTheLastCommand
  BY DEF Init, RepliesAreForTheLastCommand
<1> QED
  BY <1>1, RoundStep, SeqCorrect, TypeCorrect, PTL DEF Spec

(* What makes a round that ends early complete.  A console off the air     *)
(* plays with nobody, and a reply in a ring is no newer than its sender's  *)
(* last one.                                                               *)
Players(h) ==
  /\ lastReply[h] <= sent
  /\ h \notin connected => replyHost[h] = NoInst
  /\ \A n \in 1..Len(replies[h]) : replies[h][n].seq <= lastReply[replies[h][n].sender]

(* Whoever was heard answered after the command that this call is about.   *)
HeardInRound(h) ==
  /\ call[h].asked <= cmdSeq[h]
  /\ \A c \in call[h].seen \ {h} : lastReply[c] > call[h].asked

(* Whoever plays with a waiting host without being in the group it         *)
(* remembers came after it began to wait.                                  *)
CameSince(h) ==
  call[h].pc \in {"waitReply", "gotReply"} =>
    /\ call[h].since <= sent
    /\ \A c \in connected \ call[h].group : replyHost[c] = h => lastReply[c] > call[h].since

RoundInv == \A h \in Inst : Players(h) /\ HeardInRound(h) /\ CameSince(h)

(* The numbers that rounds compare.                                        *)
LEMMA RoundNumbers ==
  ASSUME TypeOK, SeqInv, RoundInv
  PROVE  /\ sent \in Nat
         /\ \A i \in Inst : /\ lastReply[i] \in Nat /\ lastReply[i] <= sent
                            /\ cmdSeq[i] \in Nat /\ cmdSeq[i] <= sent
                            /\ call[i].asked \in Nat /\ call[i].asked <= cmdSeq[i]
                            /\ call[i].since \in Nat
                            /\ call[i].seen \subseteq Inst /\ call[i].group \subseteq Inst
                            /\ replies[i] \in Seq(Reply)
         /\ connected \subseteq Inst
<1>1. /\ sent \in 0..MaxSends /\ connected \subseteq Inst
      /\ \A i \in Inst : /\ lastReply[i] \in 0..MaxSends /\ cmdSeq[i] \in 0..MaxSends
                         /\ call[i] \in Call /\ replies[i] \in Seq(Reply)
  BY DEF TypeOK
<1>2. \A k \in Call : /\ k.asked \in 0..MaxSends /\ k.since \in 0..MaxSends
                      /\ k.seen \subseteq Inst /\ k.group \subseteq Inst
  BY DEF Call
<1>3. \A n \in 0..MaxSends : n \in Nat
  BY InstAssumption
<1>4. \A i \in Inst : lastReply[i] <= sent /\ cmdSeq[i] <= sent /\ call[i].asked <= cmdSeq[i]
  BY DEF RoundInv, Players, HeardInRound, SeqInv
<1> QED  BY <1>1, <1>2, <1>3, <1>4

(* The records of a reply ring.                                            *)
LEMMA ReplyRecord ==
  ASSUME NEW queue \in Seq(Reply), NEW n \in 1..Len(queue)
  PROVE  queue[n].sender \in Inst /\ queue[n].seq \in Nat
<1>1. queue[n] \in Reply
  OBVIOUS
<1> QED  BY <1>1, InstAssumption DEF Reply

(* Numbers that only grow, or grow with the sends, leave the calls that    *)
(* are under way as they were.                                             *)
LEMMA CallsGoOn ==
  ASSUME TypeOK, SeqInv, RoundInv, NEW h \in Inst, call'[h] = call[h],
         sent' \in {sent, sent + 1}, cmdSeq'[h] \in {cmdSeq[h], sent + 1},
         \A c \in Inst : lastReply'[c] \in {lastReply[c], sent + 1},
         \A c \in connected' : replyHost'[c] = h =>
            \/ c \in connected /\ replyHost[c] = h
            \/ lastReply'[c] = sent + 1
  PROVE  HeardInRound(h)' /\ CameSince(h)'
<1>1. HeardInRound(h) /\ CameSince(h)
  BY DEF RoundInv
<1>2. HeardInRound(h)'
  BY <1>1, RoundNumbers DEF HeardInRound
<1>3. ASSUME call[h].pc \in {"waitReply", "gotReply"}
      PROVE  /\ call[h].since <= sent'
             /\ \A c \in connected' \ call[h].group :
                  replyHost'[c] = h => lastReply'[c] > call[h].since
  <2>1. call[h].since <= sent /\ call[h].since \in Nat /\ sent \in Nat
    BY <1>1, <1>3, RoundNumbers DEF CameSince
  <2>2. ASSUME NEW c \in connected' \ call[h].group, replyHost'[c] = h
        PROVE  lastReply'[c] > call[h].since
    <3>1. CASE lastReply'[c] = sent + 1
      BY <2>1, <3>1
    <3>2. CASE c \in connected /\ replyHost[c] = h
      <4>1. lastReply[c] > call[h].since /\ c \in Inst
        BY <1>1, <1>3, <2>2, <3>2, RoundNumbers DEF CameSince
      <4> QED  BY <2>1, <4>1
    <3> QED  BY <2>2, <3>1, <3>2
  <2> QED  BY <2>1, <2>2
<1> QED  BY <1>2, <1>3 DEF CameSince

(* A step that sends nothing and moves nobody between sessions.            *)
Still == UNCHANGED <<connected, replyHost, sent, cmdSeq, lastReply>>

(* A ring keeps what is said of it when records leave it.                  *)
LEMMA PlayersStay ==
  ASSUME TypeOK, SeqInv, RoundInv, Still, NEW h \in Inst,
         \/ replies'[h] \in {replies[h], <<>>}
         \/ replies[h] # <<>> /\ replies'[h] = Tail(replies[h])
  PROVE  Players(h)'
<1>1. Players(h) /\ replies[h] \in Seq(Reply)
  BY RoundNumbers DEF RoundInv
<1>2. CASE replies'[h] \in {replies[h], <<>>}
  BY <1>1, <1>2 DEF Players, Still
<1>3. CASE replies[h] # <<>> /\ replies'[h] = Tail(replies[h])
  <2>1. /\ Len(replies'[h]) = Len(replies[h]) - 1 /\ Len(replies[h]) \in Nat
        /\ \A n \in 1..(Len(replies[h]) - 1) : replies'[h][n] = replies[h][n + 1]
    BY <1>1, <1>3
  <2> QED  BY <1>1, <2>1 DEF Players, Still
<1> QED  BY <1>2, <1>3

(* A step inside a call of i: for i it suffices to look at its call.       *)
LEMMA CallMoves ==
  ASSUME TypeOK, SeqInv, RoundInv, Still, NEW i \in Inst,
         \A h \in Inst \ {i} : call'[h] = call[h] /\ replies'[h] = replies[h],
         \/ replies'[i] \in {replies[i], <<>>}
         \/ replies[i] # <<>> /\ replies'[i] = Tail(replies[i]),
         HeardInRound(i)' /\ CameSince(i)'
  PROVE  RoundInv'
<1> SUFFICES ASSUME NEW h \in Inst PROVE Players(h)' /\ HeardInRound(h)' /\ CameSince(h)'
  BY DEF RoundInv
<1>1. Players(h)'
  BY PlayersStay
<1>2. CASE h # i
  BY <1>1, <1>2, CallsGoOn DEF Still
<1> QED  BY <1>1, <1>2

(* A call that returns, and one that moves on without looking at replies,  *)
(* says nothing new.                                                       *)
LEMMA CallRests ==
  ASSUME TypeOK, SeqInv, RoundInv, Still, NEW i \in Inst,
         \/ Return(i)
         \/ Goto(i, "gotReply") /\ call[i].pc = "waitReply"
         \/ \E pc \in {"wait", "got", "collect"} : Goto(i, pc)
  PROVE  HeardInRound(i)' /\ CameSince(i)'
<1>1. /\ HeardInRound(i) /\ CameSince(i)
      /\ call \in [Inst -> Call] /\ cmdSeq[i] \in Nat
  BY RoundNumbers DEF RoundInv, TypeOK
<1>2. CASE Return(i)
  <2>1. call'[i] = Idle
    BY <1>1, <1>2 DEF Return
  <2> QED  BY <1>1, <2>1 DEF HeardInRound, CameSince, Idle, Still
<1>3. ASSUME NEW pc \in {"gotReply", "wait", "got", "collect"}, Goto(i, pc),
             pc = "gotReply" => call[i].pc = "waitReply"
      PROVE  HeardInRound(i)' /\ CameSince(i)'
  <2>1. /\ call'[i].pc = pc
        /\ call'[i].asked = call[i].asked /\ call'[i].seen = call[i].seen
        /\ call'[i].group = call[i].group /\ call'[i].since = call[i].since
    BY <1>1, <1>3 DEF Goto, Call
  <2> QED  BY <1>1, <1>3, <2>1 DEF HeardInRound, CameSince, Still
<1> QED  BY <1>2, <1>3

(* A call begins with nobody heard, about the last command.                *)
LEMMA RoundBegins ==
  ASSUME TypeOK, SeqInv, RoundInv, NEW i \in Inst, NEW ts, NEW want, RecvReplies(i, ts, want)
  PROVE  RoundInv'
<1>1. /\ Still /\ UNCHANGED replies
      /\ call' = [call EXCEPT ![i] = [Idle EXCEPT !.pc = "collect", !.ts = ts, !.want = want,
                                                  !.seen = {i}, !.asked = cmdSeq[i]]]
  BY DEF RecvReplies, collecting, routing, replyQueue, Still
<1>2. /\ call \in [Inst -> Call] /\ cmdSeq[i] \in Nat
  BY RoundNumbers DEF TypeOK
<1>3. /\ call'[i].pc = "collect" /\ call'[i].seen = {i} /\ call'[i].asked = cmdSeq[i]
      /\ \A h \in Inst \ {i} : call'[h] = call[h]
  BY <1>1, <1>2 DEF Idle
<1>4. HeardInRound(i)' /\ CameSince(i)'
  BY <1>1, <1>2, <1>3 DEF HeardInRound, CameSince, Still
<1> QED  BY <1>1, <1>3, <1>4, CallMoves

(* The snapshot has everybody who plays with this host at that moment.     *)
LEMMA SnapshotTaken ==
  ASSUME TypeOK, SeqInv, RoundInv, NEW i \in Inst, KeepCollecting(i)
  PROVE  RoundInv'
<1>1. /\ Still /\ UNCHANGED replies
      /\ call' = [call EXCEPT ![i].pc = "waitReply", ![i].group = Group(i), ![i].since = sent]
  BY DEF KeepCollecting, collecting, routing, replyQueue, Still
<1>2. HeardInRound(i) /\ call \in [Inst -> Call] /\ sent \in Nat /\ i # NoInst
  BY RoundNumbers, InstAssumption DEF RoundInv, TypeOK
<1>3. /\ call'[i].group = Group(i) /\ call'[i].since = sent
      /\ call'[i].asked = call[i].asked /\ call'[i].seen = call[i].seen
      /\ \A h \in Inst \ {i} : call'[h] = call[h]
  BY <1>1, <1>2 DEF Call
<1>4. \A c \in connected \ Group(i) : replyHost[c] # i
  BY <1>2 DEF Group, InOtherGroup
<1>5. HeardInRound(i)' /\ CameSince(i)'
  BY <1>1, <1>2, <1>3, <1>4 DEF HeardInRound, CameSince, Still
<1> QED  BY <1>1, <1>3, <1>5, CallMoves

(* The reply at hand answers the last command of the host that reads it.   *)
LEMMA ReplyAtHand ==
  ASSUME TypeOK, SeqInv, RoundInv, RepliesAreForTheLastCommand, NEW i \in Inst, ReadReply(i)
  PROVE  /\ Head(replies[i]).sender \in Inst
         /\ lastReply[Head(replies[i]).sender] > call[i].asked
         /\ \A c \in Seen(i) \ {i} : lastReply[c] > call[i].asked
<1> DEFINE rec == Head(replies[i])
<1>1. i \in activeHosts /\ replies[i] # <<>> /\ replies[i] \in Seq(Reply)
  BY RoundNumbers DEF ReadReply
<1>2. 1 \in 1..Len(replies[i]) /\ rec = replies[i][1]
  BY <1>1
<1>3. rec.sender \in Inst /\ rec.seq \in Nat
  BY <1>1, <1>2, ReplyRecord
<1>4. rec.seq > cmdSeq[i] /\ rec.seq <= lastReply[rec.sender]
  BY <1>1, <1>2 DEF RepliesAreForTheLastCommand, RoundInv, Players
<1> HIDE DEF rec
<1>5. lastReply[rec.sender] > call[i].asked
  BY <1>3, <1>4, RoundNumbers
<1>6. \A c \in call[i].seen \ {i} : lastReply[c] > call[i].asked
  BY DEF RoundInv, HeardInRound
<1> QED  BY <1>3, <1>5, <1>6 DEF Seen, rec

(* Reading a reply adds its sender to those who were heard.                *)
LEMMA ReplyHeard ==
  ASSUME TypeOK, SeqInv, RoundInv, RepliesAreForTheLastCommand, NEW i \in Inst,
         SkipReply(i) \/ TakeReply(i)
  PROVE  RoundInv'
<1>1. /\ ReadReply(i) /\ Still /\ replies[i] # <<>>
      /\ replies' = [replies EXCEPT ![i] = Tail(@)]
  BY DEF SkipReply, TakeReply, ReadReply, collecting, routing, Still
<1>2. /\ replies'[i] = Tail(replies[i])
      /\ \A h \in Inst \ {i} : call'[h] = call[h] /\ replies'[h] = replies[h]
  BY <1>1, ReplyReadMoves DEF TypeOK
<1>3. HeardInRound(i)' /\ CameSince(i)'
  <2>1. PICK got :
          \/ Return(i) \/ Goto(i, "collect")
          \/ call' = [call EXCEPT ![i].pc = "collect", ![i].seen = Seen(i), ![i].got = got]
    BY DEF SkipReply, TakeReply
  <2>2. CASE Return(i) \/ Goto(i, "collect")
    BY <1>1, <2>2, CallRests
  <2>3. CASE call' = [call EXCEPT ![i].pc = "collect", ![i].seen = Seen(i), ![i].got = got]
    <3>1. /\ call'[i].pc = "collect" /\ call'[i].seen = Seen(i)
          /\ call'[i].asked = call[i].asked
      BY <2>3 DEF TypeOK, Call
    <3>2. HeardInRound(i)
      BY DEF RoundInv
    <3> QED  BY <1>1, <3>1, <3>2, ReplyAtHand DEF HeardInRound, CameSince, Still
  <2> QED  BY <2>1, <2>2, <2>3
<1> QED  BY <1>1, <1>2, <1>3, CallMoves

(* What a round that ends early rests on holds after every step.           *)
LEMMA RoundInvStep ==
  TypeOK /\ SeqInv /\ RepliesAreForTheLastCommand /\ RoundInv /\ [Next]_vars => RoundInv'
<1> SUFFICES ASSUME TypeOK, SeqInv, RepliesAreForTheLastCommand, RoundInv, [Next]_vars
             PROVE  RoundInv'
  OBVIOUS
<1>1. CASE UNCHANGED vars
  BY <1>1 DEF vars, RoundInv, Players, HeardInRound, CameSince
<1>2. ASSUME NEW i \in Inst, Begin(i) \/ End(i) PROVE RoundInv'
  <2>1. /\ replies' = [replies EXCEPT ![i] = <<>>]
        /\ replyHost' = [replyHost EXCEPT ![i] = NoInst]
        /\ UNCHANGED <<call, sent, cmdSeq, lastReply>>
        /\ connected' \ {i} = connected \ {i}
    BY <1>2 DEF Begin, End, ForgetSession, ResetReplies
  <2> SUFFICES ASSUME NEW h \in Inst PROVE Players(h)' /\ HeardInRound(h)' /\ CameSince(h)'
    BY DEF RoundInv
  <2>2. Players(h)'
    <3>1. Players(h)
      BY DEF RoundInv
    <3>2. replies'[h] \in {replies[h], <<>>}
      BY <2>1 DEF TypeOK
    <3>3. h \notin connected' => replyHost'[h] = NoInst
      BY <2>1, <3>1 DEF Players, TypeOK
    <3> QED  BY <2>1, <3>1, <3>2, <3>3 DEF Players
  <2>3. ASSUME NEW c \in connected', replyHost'[c] = h
        PROVE  c \in connected /\ replyHost[c] = h
    <3>1. c # i
      BY <2>1, <2>3, InstAssumption DEF TypeOK
    <3>2. c \in connected
      BY <2>1, <3>1
    <3> QED  BY <2>1, <2>3, <3>1, <3>2 DEF TypeOK
  <2> QED  BY <2>1, <2>2, <2>3, CallsGoOn
<1>3. ASSUME NEW i \in Inst, NEW len \in PayloadLen, NEW addr,
             SendPacket(i, len) \/ SendAck(i, len) \/ SendCmd(i, len, addr)
      PROVE  RoundInv'
  <2>1. /\ UNCHANGED <<connected, replyHost, call, lastReply>> /\ sent' = sent + 1
        /\ \A h \in Inst : replies'[h] \in {replies[h], <<>>}
        /\ \A h \in Inst : cmdSeq'[h] \in {cmdSeq[h], sent + 1}
    BY <1>3 DEF SendPacket, SendAck, SendCmd, Broadcast, ResetReplies, routing, replyQueue,
                TypeOK
  <2> SUFFICES ASSUME NEW h \in Inst PROVE Players(h)' /\ HeardInRound(h)' /\ CameSince(h)'
    BY DEF RoundInv
  <2>2. Players(h)'
    <3>1. Players(h) /\ lastReply[h] \in Nat /\ sent \in Nat
      BY RoundNumbers DEF RoundInv
    <3> QED  BY <2>1, <3>1 DEF Players
  <2> QED  BY <2>1, <2>2, CallsGoOn
<1>4. ASSUME NEW i \in Inst, NEW len \in PayloadLen \cup {0}, NEW addr \in AnyAddr,
             NEW ts \in Time, SendReply(i, len, addr, ts)
      PROVE  RoundInv'
  <2>1. PICK host \in Inst, rec \in Reply :
          /\ rec.seq = sent + 1 /\ rec.sender = i
          /\ lastReply' = [lastReply EXCEPT ![i] = sent + 1]
          /\ sent' = sent + 1
          /\ replies' = [replies EXCEPT ![host] = Enqueue(@, rec)]
          /\ replyHost' = [replyHost EXCEPT ![i] = host]
          /\ UNCHANGED <<connected, call, cmdSeq>>
    BY <1>4, ReplyIsSent
  <2>2. i \in connected
    BY <1>4 DEF SendReply, CanSend
  <2>3. ASSUME NEW c \in Inst
        PROVE  /\ lastReply'[c] = IF c = i THEN sent + 1 ELSE lastReply[c]
               /\ replyHost'[c] = IF c = i THEN host ELSE replyHost[c]
               /\ lastReply[c] \in Nat /\ lastReply[c] <= sent /\ sent \in Nat
    BY <2>1, RoundNumbers DEF TypeOK
  <2> SUFFICES ASSUME NEW h \in Inst PROVE Players(h)' /\ HeardInRound(h)' /\ CameSince(h)'
    BY DEF RoundInv
  <2>4. ASSUME NEW n \in 1..Len(replies[h])
        PROVE  replies[h][n].seq <= lastReply'[replies[h][n].sender]
    <3>1. replies[h][n].sender \in Inst /\ replies[h][n].seq \in Nat
      BY RoundNumbers, ReplyRecord
    <3>2. replies[h][n].seq <= lastReply[replies[h][n].sender]
      BY DEF RoundInv, Players
    <3> QED  BY <2>3, <3>1, <3>2
  <2>5. ASSUME NEW n \in 1..Len(replies'[h])
        PROVE  replies'[h][n].seq <= lastReply'[replies'[h][n].sender]
    <3>1. CASE h # host
      BY <2>1, <2>4, <2>5, <3>1 DEF TypeOK
    <3>2. CASE h = host
      <4>1. replies'[h] = Enqueue(replies[h], rec) /\ replies[h] \in Seq(Reply)
        BY <2>1, <3>2 DEF TypeOK
      <4>2. \/ Enqueue(replies[h], rec)[n] = rec
            \/ n \in 1..Len(replies[h]) /\ Enqueue(replies[h], rec)[n] = replies[h][n]
        BY <2>5, <4>1, EnqueueElements
      <4>3. rec.seq <= lastReply'[rec.sender]
        BY <2>1, <2>3
      <4> QED  BY <2>4, <4>1, <4>2, <4>3
    <3> QED  BY <3>1, <3>2
  <2>6. Players(h)'
    <3>1. lastReply'[h] <= sent'
      BY <2>1, <2>3
    <3>2. h \notin connected' => replyHost'[h] = NoInst
      BY <2>1, <2>2, <2>3 DEF RoundInv, Players
    <3> QED  BY <2>5, <3>1, <3>2 DEF Players
  <2>7. \A c \in connected' : replyHost'[c] = h =>
           \/ c \in connected /\ replyHost[c] = h
           \/ lastReply'[c] = sent + 1
    BY <2>1, <2>3, RoundNumbers
  <2> QED  BY <2>1, <2>3, <2>6, <2>7, CallsGoOn
<1>5. ASSUME NEW i \in Inst, NEW ts, NEW want, RecvReplies(i, ts, want) PROVE RoundInv'
  BY <1>5, RoundBegins
<1>6. ASSUME NEW i \in Inst, KeepCollecting(i) PROVE RoundInv'
  BY <1>6, SnapshotTaken
<1>7. ASSUME NEW i \in Inst, SkipReply(i) \/ TakeReply(i) PROVE RoundInv'
  BY <1>7, ReplyHeard
<1>8. ASSUME NEW i \in Inst,
             \/ RecvPacket(i) \/ RecvHostPacket(i) \/ TakePermit(i) \/ PermitTimeout(i)
             \/ NothingToRead(i) \/ SkipOwnRecord(i) \/ TakeRecord(i)
             \/ StopCollecting(i) \/ TakeReplyPermit(i) \/ ReplyTimeout(i) \/ NoReplyToRead(i)
      PROVE  RoundInv'
  <2>1. /\ Still
        /\ replies' = replies \/ replies' = [replies EXCEPT ![i] = <<>>]
    BY <1>8 DEF RecvPacket, RecvHostPacket, TakePermit, PermitTimeout, NothingToRead,
                SkipOwnRecord, TakeRecord, ReadRecord, StopCollecting, TakeReplyPermit,
                ReplyTimeout, NoReplyToRead, ResetReplies, receiving, collecting, routing,
                replyQueue, Still
  <2>2. \/ Return(i)
        \/ Goto(i, "gotReply") /\ call[i].pc = "waitReply"
        \/ \E pc \in {"wait", "got", "collect"} : Goto(i, pc)
    BY <1>8 DEF RecvPacket, RecvHostPacket, TakePermit, PermitTimeout, NothingToRead,
                SkipOwnRecord, TakeRecord, StopCollecting, TakeReplyPermit, ReplyTimeout,
                NoReplyToRead
  <2>3. HeardInRound(i)' /\ CameSince(i)'
    BY <2>1, <2>2, CallRests
  <2>4. \A h \in Inst \ {i} : call'[h] = call[h]
    BY <2>2 DEF Return, Goto, TypeOK
  <2>5. replies'[i] \in {replies[i], <<>>} /\ \A h \in Inst \ {i} : replies'[h] = replies[h]
    BY <2>1 DEF TypeOK
  <2> QED  BY <2>1, <2>3, <2>4, <2>5, CallMoves
<1> QED
  BY <1>1, <1>2, <1>3, <1>4, <1>5, <1>6, <1>7, <1>8
     DEF Next, Start, HostCall, ClientCall, Continue

(* What a host believes of its round is always true.                       *)
LEMMA RoundsSound == Spec => []RoundInv
<1>1. Init => RoundInv
  BY InstAssumption DEF Init, Idle, RoundInv, Players, HeardInRound, CameSince
<1> QED  BY <1>1, RoundInvStep, RoundsIsolated, SeqCorrect, TypeCorrect, PTL DEF Spec

(* RecvReplies ends a round early, at either of its two places, only with  *)
(* an answer to this round's command from every client of the host; at the *)
(* second place, all but those who came to it while it waited.             *)
THEOREM EarlyReturns == Spec => EarlyReturnIsComplete
<1> DEFINE Complete(h) ==
      /\ StopCollecting(h) => AnsweredBy(h, call[h].seen, sent)
      /\ TakeReply(h) /\ HeardGroup(h) => AnsweredBy(h, Seen(h), call[h].since)
<1>1. ASSUME TypeOK, SeqInv, RepliesAreForTheLastCommand, RoundInv,
             NEW h \in activeHosts \cap connected
      PROVE  Complete(h)
  <2>1. h \in Inst /\ h # NoInst
    BY <1>1, InstAssumption DEF TypeOK
  <2>2. ASSUME StopCollecting(h) PROVE AnsweredBy(h, call[h].seen, sent)
    <3>1. Group(h) \subseteq call[h].seen
      BY <2>2 DEF StopCollecting
    <3>2. \A c \in connected \ Group(h) : replyHost[c] # h
      BY <2>1 DEF Group, InOtherGroup
    <3>3. HeardInRound(h)
      BY <1>1, <2>1 DEF RoundInv
    <3> QED  BY <3>1, <3>2, <3>3 DEF AnsweredBy, HeardInRound
  <2>3. ASSUME TakeReply(h), HeardGroup(h) PROVE AnsweredBy(h, Seen(h), call[h].since)
    <3>1. ReadReply(h) /\ call[h].pc = "gotReply" /\ call[h].group \subseteq Seen(h)
      BY <2>3 DEF TakeReply, ReadReply, HeardGroup
    <3>2. CameSince(h)
      BY <1>1, <2>1 DEF RoundInv
    <3>3. \A c \in Seen(h) \ {h} : lastReply[c] > call[h].asked
      BY <1>1, <2>1, <3>1, ReplyAtHand
    <3> QED  BY <3>1, <3>2, <3>3 DEF AnsweredBy, CameSince
  <2> QED  BY <2>2, <2>3
<1>2. TypeOK /\ SeqInv /\ RepliesAreForTheLastCommand /\ RoundInv =>
        [\A h \in activeHosts \cap connected : Complete(h)]_vars
  BY <1>1
<1> QED
  BY <1>2, RoundsSound, RoundsIsolated, SeqCorrect, TypeCorrect, PTL
     DEF EarlyReturnIsComplete

-----------------------------------------------------------------------------
(* Refinement.                                                             *)

(* Every step of the protocol is a step of the broadcast queue, or none.   *)
LEMMA BacklogStep ==
  TypeOK /\ HostOwnsReplyQueue /\ [Next]_vars => [Backlog!Next]_(Backlog!vars)
<1> SUFFICES ASSUME TypeOK, HostOwnsReplyQueue, [Next]_vars
             PROVE  Backlog!Next \/ UNCHANGED <<connected, packets>>
  BY DEF Backlog!vars
<1>1. CASE UNCHANGED vars
  BY <1>1 DEF vars
<1>2. ASSUME NEW i \in Inst, Begin(i) PROVE Backlog!Join(i)
  BY <1>2 DEF Begin, ForgetSession, ResetPackets, Backlog!Join
<1>3. ASSUME NEW i \in Inst, End(i) PROVE Backlog!Leave(i)
  BY <1>3 DEF End, ForgetSession, ResetPackets, Backlog!Leave
<1>4. ASSUME NEW i \in connected, NEW rec \in Frame, Broadcast(rec), connected' = connected
      PROVE  Backlog!Broadcast(rec)
  BY <1>4 DEF Broadcast, Backlog!Broadcast, Enqueue, Backlog!Enqueue, Overflows,
              Backlog!Overflows, Bytes, Backlog!Bytes, RecordLen, Backlog!RecordLen
<1>5. ASSUME NEW i \in Inst, NEW len \in PayloadLen, SendPacket(i, len) \/ SendAck(i, len)
      PROVE  Backlog!Next
  <2>1. PICK kind \in {"packet", "ack"} :
          CanSend(i) /\ Broadcast(Record(i, kind, len, NoAddr)) /\ connected' = connected
    BY <1>5 DEF SendPacket, SendAck
  <2>2. Record(i, kind, len, NoAddr) \in Frame /\ i \in connected
    BY <2>1, RecordType DEF AnyAddr, CanSend
  <2> QED
    BY <1>4, <2>1, <2>2 DEF Backlog!Next
<1>6. ASSUME NEW i \in Inst, NEW len \in PayloadLen, NEW addr \in {MacOf[i], NoAddr},
             SendCmd(i, len, addr)
      PROVE  Backlog!Next
  <2>1. addr \in AnyAddr
    BY InstAssumption DEF AnyAddr
  <2>2. Record(i, "cmd", len, addr) \in Frame /\ i \in connected
    BY <1>6, <2>1, RecordType DEF SendCmd, CanSend
  <2>3. Broadcast(Record(i, "cmd", len, addr)) /\ connected' = connected
    BY <1>6 DEF SendCmd
  <2> QED
    BY <1>4, <2>2, <2>3 DEF Backlog!Next
<1>7. ASSUME NEW i \in Inst, SkipOwnRecord(i) \/ TakeRecord(i) PROVE Backlog!Take(i)
  BY <1>7 DEF SkipOwnRecord, TakeRecord, ReadRecord, receiving, Backlog!Take
<1>8. ASSUME NEW i \in Inst, NothingToRead(i) PROVE UNCHANGED <<connected, packets>>
  BY <1>8 DEF NothingToRead, ResetPackets, receiving, HostOwnsReplyQueue, TypeOK
<1>9. ASSUME NEW i \in Inst, NEW len \in PayloadLen \cup {0}, NEW addr \in AnyAddr,
             NEW ts \in Time, SendReply(i, len, addr, ts)
      PROVE  UNCHANGED <<connected, packets>>
  BY <1>9, ReplyIsSent
<1>10. ASSUME NEW i \in Inst,
             \/ RecvPacket(i) \/ RecvHostPacket(i) \/ TakePermit(i) \/ PermitTimeout(i)
             \/ StopCollecting(i) \/ KeepCollecting(i)
             \/ TakeReplyPermit(i) \/ ReplyTimeout(i) \/ NoReplyToRead(i)
             \/ SkipReply(i) \/ TakeReply(i)
             \/ \E ts, want : RecvReplies(i, ts, want)
       PROVE  UNCHANGED <<connected, packets>>
  BY <1>10 DEF RecvPacket, RecvHostPacket, TakePermit, PermitTimeout, StopCollecting,
               KeepCollecting, TakeReplyPermit, ReplyTimeout, NoReplyToRead, SkipReply,
               TakeReply, ReadReply, RecvReplies, receiving, collecting, packetQueue
<1> QED
  BY <1>1, <1>2, <1>3, <1>5, <1>6, <1>7, <1>8, <1>9, <1>10
     DEF Next, Start, HostCall, ClientCall, Continue, Backlog!Next

(* The protocol implements the broadcast queue: whatever the receivers'    *)
(* threads do, a record is lost only with its reader's whole backlog.      *)
THEOREM RefinesBacklog == Spec => ImplementsBacklog
<1>1. Init => Backlog!Init
  BY DEF Init, Backlog!Init
<1> QED
  BY <1>1, BacklogStep, ReplyQueuesOwned, TypeCorrect, PTL
     DEF Spec, ImplementsBacklog, Backlog!Spec
=============================================================================

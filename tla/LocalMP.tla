------------------------------ MODULE LocalMP -------------------------------
(***************************************************************************)
(* Local multiplayer between the emulated consoles of one process:         *)
(* src/src/net/LocalMP.cpp.  Every console ("instance") runs on an         *)
(* emulation thread of its own and calls into one shared object.  A call   *)
(* that only sends is one critical section of MPQueueLock and hence one    *)
(* action.  A call that receives takes a semaphore permit OUTSIDE the lock *)
(* and uses it inside a later critical section, so other threads may send, *)
(* overflow the queue, power up or power down in between: those calls are  *)
(* a program counter and one action per step.                              *)
(*                                                                         *)
(* A queue is the sequence of records between a reader's cursor and the    *)
(* write cursor; LocalMPRing shows that the byte ring implements it.       *)
(***************************************************************************)
EXTENDS MPRecord, FiniteSets

CONSTANTS
  Inst,       \* the instances
  NoInst,     \* -1 in LastHostID and ReplyHostID
  Casts,      \* which roles the programs of the instances may have
  Addr,       \* pairs of a Wi-Fi channel and a MAC address
  NoAddr,     \* a frame without a Wi-Fi header (HostChannel = 0)
  MacOf,      \* the address an instance puts into its command frames
  AidOf,      \* the association id an instance replies with (1..15)
  PayloadLen, \* payload lengths that senders use
  Time,       \* sender clocks that replies and reply windows carry
  StaleAge,   \* 32: how much older than its command a reply may be
  MaxSends    \* bound on the number of records sent

(* Who joins the air, leaves it again, sends ordinary packets, receives    *)
(* broadcast frames, opens command rounds and answers them.                *)
Roles == {"player", "leaver", "talker", "listener", "host", "client"}

ASSUME InstAssumption ==
  /\ IsFiniteSet(Inst)
  /\ NoInst \notin Inst
  /\ Casts \subseteq [Roles -> SUBSET Inst]
  /\ NoAddr \notin Addr
  /\ MacOf \in [Inst -> Addr]
  /\ AidOf \in [Inst -> 1..15]
  /\ PayloadLen \subseteq Nat
  /\ Time \subseteq Nat
  /\ StaleAge \in Nat
  /\ MaxSends \in Nat

VARIABLES
  cast,          \* the roles of the instances in this session
  connected,     \* MPStatus.ConnectedBitmask
  activeHosts,   \* MPStatus.ActiveHosts
  hasReplyQueue, \* the instances whose MPReplyQueue is allocated
  hostAddr,      \* HostAddress and HostChannel
  lastHost,      \* LastHostID: sender of the last command received
  replyHost,     \* ReplyHostID: host the last reply was sent to
  packets,       \* packets[i]: unread part of MPPacketQueue for reader i
  replies,       \* replies[h]: unread part of MPReplyQueue[h]
  sem,           \* SemPool[i]
  replySem,      \* SemPool[16 + i]
  call,          \* the receive call in progress on each thread
  sent,          \* history: number of records sent so far
  cmdSeq,        \* history: number of the last command of each host
  lastSeq,       \* history: number of the last record i was handed
  lastReply      \* history: number of the last reply i sent

vars == <<cast, connected, activeHosts, hasReplyQueue, hostAddr, lastHost, replyHost,
          packets, replies, sem, replySem, call, sent, cmdSeq, lastSeq, lastReply>>

routing == <<activeHosts, hasReplyQueue, hostAddr, replyHost>>
packetQueue == <<packets, sem>>
replyQueue == <<replies, replySem>>

-----------------------------------------------------------------------------
(* Records.  seq numbers the sends; it is not in the code and no guard     *)
(* reads it.                                                               *)

AnyAddr == Addr \cup {NoAddr}
AnyHost == Inst \cup {NoInst}

Frame == [sender : Inst, kind : {"packet", "cmd", "ack"},
          len : PayloadLen, addr : AnyAddr, seq : 1..MaxSends]
Reply == {rec \in [sender : Inst, aid : 0..15, len : PayloadLen \cup {0},
                   addr : AnyAddr, ts : Time, seq : 1..MaxSends] :
            rec.aid = 0 => rec.len = 0}

PC == {"idle", "wait", "got", "collect", "waitReply", "gotReply"}

Call == [pc : PC,
         ts : Time \cup {0},      \* timestamp argument of RecvReplies
         want : SUBSET (1..15),   \* aidmask
         group : SUBSET Inst,     \* curinstmask: a snapshot
         seen : SUBSET Inst,      \* myinstmask
         got : SUBSET (1..15),    \* ret
         asked : 0..MaxSends,     \* history: the last command before the call
         since : 0..MaxSends]     \* history: the sends before the snapshot

Idle == [pc |-> "idle", ts |-> 0, want |-> {}, group |-> {}, seen |-> {},
         got |-> {}, asked |-> 0, since |-> 0]

IsIdle(i) == call[i].pc = "idle"
Return(i) == call' = [call EXCEPT ![i] = Idle]
Goto(i, pc) == call' = [call EXCEPT ![i].pc = pc]

Init ==
  /\ cast \in Casts
  /\ connected = {}
  /\ activeHosts = {}
  /\ hasReplyQueue = {}
  /\ hostAddr = [i \in Inst |-> NoAddr]
  /\ lastHost = [i \in Inst |-> NoInst]
  /\ replyHost = [i \in Inst |-> NoInst]
  /\ packets = [i \in Inst |-> <<>>]
  /\ replies = [i \in Inst |-> <<>>]
  /\ sem = [i \in Inst |-> 0]
  /\ replySem = [i \in Inst |-> 0]
  /\ call = [i \in Inst |-> Idle]
  /\ sent = 0
  /\ cmdSeq = [i \in Inst |-> 0]
  /\ lastSeq = [i \in Inst |-> 0]
  /\ lastReply = [i \in Inst |-> 0]

(* Mutant: the cursor moves and the permits stay.                          *)
ResetPacketsOnly(i) ==
  /\ packets' = [packets EXCEPT ![i] = <<>>]
  /\ UNCHANGED sem

(* ResetFIFO moves the read cursor to the write cursor and drains the      *)
(* permits, without blocking.                                              *)
ResetPackets(i) ==
  /\ packets' = [packets EXCEPT ![i] = <<>>]
  /\ sem' = [sem EXCEPT ![i] = 0]

ResetReplies(i) ==
  /\ replies' = [replies EXCEPT ![i] = <<>>]
  /\ replySem' = [replySem EXCEPT ![i] = 0]

-----------------------------------------------------------------------------
(* Power.  These calls and the sends below may be made while a receive     *)
(* call of the same instance is between its semaphore and the lock: that   *)
(* is the interleaving tests/LocalMPInterleaving.cpp exercises.            *)

ForgetSession(i) ==
  /\ ResetPackets(i)
  /\ ResetReplies(i)
  /\ lastHost' = [lastHost EXCEPT ![i] = NoInst]
  /\ replyHost' = [replyHost EXCEPT ![i] = NoInst]
  /\ activeHosts' = activeHosts \ {i}
  /\ hostAddr' = [hostAddr EXCEPT ![i] = NoAddr]
  /\ UNCHANGED <<hasReplyQueue, call, sent, cmdSeq, lastReply>>

Begin(i) ==
  /\ ForgetSession(i)
  /\ connected' = connected \cup {i}
  /\ lastSeq' = [lastSeq EXCEPT ![i] = sent]

(* Mutant: the instance that leaves stays an active host.                  *)
EndAsHost(i) ==
  /\ ResetPackets(i)
  /\ ResetReplies(i)
  /\ connected' = connected \ {i}
  /\ lastHost' = [lastHost EXCEPT ![i] = NoInst]
  /\ replyHost' = [replyHost EXCEPT ![i] = NoInst]
  /\ UNCHANGED <<activeHosts, hostAddr, hasReplyQueue, call, sent, cmdSeq, lastSeq,
                 lastReply>>

End(i) ==
  /\ ForgetSession(i)
  /\ connected' = connected \ {i}
  /\ UNCHANGED lastSeq

-----------------------------------------------------------------------------
(* Sending.  A sender that is not connected, and a record the argument     *)
(* checks reject, changes nothing, so it is no step here.                  *)

CanSend(i) == i \in connected /\ sent < MaxSends

(* Mutant: one reader that overflows costs every reader its backlog.       *)
BroadcastResettingAll(rec) ==
  LET full == \E j \in connected : Overflows(packets[j], rec)
  IN  /\ packets' = [j \in Inst |-> IF j \notin connected THEN packets[j]
                                    ELSE IF full THEN <<rec>>
                                    ELSE Append(packets[j], rec)]
      /\ sem' = [j \in Inst |-> IF j \notin connected THEN sem[j]
                                ELSE IF full THEN 1 ELSE sem[j] + 1]
      /\ sent' = sent + 1

(* The record is added to the queue of every connected instance, the       *)
(* sender included, and each gets a permit.  An overflowing reader has its *)
(* permits drained with its backlog.                                       *)
Broadcast(rec) ==
  /\ packets' = [j \in Inst |-> IF j \in connected THEN Enqueue(packets[j], rec)
                                                   ELSE packets[j]]
  /\ sem' = [j \in Inst |->
               IF j \notin connected THEN sem[j]
               ELSE IF Overflows(packets[j], rec) THEN 1 ELSE sem[j] + 1]
  /\ sent' = sent + 1

Record(i, kind, len, addr) ==
  [sender |-> i, kind |-> kind, len |-> len, addr |-> addr, seq |-> sent + 1]

SendPacket(i, len) ==
  /\ CanSend(i)
  /\ Broadcast(Record(i, "packet", len, NoAddr))
  /\ UNCHANGED <<connected, routing, lastHost, replyQueue, call, cmdSeq, lastSeq,
                 lastReply>>

SendAck(i, len) ==
  /\ CanSend(i)
  /\ Broadcast(Record(i, "ack", len, NoAddr))
  /\ UNCHANGED <<connected, routing, lastHost, replyQueue, call, cmdSeq, lastSeq,
                 lastReply>>

(* Mutant: a new round keeps the replies to the one before.                *)
SendCmdKeepReplies(i, len, addr) ==
  /\ CanSend(i)
  /\ Broadcast(Record(i, "cmd", len, addr))
  /\ hasReplyQueue' = hasReplyQueue \cup {i}
  /\ activeHosts' = activeHosts \cup {i}
  /\ hostAddr' = [hostAddr EXCEPT ![i] = addr]
  /\ cmdSeq' = [cmdSeq EXCEPT ![i] = sent']
  /\ UNCHANGED <<connected, lastHost, replyHost, replyQueue, call, lastSeq, lastReply>>

(* A command opens a round: the host's reply queue is created on first use *)
(* (if that allocation fails nothing at all happens) and emptied, so that  *)
(* no reply of an earlier round is left in it.                             *)
SendCmd(i, len, addr) ==
  /\ CanSend(i)
  /\ Broadcast(Record(i, "cmd", len, addr))
  /\ hasReplyQueue' = hasReplyQueue \cup {i}
  /\ activeHosts' = activeHosts \cup {i}
  /\ hostAddr' = [hostAddr EXCEPT ![i] = addr]
  /\ ResetReplies(i)
  /\ cmdSeq' = [cmdSeq EXCEPT ![i] = sent']
  /\ UNCHANGED <<connected, lastHost, replyHost, call, lastSeq, lastReply>>

TheOnly(hosts) ==
  IF \E h \in hosts : hosts = {h} THEN CHOOSE h \in hosts : TRUE ELSE NoInst

(* FindReplyHost: a frame with a Wi-Fi header goes to the one active host  *)
(* with that address; an opaque one to the host of the last command this   *)
(* instance received or, before any command, to the only active host.      *)
FindReplyHost(i, addr) ==
  LET hosts == (activeHosts \cap connected) \ {i}
  IN  IF addr # NoAddr THEN TheOnly({h \in hosts : hostAddr[h] = addr})
      ELSE IF lastHost[i] = NoInst THEN TheOnly(hosts)
      ELSE TheOnly(hosts \cap {lastHost[i]})

(* A blank reply is opaque, has no payload and carries aid 0.              *)
SendReply(i, len, addr, ts) ==
  LET host == FindReplyHost(i, addr)
      rec  == [sender |-> i, aid |-> IF len = 0 THEN 0 ELSE AidOf[i],
               len |-> len, addr |-> addr, ts |-> ts, seq |-> sent + 1]
  IN  /\ CanSend(i)
      /\ len = 0 => addr = NoAddr
      /\ host # NoInst
      /\ replies' = [replies EXCEPT ![host] = Enqueue(@, rec)]
      /\ replySem' = [replySem EXCEPT
                        ![host] = IF Overflows(replies[host], rec) THEN 1 ELSE @ + 1]
      /\ replyHost' = [replyHost EXCEPT ![i] = host]
      /\ sent' = sent + 1
      /\ lastReply' = [lastReply EXCEPT ![i] = sent']
      /\ UNCHANGED <<connected, activeHosts, hasReplyQueue, hostAddr, lastHost,
                     packetQueue, call, cmdSeq, lastSeq>>

-----------------------------------------------------------------------------
(* Receiving frames: RecvPacketGeneric.                                    *)

receiving == <<connected, routing, replyQueue, sent, cmdSeq, lastReply>>

(* RecvPacket polls.                                                       *)
RecvPacket(i) ==
  /\ IsIdle(i)
  /\ Goto(i, "wait")
  /\ UNCHANGED <<receiving, packetQueue, lastHost, lastSeq>>

(* The host whose departure ends this client's session.  A foreign command *)
(* may replace lastHost but not the host replied to.                       *)
ClientHost(i) == IF replyHost[i] # NoInst THEN replyHost[i] ELSE lastHost[i]

HostLeft(i) == ClientHost(i) # NoInst /\ ClientHost(i) \notin connected

(* RecvHostPacket waits, unless the host has left: then it returns -1 from *)
(* its first critical section, and no step is taken.                       *)
RecvHostPacket(i) ==
  /\ IsIdle(i)
  /\ ~HostLeft(i)
  /\ Goto(i, "wait")
  /\ UNCHANGED <<receiving, packetQueue, lastHost, lastSeq>>

TakePermit(i) ==
  /\ call[i].pc = "wait"
  /\ sem[i] > 0
  /\ sem' = [sem EXCEPT ![i] = @ - 1]
  /\ Goto(i, "got")
  /\ UNCHANGED <<receiving, packets, lastHost, lastSeq>>

(* Mutant: an untimed wait.                                                *)
WaitForever(i) == FALSE /\ IsIdle(i) /\ UNCHANGED vars

(* Semaphore_TryWait fails: at once when polling, after RecvTimeout ms     *)
(* when waiting for the host.                                              *)
PermitTimeout(i) ==
  /\ call[i].pc = "wait"
  /\ sem[i] = 0
  /\ Return(i)
  /\ UNCHANGED <<receiving, packetQueue, lastHost, lastSeq>>

(* The permit was overtaken by a reset of this reader's queue.             *)
NothingToRead(i) ==
  /\ call[i].pc = "got"
  /\ i \notin connected \/ packets[i] = <<>>
  /\ ResetPackets(i)
  /\ Return(i)
  /\ UNCHANGED <<receiving, lastHost, lastSeq>>

(* Mutant: the record is read and the cursor stays.                        *)
PeekRecord(i) ==
  /\ call[i].pc = "got"
  /\ i \in connected
  /\ packets[i] # <<>>
  /\ UNCHANGED <<receiving, packets, sem>>

ReadRecord(i) ==
  /\ call[i].pc = "got"
  /\ i \in connected
  /\ packets[i] # <<>>
  /\ packets' = [packets EXCEPT ![i] = Tail(@)]
  /\ UNCHANGED <<receiving, sem>>

SkipOwnRecord(i) ==
  /\ ReadRecord(i)
  /\ Head(packets[i]).sender = i
  /\ Goto(i, "wait")
  /\ UNCHANGED <<lastHost, lastSeq>>

TakeRecord(i) ==
  LET rec == Head(packets[i])
  IN  /\ ReadRecord(i)
      /\ rec.sender # i
      /\ lastHost' = IF rec.kind = "cmd" /\ rec.len > 0
                     THEN [lastHost EXCEPT ![i] = rec.sender]
                     ELSE lastHost
      /\ lastSeq' = [lastSeq EXCEPT ![i] = rec.seq]
      /\ Return(i)

-----------------------------------------------------------------------------
(* Receiving the replies to a command: RecvReplies.                        *)

collecting == <<connected, routing, lastHost, packetQueue, sent, cmdSeq, lastSeq,
                lastReply>>

RecvReplies(i, ts, want) ==
  /\ IsIdle(i)
  /\ call' = [call EXCEPT ![i] = [Idle EXCEPT !.pc = "collect", !.ts = ts,
                                              !.want = want, !.seen = {i},
                                              !.asked = cmdSeq[i]]]
  /\ UNCHANGED <<collecting, replyQueue>>

InOtherGroup(i, client) ==
  IF replyHost[client] # NoInst THEN replyHost[client] # i
                                ELSE client \in activeHosts

Group(i) == {c \in connected : c = i \/ ~InOtherGroup(i, c)}

(* First critical section of the loop: with the session over or everybody  *)
(* heard, return; else remember the group and wait.                        *)
StopCollecting(i) ==
  /\ call[i].pc = "collect"
  /\ \/ i \notin activeHosts \cap connected
     \/ Group(i) \subseteq call[i].seen
  /\ Return(i)
  /\ UNCHANGED <<collecting, replyQueue>>

KeepCollecting(i) ==
  /\ call[i].pc = "collect"
  /\ i \in activeHosts \cap connected
  /\ ~(Group(i) \subseteq call[i].seen)
  /\ call' = [call EXCEPT ![i].pc = "waitReply", ![i].group = Group(i),
                                ![i].since = sent]
  /\ UNCHANGED <<collecting, replyQueue>>

TakeReplyPermit(i) ==
  /\ call[i].pc = "waitReply"
  /\ replySem[i] > 0
  /\ replySem' = [replySem EXCEPT ![i] = @ - 1]
  /\ Goto(i, "gotReply")
  /\ UNCHANGED <<collecting, replies>>

ReplyTimeout(i) ==
  /\ call[i].pc = "waitReply"
  /\ replySem[i] = 0
  /\ Return(i)
  /\ UNCHANGED <<collecting, replyQueue>>

NoReplyToRead(i) ==
  /\ call[i].pc = "gotReply"
  /\ i \notin activeHosts \/ replies[i] = <<>>
  /\ ResetReplies(i)
  /\ Return(i)
  /\ UNCHANGED collecting

ReadReply(i) ==
  /\ call[i].pc = "gotReply"
  /\ i \in activeHosts
  /\ replies[i] # <<>>
  /\ replies' = [replies EXCEPT ![i] = Tail(@)]
  /\ UNCHANGED <<collecting, replySem>>

(* Older than the command by more than StaleAge.                           *)
IsStale(rec, ts) == rec.ts < ts /\ ts - rec.ts > StaleAge

SkipReply(i) ==
  /\ ReadReply(i)
  /\ Head(replies[i]).sender = i \/ IsStale(Head(replies[i]), call[i].ts)
  /\ Goto(i, "collect")

(* myinstmask with the sender of the reply at hand.                        *)
Seen(i) == call[i].seen \cup {Head(replies[i]).sender}

(* Mutant: the operands of the comparison are swapped.                     *)
HeardOnlyGroup(i) == Seen(i) \subseteq call[i].group

(* All clients have sent their reply, as far as the snapshot knows.        *)
HeardGroup(i) == call[i].group \subseteq Seen(i)

(* A blank reply counts its sender as heard but answers for no aid.        *)
TakeReply(i) ==
  LET rec == Head(replies[i])
      got == call[i].got \cup (IF rec.len > 0 THEN {rec.aid} ELSE {})
  IN  /\ ReadReply(i)
      /\ rec.sender # i
      /\ ~IsStale(rec, call[i].ts)
      /\ IF HeardGroup(i) \/ call[i].want \subseteq got
         THEN Return(i)
         ELSE call' = [call EXCEPT ![i].pc = "collect", ![i].seen = Seen(i),
                                   ![i].got = got]

-----------------------------------------------------------------------------
(* One thread's step inside a receive call.                                *)
Continue(i) ==
  \/ TakePermit(i) \/ PermitTimeout(i)
  \/ NothingToRead(i) \/ SkipOwnRecord(i) \/ TakeRecord(i)
  \/ StopCollecting(i) \/ KeepCollecting(i)
  \/ TakeReplyPermit(i) \/ ReplyTimeout(i)
  \/ NoReplyToRead(i) \/ SkipReply(i) \/ TakeReply(i)

(* The calls of a thread; the roles of a multiplayer session may be held   *)
(* in turn.                                                                *)
HostCall(i) ==
  \/ \E len \in PayloadLen : SendAck(i, len)
  \/ \E len \in PayloadLen, addr \in {MacOf[i], NoAddr} : SendCmd(i, len, addr)
  \/ \E ts \in Time, want \in SUBSET {AidOf[c] : c \in cast["client"] \ {i}} :
        want # {} /\ RecvReplies(i, ts, want)

ClientCall(i) ==
  \E len \in PayloadLen \cup {0}, addr \in AnyAddr, ts \in Time :
    SendReply(i, len, addr, ts)

Start(i) ==
  \/ i \in cast["player"] \ connected /\ Begin(i)
  \/ i \in cast["leaver"] /\ (Begin(i) \/ End(i))
  \/ i \in cast["talker"] /\ \E len \in PayloadLen : SendPacket(i, len)
  \/ i \in cast["listener"] /\ (RecvPacket(i) \/ RecvHostPacket(i))
  \/ i \in cast["host"] /\ HostCall(i)
  \/ i \in cast["client"] /\ ClientCall(i)

Next ==
  /\ \E i \in Inst : Start(i) \/ Continue(i)
  /\ UNCHANGED cast

Spec == Init /\ [][Next]_vars

(* A thread inside a receive call keeps running: the lock is held only for *)
(* the critical sections above and every semaphore wait has a timeout.     *)
FairSpec ==
  Spec /\ \A i \in Inst : WF_vars(Continue(i) /\ UNCHANGED cast)

-----------------------------------------------------------------------------
(* Properties.                                                             *)

(* Every variable has its type.                                            *)
TypeOK ==
  /\ cast \in Casts
  /\ connected \in SUBSET Inst
  /\ activeHosts \in SUBSET Inst
  /\ hasReplyQueue \in SUBSET Inst
  /\ hostAddr \in [Inst -> AnyAddr]
  /\ lastHost \in [Inst -> AnyHost]
  /\ replyHost \in [Inst -> AnyHost]
  /\ packets \in [Inst -> Seq(Frame)]
  /\ replies \in [Inst -> Seq(Reply)]
  /\ sem \in [Inst -> Nat]
  /\ replySem \in [Inst -> Nat]
  /\ call \in [Inst -> Call]
  /\ sent \in 0..MaxSends
  /\ cmdSeq \in [Inst -> 0..MaxSends]
  /\ lastSeq \in [Inst -> 0..MaxSends]
  /\ lastReply \in [Inst -> 0..MaxSends]

Held(i) == IF call[i].pc = "got" THEN 1 ELSE 0
HeldReply(i) == IF call[i].pc = "gotReply" THEN 1 ELSE 0

(* Every unread record has a permit, in the semaphore or in the hands of   *)
(* the receiver, so that no record waits for the next send to be noticed;  *)
(* and resets leave at most one permit too many, so that a receiver is at  *)
(* most once told of a record that is not there.  ResetFIFO drains while   *)
(* a permit may be in flight.                                              *)
PermitsCoverBacklog ==
  \A i \in Inst :
    /\ sem[i] + Held(i) \in Len(packets[i])..(Len(packets[i]) + 1)
    /\ replySem[i] + HeldReply(i) \in Len(replies[i])..(Len(replies[i]) + 1)

(* FindReplyHost, SendReply and RecvReplies dereference MPReplyQueue of an *)
(* active host without a null check, and an instance that is powered off   *)
(* keeps nothing that could be delivered after it powers on again.         *)
HostOwnsReplyQueue ==
  /\ activeHosts \subseteq connected \cap hasReplyQueue
  /\ \A i \in Inst : i \notin activeHosts => replies[i] = <<>>
  /\ \A i \in Inst : i \notin connected => packets[i] = <<>>

(* A host reads only replies that were sent after its last command and, if *)
(* they carry an address, to the address that command announced: replies   *)
(* to an earlier round or to another group of players never reach it.      *)
RepliesAreForTheLastCommand ==
  \A h \in activeHosts :
    \A n \in 1..Len(replies[h]) :
      /\ replies[h][n].seq > cmdSeq[h]
      /\ replies[h][n].addr \in {hostAddr[h], NoAddr}

(* What h may say of its round when it has heard these consoles: each of   *)
(* them answered after the command the round is about, and whoever else    *)
(* plays with h now answered only after that many sends.                   *)
AnsweredBy(h, heard, since) ==
  /\ \A c \in heard \ {h} : lastReply[c] > call[h].asked
  /\ \A c \in connected \ heard : replyHost[c] = h => lastReply[c] > since

(* A round that ends because everybody has been heard, at either place of  *)
(* RecvReplies, has an answer to its own command from every client of the  *)
(* host, though commands, replies, resets and power changes came while it  *)
(* waited; at the second place the group is the one of before the wait,    *)
(* and a client it lacks came to this host after that.                     *)
EarlyReturnIsComplete ==
  [][\A h \in activeHosts \cap connected :
       /\ StopCollecting(h) => AnsweredBy(h, call[h].seen, sent)
       /\ TakeReply(h) /\ HeardGroup(h) => AnsweredBy(h, Seen(h), call[h].since)]_vars

(* A receiver is handed records in the order they were sent, each at most  *)
(* once, and none that was sent before it powered on, whatever overflowed  *)
(* or was reset in between.                                                *)
DeliveredInOrder == [][\A i \in Inst : lastSeq'[i] >= lastSeq[i] /\
                         (TakeRecord(i) => lastSeq'[i] > lastSeq[i])]_vars

(* Every receive call returns, even when its permits are drained by others *)
(* while it waits or its host or its clients have gone.                    *)
ReceiveReturns == \A i \in Inst : ~IsIdle(i) ~> IsIdle(i)

(* The record queue every receiver reads is the broadcast backlog of       *)
(* MPBacklog: no step of this protocol loses, reorders or duplicates more  *)
(* than that specification allows.                                         *)
Backlog == INSTANCE MPBacklog WITH online <- connected, backlog <- packets

ImplementsBacklog == Backlog!Spec
=============================================================================

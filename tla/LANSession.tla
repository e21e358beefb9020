----------------------------- MODULE LANSession -----------------------------
(* A LAN session (net/LAN.cpp): a lobby that hands out player numbers, the   *)
(* clients that join it, and the mesh of links the clients build among       *)
(* themselves from the lists the lobby sends.  Each event ENet reports, each *)
(* call of the frontend and each call of the guest is one step of one        *)
(* player; SessionMutex makes every one of them atomic.                      *)
(*                                                                           *)
(* A client is a session: a player who leaves and returns is another member  *)
(* of Clients, on the same machine, with another UDP port, so a member of    *)
(* Clients also stands for its port.  All of them know the port extension    *)
(* of the protocol and speak the same version.                               *)
EXTENDS Integers, Sequences, FiniteSets

CONSTANTS
    Clients,    \* the sessions of clients, each started once
    Lobby,      \* the session of the player who hosts the lobby
    Machine,    \* the address of each client
    NoLink, NoPort,
    Guests,     \* bound: the players whose guest uses wireless communication
    MaxPlayers, \* seats of the lobby, its own included
    MaxLinks,   \* bound: attempts to connect two clients that coexist in ENet
    MaxFaults,  \* bound: players leaving, links dropped, joins given up
    MaxTurns,   \* bound: calls of Begin and End
    MaxFrames   \* bound: multiplayer frames sent

ASSUME LANAssumption ==
    /\ MaxPlayers \in Nat \ {0, 1}
    /\ MaxLinks \in Nat \ {0}
    /\ MaxFaults \in Nat /\ MaxTurns \in Nat /\ MaxFrames \in Nat
    /\ Lobby \notin Clients
    /\ Guests \subseteq Clients \cup {Lobby}
    /\ NoPort \notin Clients \cup {Lobby}

Nodes == Clients \cup {Lobby}
Ids == 0..(MaxPlayers - 1)
Slots == Ids \ {0}
NoId == -1
Empty == [status |-> "none", machine |-> "none"]

\* A link is named by who dialled whom, and by an attempt; either end of it
\* is an ENetPeer of its player.
LobbyLink(c) == <<c, Lobby, 1>>
Links == {LobbyLink(c) : c \in Clients}
           \cup {l \in Clients \X Clients \X (1..MaxLinks) : l[1] # l[2]}
Other(x, l) == IF l[1] = x THEN l[2] ELSE l[1]

VARIABLES
  node,       \* the LAN object of each player
  net,        \* the ends of links in ENet, by player and link
  numPlayers, \* NumPlayers of the lobby
  faults,     \* what MaxFaults bounds
  turns,      \* what MaxTurns bounds
  frames      \* what MaxFrames bounds

vars == <<node, net, numPlayers, faults, turns, frames>>

ASSUME LinkAssumption == NoLink \notin Links

Idle == [phase |-> "idle", id |-> NoId, listed |-> FALSE, endpoints |-> FALSE,
         players |-> [i \in Slots |-> Empty], ports |-> [i \in Slots |-> NoPort],
         remote |-> [i \in Ids |-> NoLink], dialled |-> {}, ready |-> {},
         lastId |-> NoId, lastPeer |-> NoLink, rx |-> {}]
Over == [Idle EXCEPT !.phase = "over"]

(* Active: nothing is processed without it.                                 *)
Running(x) == node[x].phase \in {"connecting", "connected"}

-----------------------------------------------------------------------------
(* ENet: reliable commands in order on each link, events at each end.        *)

Opening == [state |-> "opening", inbox |-> <<>>, air |-> {}]

Has(ends, x, l) == <<x, l>> \in DOMAIN ends
IsOpen(ends, x, l) == Has(ends, x, l) /\ ends[<<x, l>>].state = "open"

Restricted(f, S) == [e \in S |-> f[e]]
Closed(ends, x, ls) ==
    Restricted(ends, {e \in DOMAIN ends : ~(e[1] = x /\ e[2] \in ls)})
WithEnds(ends, new) ==
    [e \in DOMAIN ends \cup new |-> IF e \in new THEN Opening ELSE ends[e]]

\* enet_peer_send, enet_host_broadcast: only over links that are connected.
Sent(ends, x, ls, cmds) ==
    [e \in DOMAIN ends |->
        IF e[1] # x /\ e[2] \in ls /\ IsOpen(ends, x, e[2])
        THEN [ends[e] EXCEPT !.inbox = @ \o cmds]
        ELSE ends[e]]
Broadcast(ends, x, cmds) == Sent(ends, x, Links, cmds)
Aired(ends, x, ls, frame) ==
    [e \in DOMAIN ends |->
        IF e[1] # x /\ e[2] \in ls /\ IsOpen(ends, x, e[2])
        THEN [ends[e] EXCEPT !.air = @ \cup {frame}]
        ELSE ends[e]]

\* The other side is gone: ENet will report this end disconnected.
Orphaned(x, l) ==
    LET y == Other(x, l) IN
    /\ ~(Has(net, y, l) /\ net[<<y, l>>].state # "closing")
    /\ net[<<x, l>>].state = "opening" => ~Running(y) \/ x = l[2]

-----------------------------------------------------------------------------
(* The helpers of LAN.cpp.  s is one player's state, ends is ENet's.         *)

\* Bug: the host to reply to is not forgotten with its peer.
ClearPeersKeepingHost(s, is) ==
    LET gone == {s.remote[i] : i \in is} IN
    [s EXCEPT !.remote = [i \in Ids |-> IF i \in is THEN NoLink ELSE @[i]],
              !.ready = @ \ is,
              !.rx = {f \in @ : f.link \notin gone}]

\* ClearPeer for every number in is
ClearPeers(s, is) ==
    LET gone == {s.remote[i] : i \in is} IN
    [s EXCEPT !.remote = [i \in Ids |-> IF i \in is THEN NoLink ELSE @[i]],
              !.ready = @ \ is,
              !.lastPeer = IF s.lastId \in is THEN NoLink ELSE @,
              !.rx = {f \in @ : f.link \notin gone}]

\* Bug: whoever links up late is not told.
SendNoReady(ends, s, x, l) == ends

SendLocalReady(ends, s, x, l) ==
    IF s.id \in s.ready THEN Sent(ends, x, {l}, <<[type |-> "ready"]>>) ELSE ends

HostUpdatePlayerList(ends, s, count) ==
    Broadcast(ends, Lobby, <<[type |-> "list", players |-> s.players, count |-> count],
                             [type |-> "ports", ports |-> s.ports]>>)

Numbers(ends, x, y) ==
    {k \in 1..MaxLinks : ~Has(ends, x, <<x, y, k>>) /\ ~Has(ends, y, <<x, y, k>>)}
NewLink(ends, x, y) ==
    <<x, y, CHOOSE k \in Numbers(ends, x, y) : TRUE>>

\* Dial the players with lower numbers; again are those whose last attempt is
\* 250 ms old.
ConnectPeers(s, ends, x, again) ==
    IF x = Lobby \/ s.id = NoId \/ ~s.listed \/ ~s.endpoints
    THEN [s |-> s, ends |-> ends]
    ELSE
    LET others == {i \in Slots \ {s.id} : s.players[i].status = "client"}
        due == {i \in others : /\ i < s.id
                               /\ s.remote[i] = NoLink
                               /\ i \in s.dialled => i \in again}
        made == {i \in due : Numbers(ends, x, s.ports[i]) # {}}
        link == [i \in made |-> NewLink(ends, x, s.ports[i])]
        remote == [i \in Ids |-> IF i \in made THEN link[i] ELSE s.remote[i]]
        meets == \A i \in others : IsOpen(ends, x, remote[i])
    IN [s |-> [s EXCEPT !.remote = remote,
                        !.dialled = @ \cup due,
                        !.phase = IF meets THEN "connected" ELSE @],
        ends |-> WithEnds(ends, {<<x, link[i]>> : i \in made})]

\* Bug: an incoming link is taken for a player by its machine only.
KnownByMachine(s, l, from) ==
    {i \in Slots \ {s.id} :
        /\ s.players[i].status = "client"
        /\ \/ s.remote[i] = l
           \/ s.remote[i] = NoLink /\ i > s.id /\ s.players[i].machine = Machine[from]}

\* The players' numbers an incoming link may belong to
KnownAs(s, l, from) ==
    {i \in Slots \ {s.id} :
        /\ s.players[i].status = "client"
        /\ \/ s.remote[i] = l
           \/ /\ s.remote[i] = NoLink
              /\ i > s.id
              /\ s.players[i].machine = Machine[from]
              /\ s.ports[i] = from}

OwnerOf(s, l) == {i \in Ids : s.remote[i] = l}
Least(S) == CHOOSE i \in S : \A j \in S : i <= j

\* One step of player x leaves s and ends.
Become(x, s, ends) ==
    /\ node' = [node EXCEPT ![x] = s]
    /\ net' = ends

BecomeConnecting(x, s, ends) ==
    \E again \in SUBSET s.dialled :
        LET done == ConnectPeers(s, ends, x, again) IN Become(x, done.s, done.ends)

EndSession(x) == Become(x, Over, Closed(net, x, Links))

NoBound == UNCHANGED <<faults, turns, frames>>

-----------------------------------------------------------------------------
(* Connections                                                               *)

\* StartClient
StartClient(c) ==
    /\ node[c].phase = "idle"
    /\ Become(c, [Idle EXCEPT !.phase = "connecting", !.remote[0] = LobbyLink(c)],
              WithEnds(net, {<<c, LobbyLink(c)>>}))
    /\ UNCHANGED numPlayers /\ NoBound

\* CONNECT at the client that dialled: the handshake is done there first.
Dialled(c, l) ==
    /\ Has(net, c, l) /\ l[1] = c
    /\ net[<<c, l>>].state = "opening"
    /\ Running(l[2])
    /\ LET s == node[c]
           up == [WithEnds(net, {<<l[2], l>>}) EXCEPT ![<<c, l>>].state = "open"]
           known == KnownAs(s, l, l[2])
       IN IF s.remote[0] = l
          THEN Become(c, s, up)
          ELSE IF known = {}
          THEN Become(c, s, Closed(up, c, {l}))
          ELSE BecomeConnecting(c, [s EXCEPT !.remote[Least(known)] = l],
                                SendLocalReady(up, s, c, l))
    /\ UNCHANGED numPlayers /\ NoBound

\* CONNECT at a client that was dialled: it must know the player.
Accept(c, l) ==
    /\ Has(net, c, l) /\ l[2] = c
    /\ net[<<c, l>>].state = "opening"
    /\ LET s == node[c]
           up == [net EXCEPT ![<<c, l>>].state = "open"]
           known == KnownAs(s, l, l[1])
       IN IF known = {}
          THEN Become(c, s, Closed(net, c, {l}))
          ELSE BecomeConnecting(c, [s EXCEPT !.remote[Least(known)] = l],
                                SendLocalReady(up, s, c, l))
    /\ UNCHANGED numPlayers /\ NoBound

\* CONNECT at the lobby: the lowest free number, or the door.
Seat(l) ==
    /\ Has(net, Lobby, l)
    /\ net[<<Lobby, l>>].state = "opening"
    /\ LET s == node[Lobby]
           free == {i \in Slots : s.players[i].status = "none"}
           id == Least(free)
           seated == [s EXCEPT !.players[id] = [status |-> "connecting",
                                                machine |-> Machine[l[1]]],
                               !.ports[id] = l[1],
                               !.remote[id] = l]
           up == [net EXCEPT ![<<Lobby, l>>].state = "open"]
           told == Sent(up, Lobby, {l}, <<[type |-> "init", id |-> id]>>)
       IN IF numPlayers >= MaxPlayers \/ free = {}
          THEN /\ Become(Lobby, s, [net EXCEPT ![<<Lobby, l>>].state = "closing"])
               /\ UNCHANGED numPlayers
          ELSE /\ Become(Lobby, seated, SendLocalReady(told, seated, Lobby, l))
               /\ numPlayers' = numPlayers + 1
    /\ NoBound

\* Bug: the lobby counts down for every peer that goes, the one it turned away too.
DisconnectCounting(x, l) ==
    /\ Has(net, x, l)
    /\ Orphaned(x, l) \/ net[<<x, l>>].state = "closing"
    /\ UNCHANGED node
    /\ net' = Closed(net, x, {l})
    /\ numPlayers' = IF x = Lobby THEN numPlayers - 1 ELSE numPlayers
    /\ NoBound

\* DISCONNECT; ENet reports it when the other end is gone, or when the link
\* fails, which the bound counts.
Disconnect(x, l) ==
    /\ Has(net, x, l)
    /\ IF Orphaned(x, l) \/ net[<<x, l>>].state = "closing"
       THEN UNCHANGED faults
       ELSE faults < MaxFaults /\ faults' = faults + 1
    /\ LET s == node[x]
           owner == OwnerOf(s, l)
           rest == Closed(net, x, {l})
           left == [ClearPeers(s, owner) EXCEPT
                       !.players = [i \in Slots |-> IF i \in owner THEN Empty ELSE @[i]],
                       !.ports = [i \in Slots |-> IF i \in owner THEN NoPort ELSE @[i]]]
       IN IF owner = {} THEN Become(x, s, rest) /\ UNCHANGED numPlayers
          ELSE IF x = Lobby
          THEN /\ numPlayers' = numPlayers - 1
               /\ Become(x, left, HostUpdatePlayerList(rest, left, numPlayers - 1))
          ELSE /\ IF l = s.remote[0] THEN EndSession(x)
                  ELSE Become(x, ClearPeers(s, owner), rest)
               /\ UNCHANGED numPlayers
    /\ UNCHANGED <<turns, frames>>

-----------------------------------------------------------------------------
(* Commands                                                                  *)

\* The first command on l at x is of this type; what handling it leaves of ENet.
Arrives(x, l, type) ==
    /\ IsOpen(net, x, l)
    /\ net[<<x, l>>].inbox # <<>>
    /\ Head(net[<<x, l>>].inbox).type = type
Command(x, l) == Head(net[<<x, l>>].inbox)
Consumed(x, l) == [net EXCEPT ![<<x, l>>].inbox = Tail(@)]

\* Cmd_ClientInit
ClientInit(c, l) ==
    /\ Arrives(c, l, "init")
    /\ LET s == node[c]
           id == Command(c, l).id
       IN IF s.phase = "connecting" /\ s.id = NoId /\ l = s.remote[0]
          THEN Become(c, [s EXCEPT !.id = id],
                         Sent(Consumed(c, l), c, {l}, <<[type |-> "info", id |-> id]>>))
          ELSE Become(c, s, Consumed(c, l))
    /\ UNCHANGED numPlayers /\ NoBound

\* Cmd_PlayerInfo
PlayerInfo(l) ==
    /\ Arrives(Lobby, l, "info")
    /\ LET id == Command(Lobby, l).id
           s == [node[Lobby] EXCEPT !.players[id] = [status |-> "client",
                                                     machine |-> Machine[l[1]]],
                                    !.ports[id] = l[1]]
       IN IF id \in OwnerOf(node[Lobby], l)
          THEN Become(Lobby, s, HostUpdatePlayerList(Consumed(Lobby, l), s, numPlayers))
          ELSE Become(Lobby, node[Lobby],
                      [Consumed(Lobby, l) EXCEPT ![<<Lobby, l>>].state = "closing"])
    /\ UNCHANGED numPlayers /\ NoBound

\* Cmd_PlayerList: players who are gone, or are on another machine, are let go.
ReadPlayerList(c, l) ==
    /\ Arrives(c, l, "list")
    /\ LET s == node[c]
           m == Command(c, l)
           changed == {i \in Slots : ~(/\ m.players[i].status = "client"
                                       /\ m.players[i].machine = s.players[i].machine)}
           next == [ClearPeers(s, changed) EXCEPT
                       !.players = m.players,
                       !.ports = [i \in Slots |-> IF i \in changed THEN NoPort ELSE @[i]],
                       !.dialled = @ \ changed,
                       !.listed = TRUE,
                       !.endpoints = FALSE]
           occupied == {i \in Slots : m.players[i].status # "none"}
       IN IF /\ l = s.remote[0] /\ s.id # NoId
             /\ m.count = Cardinality(occupied) + 1
             /\ m.players[s.id].status = "client"
          THEN BecomeConnecting(c, next, Closed(Consumed(c, l), c, {s.remote[i] : i \in changed}))
          ELSE Become(c, s, Consumed(c, l))
    /\ UNCHANGED numPlayers /\ NoBound

\* Cmd_PeerPorts: players whose port is another are let go too.
ReadPeerPorts(c, l) ==
    /\ Arrives(c, l, "ports")
    /\ LET s == node[c]
           m == Command(c, l)
           changed == {i \in Slots : s.remote[i] # NoLink /\ s.ports[i] # m.ports[i]}
           next == [ClearPeers(s, changed) EXCEPT
                       !.ports = m.ports,
                       !.dialled = @ \ changed,
                       !.endpoints = TRUE]
       IN IF /\ l = s.remote[0] /\ s.id # NoId /\ s.listed
             /\ m.ports[s.id] # NoPort
             /\ \A i \in Slots : s.players[i].status # "none" => m.ports[i] # NoPort
          THEN BecomeConnecting(c, next, Closed(Consumed(c, l), c, {s.remote[i] : i \in changed}))
          ELSE Become(c, s, Consumed(c, l))
    /\ UNCHANGED numPlayers /\ NoBound

\* Cmd_PlayerConnect, Cmd_PlayerDisconnect
PeerReady(x, l) ==
    /\ Arrives(x, l, "ready")
    /\ Become(x, [node[x] EXCEPT !.ready = @ \cup OwnerOf(node[x], l)], Consumed(x, l))
    /\ UNCHANGED numPlayers /\ NoBound

PeerNotReady(x, l) ==
    /\ Arrives(x, l, "not ready")
    /\ Become(x, [node[x] EXCEPT !.ready = @ \ OwnerOf(node[x], l)], Consumed(x, l))
    /\ UNCHANGED numPlayers /\ NoBound

-----------------------------------------------------------------------------
(* The frontend and the guest                                                *)

\* Bug: a lost link is dialled again only when something else happens.
ProcessIdle(c) == FALSE /\ UNCHANGED vars

\* Process, once a frame: dial again who was lost, once 250 ms have passed.
Process(c) ==
    /\ c \in Clients /\ Running(c)
    /\ LET done == ConnectPeers(node[c], net, c, Slots) IN
       /\ done.s # node[c]
       /\ Become(c, done.s, done.ends)
    /\ UNCHANGED numPlayers /\ NoBound

\* The user leaves; or, while Connecting, five seconds pass.
Leave(x) ==
    /\ Running(x)
    /\ faults < MaxFaults /\ faults' = faults + 1
    /\ EndSession(x)
    /\ numPlayers' = IF x = Lobby THEN 0 ELSE numPlayers
    /\ UNCHANGED <<turns, frames>>

Turn(x) ==
    /\ x \in Guests /\ node[x].phase = "connected"
    /\ turns < MaxTurns /\ turns' = turns + 1
    /\ UNCHANGED <<numPlayers, faults, frames>>

\* Begin, End: the guest switches wireless communication on or off.
Begin(x) ==
    /\ Turn(x)
    /\ Become(x, [node[x] EXCEPT !.ready = @ \cup {node[x].id}, !.lastId = NoId, !.lastPeer = NoLink],
               Broadcast(net, x, <<[type |-> "ready"]>>))

End(x) ==
    /\ Turn(x)
    /\ Become(x, [node[x] EXCEPT !.ready = @ \ {node[x].id}],
               Broadcast(net, x, <<[type |-> "not ready"]>>))

\* SendCmd, SendReply; a reply goes to the last host, if there is one.
Send(x, type) ==
    /\ x \in Guests /\ node[x].phase = "connected"
    /\ frames < MaxFrames /\ frames' = frames + 1
    /\ LET s == node[x]
           to == IF type = "reply" /\ s.lastPeer # NoLink THEN {s.lastPeer} ELSE Links
       IN Become(x, s, Aired(net, x, to, [type |-> type, id |-> s.id]))
    /\ UNCHANGED <<numPlayers, faults, turns>>

\* A frame arrives on channel 1, perhaps before earlier ones and before the
\* commands of channel 0; ValidateMPPacket knows its sender.
FrameArrives(x, l) ==
    /\ IsOpen(net, x, l)
    /\ \E f \in net[<<x, l>>].air :
        LET s == node[x]
            rest == [net EXCEPT ![<<x, l>>].air = @ \ {f}]
        IN IF f.id # s.id /\ s.remote[f.id] = l
           THEN Become(x, [s EXCEPT !.rx = @ \cup {[id |-> f.id, type |-> f.type, link |-> l]}], rest)
           ELSE Become(x, s, rest)
    /\ UNCHANGED numPlayers /\ NoBound

\* RecvPacketGeneric; the sender of a command is the host to reply to.  Frames
\* are sent unsequenced, so no order of them is kept.
Receive(x) ==
    /\ node[x].phase = "connected"
    /\ \E f \in node[x].rx :
        LET s == [node[x] EXCEPT !.rx = @ \ {f}] IN
        Become(x, IF f.type = "command"
                  THEN [s EXCEPT !.lastId = f.id, !.lastPeer = f.link] ELSE s, net)
    /\ UNCHANGED numPlayers /\ NoBound

\* A frame older than 16 ms is dropped; RecvReplies and a look for other frames
\* drop what they do not want.
Discard(x) ==
    /\ \E f \in node[x].rx : Become(x, [node[x] EXCEPT !.rx = @ \ {f}], net)
    /\ UNCHANGED numPlayers /\ NoBound

-----------------------------------------------------------------------------
(* Steps                                                                     *)

Init ==
    /\ node = [x \in Nodes |-> IF x = Lobby THEN [Idle EXCEPT !.phase = "connected", !.id = 0]
                               ELSE Idle]
    /\ net = [e \in {} |-> Opening]
    /\ numPlayers = 1
    /\ faults = 0 /\ turns = 0 /\ frames = 0

\* What ENet hands to x of link l
Event(x, l) ==
    /\ Has(net, x, l)
    /\ \/ x \in Clients /\ (\/ Dialled(x, l) \/ Accept(x, l) \/ ClientInit(x, l)
                            \/ ReadPlayerList(x, l) \/ ReadPeerPorts(x, l))
       \/ x = Lobby /\ (Seat(l) \/ PlayerInfo(l))
       \/ PeerReady(x, l) \/ PeerNotReady(x, l)
       \/ Disconnect(x, l)

Next ==
    \/ \E x \in Nodes, l \in Links : Event(x, l) \/ FrameArrives(x, l)
    \/ \E c \in Clients : StartClient(c) \/ Process(c)
    \/ \E x \in Nodes : Leave(x) \/ Begin(x) \/ End(x) \/ Receive(x) \/ Discard(x)
    \/ \E x \in Nodes, type \in {"command", "reply"} : Send(x, type)

Spec == Init /\ [][Next]_vars

\* Every frame Process services ENet and dials again; what ENet has to report
\* it reports, but nobody has to join, leave, play or lose a link.
Fairness ==
    /\ \A l \in Links :
        /\ WF_vars(Event(l[1], l) /\ UNCHANGED faults)
        /\ WF_vars(Event(l[2], l) /\ UNCHANGED faults)
    /\ \A c \in Clients : WF_vars(Process(c))
FairSpec == Spec /\ Fairness

-----------------------------------------------------------------------------
(* Properties                                                                *)

Player == [status : {"none", "connecting", "client"},
           machine : {Machine[c] : c \in Clients} \cup {"none"}]
Ports == [Slots -> Clients \cup {NoPort}]
Message == [type : {"init", "info"}, id : Slots]
             \cup [type : {"list"}, players : [Slots -> Player], count : 0..MaxPlayers]
             \cup [type : {"ports"}, ports : Ports]
             \cup [type : {"ready", "not ready"}]
Frame == [type : {"command", "reply"}, id : Ids]
LinkEnd == [state : {"opening", "open", "closing"}, inbox : Seq(Message), air : SUBSET Frame]
State == [phase : {"idle", "connecting", "connected", "over"}, id : Ids \cup {NoId},
          listed : BOOLEAN, endpoints : BOOLEAN, players : [Slots -> Player],
          ports : Ports, remote : [Ids -> Links \cup {NoLink}], dialled : SUBSET Slots,
          ready : SUBSET Ids, lastId : Ids \cup {NoId}, lastPeer : Links \cup {NoLink},
          rx : SUBSET [type : {"command", "reply"}, id : Ids, link : Links]]

\* Every player, every end of a link and every command under way is of its
\* kind; an end belongs to one of the two players of its link.
TypeOK ==
    /\ node \in [Nodes -> State]
    /\ \A e \in DOMAIN net : /\ e \in Nodes \X Links
                             /\ e[1] \in {e[2][1], e[2][2]}
                             /\ net[e] \in LinkEnd
    /\ numPlayers \in 0..MaxPlayers
    /\ faults \in 0..MaxFaults /\ turns \in 0..MaxTurns /\ frames \in 0..MaxFrames

\* Replies go, and frames belong, to a peer who still has the number they came
\* under (ClearPeer): whoever gets the number next inherits nothing.
NothingIsInherited ==
    \A x \in Nodes :
        LET s == node[x] IN
        /\ s.lastPeer # NoLink => s.lastId \in Ids /\ s.remote[s.lastId] = s.lastPeer
        /\ \A f \in s.rx : s.remote[f.id] = f.link

\* A player's link i leads to the player its list names under i, who is told
\* the same number by the lobby, once it is told one: nobody is taken for
\* someone else because a seat, an address or a port was used before
\* (ProcessHostEvent, ProcessClientEvent, ReadPlayerList, ReadPeerPorts).
NumbersAreTruthful ==
    \A x \in Nodes : \A i \in Slots :
        LET s == node[x]
            y == Other(x, s.remote[i])
        IN s.remote[i] # NoLink =>
            /\ s.players[i].status # "none"
            /\ s.ports[i] = y
            /\ Running(y) /\ node[y].id # NoId => node[y].id = i

\* What the peer at the other end of l will have said of its readiness, once
\* the commands under way have arrived.
ReadyAfter(x, i, l) ==
    LET said == {n \in DOMAIN net[<<x, l>>].inbox :
                    net[<<x, l>>].inbox[n].type \in {"ready", "not ready"}}
    IN IF said = {} THEN i \in node[x].ready
       ELSE LET last == CHOOSE n \in said : \A m \in said : m <= n
            IN net[<<x, l>>].inbox[last].type = "ready"

\* Over a link that is open at both ends nobody misses a Begin or an End: not
\* one called before the link was made, not one called while it was
\* (SendLocalReady, ClearPeer).
ReadinessArrives ==
    \A x \in Nodes : \A i \in Ids :
        LET l == node[x].remote[i]
            y == Other(x, l)
        IN /\ l # NoLink
           /\ IsOpen(net, x, l)
           /\ IsOpen(net, y, l)
           /\ OwnerOf(node[y], l) # {}
           => ReadyAfter(x, i, l) = (node[y].id \in node[y].ready)

\* The lobby counts the seats it gave, whoever is turned away or leaves, and
\* every list it sends agrees with its count: a list that does not is refused.
SeatsAreCounted ==
    Running(Lobby) =>
        numPlayers = 1 + Cardinality({i \in Slots : node[Lobby].players[i].status # "none"})

\* However joining players, lists, ports and a lost link interleave, in the end
\* nobody is still joining, without the five seconds of Process having to pass,
\* and any two connected clients share one link, each knowing the other by its
\* number.
Linked(x, y) ==
    \E l \in Links :
        /\ IsOpen(net, x, l) /\ IsOpen(net, y, l)
        /\ node[x].remote[node[y].id] = l
        /\ node[y].remote[node[x].id] = l
EveryoneMeets ==
    \A x, y \in Clients :
        <>[](/\ node[x].phase # "connecting"
             /\ x # y /\ node[x].phase = "connected" /\ node[y].phase = "connected"
                  => Linked(x, y))

=============================================================================

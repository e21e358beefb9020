-------------------------- MODULE LANSessionProofs --------------------------
(* Proofs about LANSession for any number of players, seats, links, frames   *)
(* and losses: commands, numbers and links stay truthful because every       *)
(* client is given one number, once, on its own link to the lobby; and what  *)
(* a player hears of a peer is what the peer is, because a link is open only *)
(* to who has a number for it and nothing is said over it before.            *)
EXTENDS LANSession, FiniteSetTheorems, WellFoundedInduction, TLAPS

-----------------------------------------------------------------------------
(* The inductive invariant                                                   *)

\* What one player's own state has to satisfy.
Consistent(x, s) ==
    /\ s.lastPeer # NoLink => s.lastId \in Ids /\ s.remote[s.lastId] = s.lastPeer
    /\ \A f \in s.rx : s.remote[f.id] = f.link
    /\ \A i \in Slots : s.remote[i] # NoLink => /\ s.players[i].status # "none"
                                                /\ s.ports[i] = Other(x, s.remote[i])
    /\ s.endpoints => \A i \in Slots : s.players[i].status # "none" => s.ports[i] # NoPort
    /\ s.phase = "connected" => s.id # NoId
    /\ IF x = Lobby THEN s.remote[0] = NoLink
       ELSE /\ s.id # 0
            /\ s.phase \in {"connecting", "connected"} => s.remote[0] = LobbyLink(x)

\* Message m at end e says that number i is y's.
Gives(e, m, y, i) ==
    \/ m.type = "ports" /\ m.ports[i] = y
    \/ m.type = "init" /\ e[1] = y /\ m.id = i

\* Something holds that number i is y's.
Claimed(nodes, ends, y, i) ==
    \/ \E x \in Nodes : nodes[x].ports[i] = y
    \/ nodes[y].id = i
    \/ \E e \in DOMAIN ends : \E n \in DOMAIN ends[e].inbox : Gives(e, ends[e].inbox[n], y, i)

IsOpening(ends, x, l) == Has(ends, x, l) /\ ends[<<x, l>>].state = "opening"

\* The lobby has yet to give y a number.
Unseated(nodes, ends, y) ==
    \/ nodes[y].phase = "idle"
    \/ IsOpening(ends, y, LobbyLink(y))
    \/ IsOpening(ends, Lobby, LobbyLink(y))

OneNumber ==
    \A y \in Clients : \A i, j \in Slots :
        Claimed(node, net, y, i) /\ Claimed(node, net, y, j) => i = j
NoneBefore ==
    \A y \in Clients : Unseated(node, net, y) => \A i \in Slots : ~Claimed(node, net, y, i)
DialledOnce ==
    \A y \in Clients : Has(net, Lobby, LobbyLink(y)) =>
        node[y].phase # "idle" /\ ~IsOpening(net, y, LobbyLink(y))
EndsOfRunning == \A e \in DOMAIN net : Running(e[1])

\* What TypeOK says of net, for any value of it
EndsOK(ends) ==
    \A e \in DOMAIN ends : /\ e \in Nodes \X Links
                           /\ e[1] \in {e[2][1], e[2][2]}
                           /\ ends[e] \in LinkEnd

MeshInv ==
    /\ node \in [Nodes -> State]
    /\ EndsOK(net)
    /\ \A x \in Nodes : Consistent(x, node[x])
    /\ OneNumber
    /\ NoneBefore
    /\ DialledOnce
    /\ EndsOfRunning

SessionInv == MeshInv /\ TypeOK /\ SeatsAreCounted

-----------------------------------------------------------------------------
(* Links and ends                                                            *)

\* One step of a player whose list of ports becomes ports does no more to
\* ENet than this: no new end of a link to the lobby, and no new claim.
Carries(ends, e, m) ==
    e \in DOMAIN ends /\ \E n \in DOMAIN ends[e].inbox : ends[e].inbox[n] = m
Harmless(m, ports) ==
    m.type \notin {"ports", "init"} \/ (m.type = "ports" /\ m.ports = ports)
Mild(ends, new, ports) ==
    /\ EndsOK(new)
    /\ \A e \in DOMAIN new :
        /\ e \in DOMAIN ends \/ (Running(e[1]) /\ e[2][2] # Lobby)
        /\ e[2][2] = Lobby /\ new[e].state = "opening" =>
              e \in DOMAIN ends /\ ends[e].state = "opening"
        /\ \A n \in DOMAIN new[e].inbox :
              Carries(ends, e, new[e].inbox[n]) \/ Harmless(new[e].inbox[n], ports)

LEMMA LinkFacts ==
  ASSUME NEW l \in Links
  PROVE  /\ l[1] \in Clients /\ l[2] \in Nodes /\ l[1] # l[2]
         /\ l[2] = Lobby => l = LobbyLink(l[1])
         /\ \A x \in Nodes : Other(x, l) \in Nodes
         /\ Other(l[1], l) = l[2] /\ Other(l[2], l) = l[1]
         /\ l # NoLink
<1> USE LANAssumption, LinkAssumption
<1>1. CASE l \in {LobbyLink(c) : c \in Clients}
  BY <1>1 DEF Links, LobbyLink, Other, Nodes
<1>2. CASE l \in Clients \X Clients \X (1..MaxLinks) /\ l[1] # l[2]
  BY <1>2 DEF Links, Other, Nodes
<1> QED  BY <1>1, <1>2 DEF Links

LEMMA LobbyLinkFacts ==
  ASSUME NEW c \in Clients
  PROVE  /\ LobbyLink(c) \in Links
         /\ LobbyLink(c)[1] = c /\ LobbyLink(c)[2] = Lobby
         /\ c # Lobby /\ c \in Nodes /\ Lobby \in Nodes
         /\ Other(Lobby, LobbyLink(c)) = c
BY LANAssumption DEF Links, LobbyLink, Nodes, Other

LEMMA MildItself ==
  ASSUME NEW ends, NEW ports, EndsOK(ends)
  PROVE  Mild(ends, ends, ports)
BY DEF Mild, Carries

LEMMA MildTrans ==
  ASSUME NEW a, NEW b, NEW c, NEW ports, Mild(a, b, ports), Mild(b, c, ports)
  PROVE  Mild(a, c, ports)
<1> SUFFICES ASSUME NEW e \in DOMAIN c
             PROVE  /\ e \in DOMAIN a \/ (Running(e[1]) /\ e[2][2] # Lobby)
                    /\ e[2][2] = Lobby /\ c[e].state = "opening" =>
                          e \in DOMAIN a /\ a[e].state = "opening"
                    /\ \A n \in DOMAIN c[e].inbox :
                          Carries(a, e, c[e].inbox[n]) \/ Harmless(c[e].inbox[n], ports)
  BY DEF Mild
<1>1. /\ e \in DOMAIN a \/ (Running(e[1]) /\ e[2][2] # Lobby)
      /\ e[2][2] = Lobby /\ c[e].state = "opening" =>
            e \in DOMAIN a /\ a[e].state = "opening"
  BY DEF Mild
<1>2. ASSUME NEW n \in DOMAIN c[e].inbox
      PROVE  Carries(a, e, c[e].inbox[n]) \/ Harmless(c[e].inbox[n], ports)
  <2>1. CASE Carries(b, e, c[e].inbox[n])
    BY <2>1 DEF Mild, Carries
  <2> QED  BY <2>1 DEF Mild
<1> QED  BY <1>1, <1>2

LEMMA MildClosed ==
  ASSUME NEW ends, EndsOK(ends), NEW x, NEW ls, NEW ports
  PROVE  /\ Mild(ends, Closed(ends, x, ls), ports)
         /\ \A e \in DOMAIN Closed(ends, x, ls) : ~(e[1] = x /\ e[2] \in ls)
BY DEF Mild, Closed, Restricted, EndsOK, Carries

\* All that is new are these commands, to others than x.
Conveys(ends, new, x, ls, cmds) ==
    /\ DOMAIN new = DOMAIN ends
    /\ \A e \in DOMAIN new :
          /\ new[e] \in LinkEnd
          /\ new[e].state = ends[e].state
          /\ \A n \in DOMAIN new[e].inbox :
                \/ Carries(ends, e, new[e].inbox[n])
                \/ e[1] # x /\ e[2] \in ls /\ new[e].inbox[n] \in cmds

LEMMA SentConveys ==
  ASSUME NEW ends, EndsOK(ends), NEW x, NEW ls, NEW cmds \in Seq(Message)
  PROVE  Conveys(ends, Sent(ends, x, ls, cmds), x, ls, {cmds[k] : k \in DOMAIN cmds})
<1> DEFINE new == Sent(ends, x, ls, cmds)
<1>1. DOMAIN new = DOMAIN ends
  BY DEF Sent
<1> SUFFICES ASSUME NEW e \in DOMAIN ends
             PROVE  /\ new[e] \in LinkEnd
                    /\ new[e].state = ends[e].state
                    /\ \A n \in DOMAIN new[e].inbox :
                          \/ Carries(ends, e, new[e].inbox[n])
                          \/ /\ e[1] # x /\ e[2] \in ls
                             /\ \E k \in DOMAIN cmds : new[e].inbox[n] = cmds[k]
  BY <1>1 DEF Conveys
<1>2. ends[e] \in LinkEnd
  BY DEF EndsOK
<1>3. CASE new[e] = ends[e]
  BY <1>2, <1>3 DEF Carries
<1>4. CASE e[1] # x /\ e[2] \in ls /\ new[e] = [ends[e] EXCEPT !.inbox = @ \o cmds]
  <2> DEFINE box == ends[e].inbox
             end == ends[e]
  <2>1. box \in Seq(Message)
    BY <1>2 DEF LinkEnd
  <2>2. box \o cmds \in Seq(Message)
    BY <2>1
  <2>3. new[e] = [end EXCEPT !.inbox = box \o cmds] /\ end \in LinkEnd
    BY <1>2, <1>4
  <2> HIDE DEF end, box
  <2>4. new[e] \in LinkEnd /\ new[e].inbox = box \o cmds /\ new[e].state = end.state
    BY <2>2, <2>3 DEF LinkEnd
  <2>5. ASSUME NEW n \in DOMAIN (box \o cmds)
        PROVE  \/ Carries(ends, e, (box \o cmds)[n])
               \/ \E k \in DOMAIN cmds : (box \o cmds)[n] = cmds[k]
    <3>1. CASE n \in 1..Len(box)
      BY <2>1, <3>1 DEF Carries, box
    <3>2. CASE n - Len(box) \in 1..Len(cmds)
      BY <2>1, <3>2
    <3> QED  BY <2>1, <3>1, <3>2
  <2> QED  BY <1>4, <2>4, <2>5 DEF end
<1> QED  BY <1>3, <1>4 DEF Sent

LEMMA MildSent ==
  ASSUME NEW ends, EndsOK(ends), NEW x, NEW ls, NEW ports,
         NEW cmds \in Seq(Message), \A n \in DOMAIN cmds : Harmless(cmds[n], ports)
  PROVE  Mild(ends, Sent(ends, x, ls, cmds), ports)
<1> DEFINE new == Sent(ends, x, ls, cmds)
           said == {cmds[k] : k \in DOMAIN cmds}
<1>1. Conveys(ends, new, x, ls, said) /\ \A m \in said : Harmless(m, ports)
  BY SentConveys
<1> HIDE DEF new, said
<1>2. Mild(ends, new, ports)
  BY <1>1 DEF Mild, Conveys, EndsOK
<1> QED  BY <1>2 DEF new

\* One end changes, and carries nothing new.
LEMMA MildEnd ==
  ASSUME NEW ends, EndsOK(ends), NEW e \in DOMAIN ends, NEW end \in LinkEnd, NEW ports,
         end.state = "opening" => ends[e].state = "opening",
         \A n \in DOMAIN end.inbox : Carries(ends, e, end.inbox[n]),
         NEW new, new = [ends EXCEPT ![e] = end]
  PROVE  Mild(ends, new, ports)
BY DEF Mild, EndsOK, Carries

LEMMA MildConsumed ==
  ASSUME EndsOK(net), NEW x, NEW l, NEW type, Arrives(x, l, type), NEW ports
  PROVE  /\ Mild(net, Consumed(x, l), ports)
         /\ Command(x, l) \in Message /\ Command(x, l).type = type
         /\ <<x, l>> \in DOMAIN net
         /\ Carries(net, <<x, l>>, Command(x, l))
<1> DEFINE box == net[<<x, l>>].inbox
           end == [net[<<x, l>>] EXCEPT !.inbox = Tail(@)]
<1>1. <<x, l>> \in DOMAIN net /\ box # <<>>
  BY DEF Arrives, IsOpen, Has
<1>2. box \in Seq(Message) /\ net[<<x, l>>] \in LinkEnd
  BY <1>1 DEF EndsOK, LinkEnd
<1>3. /\ Tail(box) \in Seq(Message) /\ box[1] = Head(box) /\ Head(box) \in Message
      /\ 1 \in DOMAIN box
      /\ \A n \in DOMAIN Tail(box) : n + 1 \in DOMAIN box /\ Tail(box)[n] = box[n + 1]
  <2> HIDE DEF box
  <2> QED  BY <1>1, <1>2
<1>4. end \in LinkEnd /\ end.inbox = Tail(box) /\ end.state = net[<<x, l>>].state
  BY <1>2, <1>3 DEF LinkEnd
<1>5. Mild(net, Consumed(x, l), ports)
  <2>1. \A n \in DOMAIN Tail(box) : Carries(net, <<x, l>>, Tail(box)[n])
    BY <1>1, <1>3 DEF Carries
  <2>2. Consumed(x, l) = [net EXCEPT ![<<x, l>>] = end]
    BY DEF Consumed
  <2> QED  BY <1>1, <1>4, <2>1, <2>2, MildEnd
<1> QED  BY <1>1, <1>3, <1>5 DEF Arrives, Command, Carries

LEMMA MildWithEnds ==
  ASSUME NEW ends, EndsOK(ends), NEW made, NEW ports,
         \A e \in made : /\ e \in Nodes \X Links /\ e[1] \in {e[2][1], e[2][2]}
                         /\ Running(e[1]) /\ e[2][2] # Lobby
  PROVE  Mild(ends, WithEnds(ends, made), ports)
<1>1. Opening \in LinkEnd /\ DOMAIN Opening.inbox = {}
  BY DEF Opening, LinkEnd
<1> QED  BY <1>1 DEF Mild, WithEnds, EndsOK, Carries

-----------------------------------------------------------------------------
(* One player's step                                                         *)

LEMMA LeastIs ==
  ASSUME NEW S, S \subseteq Slots, S # {}
  PROVE  Least(S) \in S
<1>1. S \subseteq Nat
  BY LANAssumption DEF Slots, Ids
<1>2. PICK t \in S : \A u \in S : <<u, t>> \notin OpToRel(<, Nat)
  BY <1>1, WFMin, NatLessThanWellFounded, Zenon
<1>3. \A u \in S : u \in Nat /\ t \in Nat /\ ~(u < t)
  BY <1>1, <1>2, Zenon DEF OpToRel
<1>4. \A u \in S : t <= u
  BY <1>3
<1> QED  BY <1>4, Zenon DEF Least

InSession(s) == s.phase \in {"connecting", "connected"}

LEMMA StepKeepsMesh ==
  ASSUME MeshInv, NEW x \in Nodes, NEW s \in State, NEW new,
         Become(x, s, new),
         Consistent(x, s),
         Mild(net, new, s.ports),
         s.phase = "idle" => node[x].phase = "idle",
         InSession(s) \/ \A e \in DOMAIN new : e[1] # x,
         \A y \in Clients : \A i \in Slots : s.ports[i] = y => Claimed(node, net, y, i),
         x \in Clients /\ s.id \in Slots => Claimed(node, net, x, s.id)
  PROVE  MeshInv'
<1>1. /\ node' = [node EXCEPT ![x] = s] /\ net' = new
      /\ node \in [Nodes -> State] /\ node' \in [Nodes -> State]
      /\ node'[x] = s /\ \A y \in Nodes \ {x} : node'[y] = node[y]
  BY DEF MeshInv, Become
<1>2. EndsOK(net)' /\ \A y \in Nodes : Consistent(y, node[y])'
  BY <1>1 DEF Mild, MeshInv
<1>3. ASSUME NEW y \in Clients, NEW i \in Slots, Claimed(node', net', y, i)
      PROVE  Claimed(node, net, y, i)
  <2>1. CASE \E z \in Nodes : node'[z].ports[i] = y
    BY <1>1, <2>1 DEF Claimed
  <2>2. CASE node'[y].id = i
    BY <1>1, <2>2 DEF Claimed
  <2>3. CASE \E e \in DOMAIN new : \E n \in DOMAIN new[e].inbox :
                Gives(e, new[e].inbox[n], y, i)
    <3>1. PICK e \in DOMAIN new : \E n \in DOMAIN new[e].inbox :
             Gives(e, new[e].inbox[n], y, i)
      BY <2>3
    <3>2. PICK n \in DOMAIN new[e].inbox : Gives(e, new[e].inbox[n], y, i)
      BY <3>1
    <3>3. CASE Carries(net, e, new[e].inbox[n])
      BY <3>2, <3>3 DEF Carries, Claimed
    <3>4. CASE Harmless(new[e].inbox[n], s.ports)
      BY <3>2, <3>4 DEF Harmless, Gives
    <3> QED  BY <3>3, <3>4 DEF Mild
  <2> QED  BY <1>1, <1>3, <2>1, <2>2, <2>3 DEF Claimed
<1>4. OneNumber'
  BY <1>3 DEF MeshInv, OneNumber
<1>5. \A y \in Clients : \A z \in Nodes :
         /\ Has(new, z, LobbyLink(y)) => Has(net, z, LobbyLink(y))
         /\ IsOpening(new, z, LobbyLink(y)) => IsOpening(net, z, LobbyLink(y))
  BY LobbyLinkFacts DEF Mild, Has, IsOpening
<1>6. \A y \in Clients : y \in Nodes /\ (node'[y].phase = "idle" => node[y].phase = "idle")
  BY <1>1, LobbyLinkFacts
<1>7. NoneBefore'
  BY <1>1, <1>3, <1>5, <1>6, LobbyLinkFacts DEF MeshInv, NoneBefore, Unseated
<1>8. DialledOnce'
  BY <1>1, <1>5, <1>6, LobbyLinkFacts DEF MeshInv, DialledOnce
<1>9. EndsOfRunning'
  BY <1>1, <1>2 DEF MeshInv, Mild, EndsOfRunning, Running, InSession, EndsOK
<1> QED  BY <1>1, <1>2, <1>4, <1>7, <1>8, <1>9 DEF MeshInv

LEMMA ConnectPeersKeeps ==
  ASSUME NEW x \in Clients, NEW s \in State, Consistent(x, s), InSession(s), Running(x),
         s.id # NoId => \A i \in Slots : s.ports[i] = x => i = s.id,
         NEW ends, EndsOK(ends), NEW again, NEW ports,
         NEW done, done = ConnectPeers(s, ends, x, again)
  PROVE  /\ done.s \in State /\ Consistent(x, done.s) /\ InSession(done.s)
         /\ done.s.ports = s.ports /\ done.s.id = s.id
         /\ Mild(ends, done.ends, ports)
<1>1. CASE x = Lobby \/ s.id = NoId \/ ~s.listed \/ ~s.endpoints
  <2>1. done = [s |-> s, ends |-> ends]
    BY <1>1 DEF ConnectPeers
  <2> QED  BY <2>1, MildItself
<1>2. CASE ~(x = Lobby \/ s.id = NoId \/ ~s.listed \/ ~s.endpoints)
  <2> DEFINE others == {i \in Slots \ {s.id} : s.players[i].status = "client"}
             due == {i \in others : /\ i < s.id
                                    /\ s.remote[i] = NoLink
                                    /\ i \in s.dialled => i \in again}
             made == {i \in due : Numbers(ends, x, s.ports[i]) # {}}
             link == [i \in made |-> NewLink(ends, x, s.ports[i])]
             remote == [i \in Ids |-> IF i \in made THEN link[i] ELSE s.remote[i]]
             meets == \A i \in others : IsOpen(ends, x, remote[i])
             t == [s EXCEPT !.remote = remote,
                            !.dialled = @ \cup due,
                            !.phase = IF meets THEN "connected" ELSE @]
  <2>1. done = [s |-> t, ends |-> WithEnds(ends, {<<x, link[i]>> : i \in made})]
    BY <1>2, Zenon DEF ConnectPeers
  <2>2. x \in Nodes /\ Slots \subseteq Ids /\ 0 \in Ids /\ 0 \notin Slots
    BY LANAssumption DEF Nodes, Slots, Ids
  <2>3. ASSUME NEW i \in made
        PROVE  /\ link[i] \in Links /\ link[i][1] = x /\ link[i][2] = s.ports[i]
               /\ link[i][2] # Lobby /\ Other(x, link[i]) = s.ports[i]
               /\ i \in Slots /\ s.players[i].status # "none" /\ s.remote[i] = NoLink
    <3>1. i \in Slots /\ i # s.id /\ s.players[i].status = "client" /\ s.remote[i] = NoLink
      OBVIOUS
    <3>2. s.ports[i] \in Clients /\ s.ports[i] # x
      BY <1>2, <3>1 DEF State, Ports, Consistent
    <3>3. PICK k \in 1..MaxLinks : link[i] = <<x, s.ports[i], k>>
      <4> DEFINE y == s.ports[i]
      <4>1. Numbers(ends, x, y) # {}
        OBVIOUS
      <4> HIDE DEF y
      <4>2. (CHOOSE k \in Numbers(ends, x, y) : TRUE) \in 1..MaxLinks
        BY <4>1 DEF Numbers
      <4> QED  BY <4>2 DEF NewLink, y
    <3> HIDE DEF made, link
    <3>4. /\ link[i] \in Clients \X Clients \X (1..MaxLinks)
          /\ link[i][1] = x /\ link[i][2] = s.ports[i]
      BY <3>2, <3>3
    <3>5. link[i] \in Links
      BY <3>2, <3>4 DEF Links
    <3> QED  BY <3>1, <3>2, <3>4, <3>5, LANAssumption DEF Other
  <2> HIDE DEF made, link, meets
  <2>4. remote \in [Ids -> Links \cup {NoLink}]
    BY <2>2, <2>3 DEF State
  <2>5. due \subseteq Slots
    OBVIOUS
  <2> HIDE DEF others, due, remote
  <2>6. t \in State /\ InSession(t)
    BY <2>4, <2>5 DEF State, InSession
  <2>7. /\ t.remote = remote /\ t.ports = s.ports /\ t.id = s.id /\ t.players = s.players
        /\ t.rx = s.rx /\ t.lastId = s.lastId /\ t.lastPeer = s.lastPeer
        /\ t.endpoints = s.endpoints
    BY DEF State
  <2>8. \A i \in Ids : remote[i] = IF i \in made THEN link[i] ELSE s.remote[i]
    BY DEF remote
  <2> HIDE DEF t
  <2>9. Consistent(x, t)
    <3>1. s.rx \in SUBSET [type : {"command", "reply"}, id : Ids, link : Links]
      BY DEF State
    <3>2. \A f \in s.rx : f.id \in Ids /\ f.link # NoLink /\ f.id \notin made
      BY <3>1, <2>3, LinkFacts DEF Consistent
    <3>3. \A f \in t.rx : t.remote[f.id] = f.link
      BY <3>2, <2>7, <2>8 DEF Consistent
    <3>4. t.lastPeer # NoLink => t.lastId \in Ids /\ t.remote[t.lastId] = t.lastPeer
      BY <2>3, <2>7, <2>8 DEF Consistent
    <3>5. \A i \in Slots : t.remote[i] # NoLink => /\ t.players[i].status # "none"
                                                   /\ t.ports[i] = Other(x, t.remote[i])
      BY <2>2, <2>3, <2>7, <2>8 DEF Consistent
    <3> QED  BY <1>2, <2>2, <2>3, <2>6, <2>7, <2>8, <3>3, <3>4, <3>5 DEF Consistent, InSession
  <2>10. Mild(ends, done.ends, ports)
    <3> DEFINE new == {<<x, link[i]>> : i \in made}
    <3>1. \A e \in new : /\ e \in Nodes \X Links /\ e[1] \in {e[2][1], e[2][2]}
                         /\ Running(e[1]) /\ e[2][2] # Lobby
      BY <2>2, <2>3
    <3> HIDE DEF new
    <3>2. done.ends = WithEnds(ends, new)
      BY <2>1 DEF new
    <3> QED  BY <3>1, <3>2, MildWithEnds
  <2> QED  BY <2>1, <2>6, <2>7, <2>9, <2>10
<1> QED  BY <1>1, <1>2

\* What s says of players' numbers was said before.
Backed(x, s) ==
    /\ \A y \in Clients : \A i \in Slots : s.ports[i] = y => Claimed(node, net, y, i)
    /\ x \in Clients /\ s.id \in Slots => Claimed(node, net, x, s.id)

LEMMA OwnIsBacked ==
  ASSUME NEW x \in Nodes, NEW s,
         \A i \in Slots : s.ports[i] \in {node[x].ports[i], NoPort}, s.id \in {node[x].id, NoId}
  PROVE  Backed(x, s)
<1>1. \A y \in Clients : y # NoPort
  BY LANAssumption
<1>2. NoId \notin Slots
  BY LANAssumption DEF NoId, Slots, Ids
<1> QED  BY <1>1, <1>2 DEF Backed, Claimed

LEMMA ConnectingKeepsMesh ==
  ASSUME MeshInv, NEW x \in Clients, NEW s \in State, NEW mid, NEW again,
         LET done == ConnectPeers(s, mid, x, again) IN Become(x, done.s, done.ends),
         Consistent(x, s), InSession(s), Running(x),
         Mild(net, mid, s.ports),
         Backed(x, s)
  PROVE  MeshInv'
<1> DEFINE done == ConnectPeers(s, mid, x, again)
<1>1. x \in Nodes /\ x # Lobby
  BY LANAssumption DEF Nodes
<1>2. ASSUME s.id # NoId, NEW i \in Slots, s.ports[i] = x
      PROVE  i = s.id
  <2>1. s.id \in Slots
    BY <1>1, <1>2 DEF State, Consistent, Slots
  <2> QED  BY <1>2, <2>1 DEF Backed, MeshInv, OneNumber
<1>3. EndsOK(mid)
  BY DEF Mild
<1>4. /\ done.s \in State /\ Consistent(x, done.s) /\ InSession(done.s)
      /\ done.s.ports = s.ports /\ done.s.id = s.id
      /\ Mild(mid, done.ends, s.ports)
  BY <1>2, <1>3, ConnectPeersKeeps
<1>5. Become(x, done.s, done.ends)
  OBVIOUS
<1> HIDE DEF done
<1>6. Mild(net, done.ends, done.s.ports)
  BY <1>4, MildTrans
<1>7. done.s.phase # "idle"
  BY <1>4 DEF InSession
<1> QED  BY <1>1, <1>4, <1>5, <1>6, <1>7, StepKeepsMesh DEF Backed

LEMMA EndFacts ==
  ASSUME MeshInv, NEW x, NEW l, Has(net, x, l)
  PROVE  /\ x \in Nodes /\ l \in Links /\ x \in {l[1], l[2]}
         /\ net[<<x, l>>] \in LinkEnd /\ <<x, l>> \in DOMAIN net
         /\ Running(x) /\ InSession(node[x]) /\ node[x] \in State /\ Consistent(x, node[x])
         /\ EndsOK(net)
BY DEF MeshInv, EndsOK, EndsOfRunning, Has, Running, InSession

LEMMA ClearedFacts ==
  ASSUME NEW x, NEW s \in State, Consistent(x, s), NEW is, is \subseteq Slots,
         NEW t, t = ClearPeers(s, is)
  PROVE  /\ t \in State /\ Consistent(x, t)
         /\ t.phase = s.phase /\ t.id = s.id /\ t.players = s.players /\ t.ports = s.ports
         /\ \A i \in Ids : t.remote[i] = IF i \in is THEN NoLink ELSE s.remote[i]
<1> DEFINE gone == {s.remote[i] : i \in is}
           remote == [i \in Ids |-> IF i \in is THEN NoLink ELSE s.remote[i]]
           rx == {f \in s.rx : f.link \notin gone}
<1>1. is \subseteq Ids /\ 0 \notin is
  BY DEF Slots
<1>2. s.remote \in [Ids -> Links \cup {NoLink}]
  BY DEF State
<1>3. remote \in [Ids -> Links \cup {NoLink}]
  BY <1>2
<1>4. s.rx \in SUBSET [type : {"command", "reply"}, id : Ids, link : Links]
  BY DEF State
<1>5. rx \in SUBSET [type : {"command", "reply"}, id : Ids, link : Links]
  BY <1>4
<1>6. \A f \in rx : f \in s.rx /\ f.id \in Ids /\ f.id \notin is
  BY <1>1, <1>4 DEF Consistent
<1>7. t = [s EXCEPT !.remote = remote, !.ready = @ \ is,
                    !.lastPeer = IF s.lastId \in is THEN NoLink ELSE @, !.rx = rx]
  BY <1>2, Zenon DEF ClearPeers
<1>8. \A i \in Ids : remote[i] = IF i \in is THEN NoLink ELSE s.remote[i]
  OBVIOUS
<1> HIDE DEF remote, rx
<1>9. /\ t \in State
      /\ t.phase = s.phase /\ t.id = s.id /\ t.players = s.players /\ t.ports = s.ports
      /\ t.remote = remote /\ t.rx = rx /\ t.lastId = s.lastId /\ t.endpoints = s.endpoints
      /\ t.lastPeer = IF s.lastId \in is THEN NoLink ELSE s.lastPeer
  BY ZenonT(120), <1>3, <1>5, <1>7 DEF State
<1>10. Consistent(x, t)
  <2>1. \A f \in t.rx : t.remote[f.id] = f.link
    BY <1>6, <1>8, <1>9 DEF Consistent
  <2>2. 0 \in Ids
    BY LANAssumption DEF Ids
  <2> QED  BY <1>1, <1>8, <1>9, <2>1, <2>2 DEF Consistent, Slots
<1> QED  BY <1>8, <1>9, <1>10

\* An end changes its state, and stays an end.
LEMMA MildMarked ==
  ASSUME NEW ends, EndsOK(ends), NEW e \in DOMAIN ends, NEW mark \in {"open", "closing"},
         NEW ports
  PROVE  Mild(ends, [ends EXCEPT ![e].state = mark], ports)
<1> DEFINE old == ends[e]
           end == [old EXCEPT !.state = mark]
<1>1. old \in LinkEnd
  BY DEF EndsOK
<1>2. [ends EXCEPT ![e].state = mark] = [ends EXCEPT ![e] = end]
  OBVIOUS
<1> HIDE DEF old
<1>3. end \in LinkEnd /\ end.state = mark /\ end.inbox = old.inbox
  BY <1>1 DEF LinkEnd
<1> HIDE DEF end
<1>4. \A n \in DOMAIN end.inbox : Carries(ends, e, end.inbox[n])
  BY <1>3 DEF Carries, old
<1> QED  BY <1>2, <1>3, <1>4, MildEnd

LEMMA MildAir ==
  ASSUME NEW ends, EndsOK(ends), NEW e \in DOMAIN ends, NEW air \in SUBSET Frame, NEW ports
  PROVE  Mild(ends, [ends EXCEPT ![e].air = air], ports)
<1> DEFINE old == ends[e]
           end == [old EXCEPT !.air = air]
<1>1. old \in LinkEnd
  BY DEF EndsOK
<1>2. [ends EXCEPT ![e].air = air] = [ends EXCEPT ![e] = end]
  OBVIOUS
<1> HIDE DEF old
<1>3. end \in LinkEnd /\ end.state = old.state /\ end.inbox = old.inbox
  BY <1>1 DEF LinkEnd
<1> HIDE DEF end
<1>4. \A n \in DOMAIN end.inbox : Carries(ends, e, end.inbox[n])
  BY <1>3 DEF Carries, old
<1> QED  BY <1>2, <1>3, <1>4, MildEnd DEF old

LEMMA MildAired ==
  ASSUME NEW ends, EndsOK(ends), NEW x, NEW ls, NEW frame \in Frame, NEW ports
  PROVE  Mild(ends, Aired(ends, x, ls, frame), ports)
<1> DEFINE new == Aired(ends, x, ls, frame)
<1>1. DOMAIN new = DOMAIN ends
  BY DEF Aired
<1> SUFFICES ASSUME NEW e \in DOMAIN ends
             PROVE  /\ new[e] \in LinkEnd
                    /\ new[e].state = ends[e].state /\ new[e].inbox = ends[e].inbox
  BY <1>1 DEF Mild, EndsOK, Carries
<1> DEFINE old == ends[e]
<1>2. old \in LinkEnd
  BY DEF EndsOK
<1>3. new[e] = old \/ new[e] = [old EXCEPT !.air = @ \cup {frame}]
  BY DEF Aired
<1> HIDE DEF old, new
<1>4. new[e] \in LinkEnd /\ new[e].state = old.state /\ new[e].inbox = old.inbox
  BY <1>2, <1>3 DEF LinkEnd
<1> QED  BY <1>4 DEF old

-----------------------------------------------------------------------------
(* The steps, one by one                                                     *)

LEMMA OneCommand ==
  ASSUME NEW m \in Message, NEW ports, Harmless(m, ports)
  PROVE  /\ <<m>> \in Seq(Message)
         /\ \A n \in DOMAIN <<m>> : Harmless(<<m>>[n], ports)
<1>1. <<m>> \in Seq(Message) /\ \A n \in DOMAIN <<m>> : <<m>>[n] = m
  OBVIOUS
<1> QED  BY <1>1

LEMMA ReadyIsHarmless ==
  ASSUME NEW type \in {"ready", "not ready"}, NEW ports
  PROVE  /\ <<[type |-> type]>> \in Seq(Message)
         /\ \A n \in DOMAIN <<[type |-> type]>> : Harmless(<<[type |-> type]>>[n], ports)
<1> DEFINE m == [type |-> type]
<1>1. m \in Message /\ Harmless(m, ports)
  BY DEF Message, Harmless
<1> HIDE DEF m
<1>2. /\ <<m>> \in Seq(Message)
      /\ \A n \in DOMAIN <<m>> : Harmless(<<m>>[n], ports)
  BY <1>1, OneCommand
<1> QED  BY <1>2 DEF m

LEMMA LocalReadyIsMild ==
  ASSUME NEW ends, EndsOK(ends), NEW s, NEW x, NEW l, NEW ports
  PROVE  Mild(ends, SendLocalReady(ends, s, x, l), ports)
<1> DEFINE cmds == <<[type |-> "ready"]>>
<1>1. cmds \in Seq(Message) /\ \A n \in DOMAIN cmds : Harmless(cmds[n], ports)
  BY ReadyIsHarmless
<1>2. SendLocalReady(ends, s, x, l) \in {Sent(ends, x, {l}, cmds), ends}
  BY DEF SendLocalReady
<1> HIDE DEF cmds
<1> QED  BY <1>1, <1>2, MildSent, MildItself

\* Process dials for a player whose state and links are as they were.
LEMMA ProcessKeepsMesh ==
  ASSUME MeshInv, NEW c, Process(c)
  PROVE  MeshInv'
<1>1. c \in Clients /\ c \in Nodes /\ Running(c) /\ node[c] \in State /\ Consistent(c, node[c])
  BY DEF Process, MeshInv, Nodes
<1>2. InSession(node[c]) /\ Mild(net, net, node[c].ports) /\ Backed(c, node[c])
  BY <1>1, MildItself, OwnIsBacked DEF MeshInv, Running, InSession
<1>3. LET done == ConnectPeers(node[c], net, c, Slots) IN Become(c, done.s, done.ends)
  BY DEF Process
<1> QED  BY <1>1, <1>2, <1>3, ConnectingKeepsMesh

\* Readiness, frames and the turns of the guest touch nobody's numbers.
LEMMA OwnStepKeepsMesh ==
  ASSUME MeshInv, NEW x \in Nodes, NEW s \in State, Consistent(x, s), NEW new,
         Become(x, s, new), Mild(net, new, s.ports),
         s.ports = node[x].ports, s.id = node[x].id, s.phase = node[x].phase
  PROVE  MeshInv'
<1>1. InSession(s) \/ \A e \in DOMAIN new : e[1] # x
  BY DEF Mild, MeshInv, EndsOfRunning, Running, InSession
<1>2. Backed(x, s)
  BY OwnIsBacked
<1> QED  BY <1>1, <1>2, StepKeepsMesh DEF Backed

LEMMA ReadyKeepsMesh ==
  ASSUME MeshInv, NEW x \in Nodes, NEW l, PeerReady(x, l) \/ PeerNotReady(x, l)
  PROVE  MeshInv'
<1> PICK type \in {"ready", "not ready"} : Arrives(x, l, type)
  BY DEF PeerReady, PeerNotReady
<1>1. Has(net, x, l)
  BY DEF Arrives, IsOpen
<1> DEFINE old == node[x]
<1>2. /\ old \in State /\ Consistent(x, old) /\ InSession(old)
      /\ EndsOK(net)
  BY <1>1, EndFacts
<1>3. PICK ready \in SUBSET Ids : Become(x, [old EXCEPT !.ready = ready], Consumed(x, l))
  <2>1. OwnerOf(old, l) \subseteq Ids /\ old.ready \subseteq Ids
    BY <1>2 DEF OwnerOf, State
  <2> QED  BY <2>1 DEF PeerReady, PeerNotReady
<1> DEFINE s == [old EXCEPT !.ready = ready]
<1> HIDE DEF old
<1>4. s \in State /\ s.ports = old.ports /\ s.id = old.id /\ s.phase = old.phase
  BY <1>2 DEF State
<1>5. Consistent(x, s)
  BY <1>2 DEF Consistent, State
<1>6. Mild(net, Consumed(x, l), s.ports)
  BY <1>2, MildConsumed
<1>7. Become(x, s, Consumed(x, l))
  BY <1>3
<1> HIDE DEF s
<1> QED  BY <1>4, <1>5, <1>6, <1>7, OwnStepKeepsMesh DEF old

LEMMA FrameArrivesKeepsMesh ==
  ASSUME MeshInv, NEW x \in Nodes, NEW l, FrameArrives(x, l)
  PROVE  MeshInv'
<1>1. Has(net, x, l)
  BY DEF FrameArrives, IsOpen
<1> DEFINE old == node[x]
           end == net[<<x, l>>]
<1>2. /\ old \in State /\ Consistent(x, old) /\ l \in Links
      /\ EndsOK(net) /\ <<x, l>> \in DOMAIN net /\ end \in LinkEnd
  BY <1>1, EndFacts
<1>3. PICK f \in end.air :
         LET rest == [net EXCEPT ![<<x, l>>].air = @ \ {f}]
         IN IF f.id # old.id /\ old.remote[f.id] = l
            THEN Become(x, [old EXCEPT !.rx = @ \cup {[id |-> f.id, type |-> f.type, link |-> l]}], rest)
            ELSE Become(x, old, rest)
  BY DEF FrameArrives
<1> DEFINE rest == [net EXCEPT ![<<x, l>>].air = @ \ {f}]
           g == [id |-> f.id, type |-> f.type, link |-> l]
<1>4. f \in Frame /\ end.air \ {f} \in SUBSET Frame
  BY <1>2 DEF LinkEnd
<1>5. Mild(net, rest, old.ports)
  <2>1. rest = [net EXCEPT ![<<x, l>>].air = end.air \ {f}]
    BY <1>2
  <2> HIDE DEF rest, end
  <2> QED  BY <1>2, <1>4, <2>1, MildAir
<1> HIDE DEF rest, end
<1>6. CASE f.id # old.id /\ old.remote[f.id] = l
  <2> DEFINE s == [old EXCEPT !.rx = @ \cup {g}]
  <2>1. Become(x, s, rest)
    BY <1>3, <1>6 DEF rest
  <2>2. g \in [type : {"command", "reply"}, id : Ids, link : Links]
        /\ old.remote[g.id] = g.link
    BY <1>2, <1>4, <1>6 DEF Frame
  <2> HIDE DEF g, old
  <2>3. s \in State /\ s.ports = old.ports /\ s.id = old.id /\ s.phase = old.phase
    BY <1>2, <2>2 DEF State
  <2>4. Consistent(x, s)
    BY <1>2, <2>2 DEF Consistent, State
  <2> HIDE DEF s
  <2> QED  BY <1>5, <2>1, <2>3, <2>4, OwnStepKeepsMesh DEF old
<1>7. CASE ~(f.id # old.id /\ old.remote[f.id] = l)
  <2>1. Become(x, old, rest)
    BY <1>3, <1>7 DEF rest
  <2> QED  BY <1>2, <1>5, <2>1, OwnStepKeepsMesh
<1> QED  BY <1>6, <1>7

LEMMA ReceiveKeepsMesh ==
  ASSUME MeshInv, NEW x \in Nodes, Receive(x) \/ Discard(x)
  PROVE  MeshInv'
<1> DEFINE old == node[x]
<1>1. old \in State /\ Consistent(x, old) /\ EndsOK(net)
  BY DEF MeshInv
<1>2. PICK f \in old.rx, lastId \in Ids \cup {NoId}, lastPeer \in Links \cup {NoLink} :
         /\ Become(x, [old EXCEPT !.rx = @ \ {f}, !.lastId = lastId, !.lastPeer = lastPeer], net)
         /\ \/ lastId = old.lastId /\ lastPeer = old.lastPeer
            \/ lastId = f.id /\ lastPeer = f.link
  <2>1. PICK f \in old.rx :
           \/ Become(x, [old EXCEPT !.rx = @ \ {f}], net)
           \/ Become(x, [old EXCEPT !.rx = @ \ {f}, !.lastId = f.id, !.lastPeer = f.link], net)
    <3>1. \A f : LET s == [old EXCEPT !.rx = @ \ {f}] IN
                 [s EXCEPT !.lastId = f.id, !.lastPeer = f.link]
                   = [old EXCEPT !.rx = @ \ {f}, !.lastId = f.id, !.lastPeer = f.link]
      BY <1>1 DEF State
    <3> QED  BY <3>1 DEF Receive, Discard
  <2>2. /\ f.id \in Ids /\ f.link \in Links
        /\ old.lastId \in Ids \cup {NoId} /\ old.lastPeer \in Links \cup {NoLink}
    BY <1>1 DEF State
  <2>3. [old EXCEPT !.rx = @ \ {f}] =
           [old EXCEPT !.rx = @ \ {f}, !.lastId = old.lastId, !.lastPeer = old.lastPeer]
    BY <1>1 DEF State
  <2> HIDE DEF old
  <2> QED  BY <2>1, <2>2, <2>3
<1> DEFINE s == [old EXCEPT !.rx = @ \ {f}, !.lastId = lastId, !.lastPeer = lastPeer]
<1> HIDE DEF old
<1>3. /\ s \in State /\ s.ports = old.ports /\ s.id = old.id /\ s.phase = old.phase
      /\ s.remote = old.remote /\ s.rx = old.rx \ {f} /\ s.players = old.players
      /\ s.endpoints = old.endpoints /\ s.lastId = lastId /\ s.lastPeer = lastPeer
  BY <1>1 DEF State
<1>4. f.id \in Ids /\ f.link \in Links /\ old.remote[f.id] = f.link
  BY <1>1 DEF State, Consistent
<1>5. Become(x, s, net)
  BY <1>2
<1> HIDE DEF s
<1>6. Consistent(x, s)
  BY <1>1, <1>2, <1>3, <1>4 DEF Consistent
<1> QED  BY <1>1, <1>3, <1>5, <1>6, MildItself, OwnStepKeepsMesh DEF old

LEMMA GuestKeepsMesh ==
  ASSUME MeshInv, NEW x \in Nodes,
         Begin(x) \/ End(x) \/ \E type \in {"command", "reply"} : Send(x, type)
  PROVE  MeshInv'
<1> DEFINE old == node[x]
<1>1. /\ old \in State /\ Consistent(x, old) /\ EndsOK(net) /\ old.phase = "connected"
      /\ old.id \in Ids
  BY DEF MeshInv, Begin, End, Turn, Send, Consistent, State
<1>2. CASE Begin(x) \/ End(x)
  <2>1. PICK ready \in SUBSET Ids, lastId \in Ids \cup {NoId}, lastPeer \in Links \cup {NoLink},
             type \in {"ready", "not ready"} :
           /\ Become(x, [old EXCEPT !.ready = ready, !.lastId = lastId, !.lastPeer = lastPeer],
                        Broadcast(net, x, <<[type |-> type]>>))
           /\ lastPeer = NoLink \/ (lastId = old.lastId /\ lastPeer = old.lastPeer)
    <3>1. CASE Begin(x)
      <4>1. old.ready \cup {old.id} \in SUBSET Ids
        BY <1>1 DEF State
      <4>2. Become(x, [old EXCEPT !.ready = @ \cup {old.id}, !.lastId = NoId, !.lastPeer = NoLink],
                      Broadcast(net, x, <<[type |-> "ready"]>>))
        BY <3>1 DEF Begin
      <4> HIDE DEF old
      <4> QED  BY <4>1, <4>2
    <3>2. CASE End(x)
      <4>1. [old EXCEPT !.ready = @ \ {old.id}] =
               [old EXCEPT !.ready = @ \ {old.id}, !.lastId = old.lastId, !.lastPeer = old.lastPeer]
        BY <1>1 DEF State
      <4>2. /\ old.lastId \in Ids \cup {NoId} /\ old.lastPeer \in Links \cup {NoLink}
            /\ old.ready \ {old.id} \in SUBSET Ids
        BY <1>1 DEF State
      <4> QED  BY <3>2, <4>1, <4>2 DEF End
    <3> QED  BY <1>2, <3>1, <3>2
  <2> DEFINE s == [old EXCEPT !.ready = ready, !.lastId = lastId, !.lastPeer = lastPeer]
             new == Broadcast(net, x, <<[type |-> type]>>)
  <2> HIDE DEF old
  <2>2. /\ s \in State /\ s.ports = old.ports /\ s.id = old.id /\ s.phase = old.phase
        /\ s.remote = old.remote /\ s.rx = old.rx /\ s.players = old.players
        /\ s.endpoints = old.endpoints /\ s.lastId = lastId /\ s.lastPeer = lastPeer
    BY <1>1 DEF State
  <2>3. Become(x, s, new)
    BY <2>1
  <2>4. Mild(net, new, s.ports)
    BY <1>1, ReadyIsHarmless, MildSent DEF Broadcast
  <2> HIDE DEF s, new
  <2>5. Consistent(x, s)
    BY ZenonT(120), <1>1, <2>1, <2>2 DEF Consistent
  <2> QED  BY <2>2, <2>3, <2>4, <2>5, OwnStepKeepsMesh DEF old
<1>3. CASE \E type \in {"command", "reply"} : Send(x, type)
  <2>1. PICK type \in {"command", "reply"}, ls \in {Links, {old.lastPeer}} :
           Become(x, old, Aired(net, x, ls, [type |-> type, id |-> old.id]))
    BY <1>3 DEF Send
  <2>2. [type |-> type, id |-> old.id] \in Frame
    BY <1>1 DEF Frame
  <2> HIDE DEF old
  <2>3. Mild(net, Aired(net, x, ls, [type |-> type, id |-> old.id]), old.ports)
    BY <1>1, <2>2, MildAired
  <2> QED  BY <1>1, <2>1, <2>3, OwnStepKeepsMesh DEF old
<1> QED  BY <1>2, <1>3

\* A client begins: it is the first to open its link to the lobby.
LEMMA StartKeepsMesh ==
  ASSUME MeshInv, NEW c \in Clients, StartClient(c)
  PROVE  MeshInv'
<1> DEFINE link == LobbyLink(c)
           remote == [i \in Ids |-> IF i = 0 THEN link ELSE NoLink]
           s == [Idle EXCEPT !.phase = "connecting", !.remote = remote]
           new == WithEnds(net, {<<c, link>>})
<1>1. c \in Nodes /\ c # Lobby /\ link \in Links /\ link[1] = c /\ link[2] = Lobby
  BY LobbyLinkFacts
<1>2. node' = [node EXCEPT ![c] = s] /\ net' = new
  <2>1. [Idle EXCEPT !.phase = "connecting", !.remote[0] = link] = s
    BY DEF Idle
  <2> QED  BY <2>1 DEF StartClient, Become
<1>3. remote \in [Ids -> Links \cup {NoLink}] /\ remote[0] = link /\ \A i \in Slots : remote[i] = NoLink
  BY <1>1, LANAssumption DEF Ids, Slots
<1> HIDE DEF remote
<1>4. /\ s \in State /\ s.phase = "connecting" /\ s.id = NoId /\ s.remote = remote
      /\ s.ports = [i \in Slots |-> NoPort] /\ s.lastPeer = NoLink /\ s.rx = {} /\ ~s.endpoints
  <2>1. [i \in Slots |-> Empty] \in [Slots -> Player] /\ [i \in Slots |-> NoPort] \in Ports
    BY DEF Player, Ports, Empty
  <2> QED  BY <1>3, <2>1 DEF Idle, State
<1>5. Consistent(c, s)
  BY <1>1, <1>3, <1>4, LANAssumption DEF Consistent, NoId
<1> HIDE DEF s
<1>6. /\ node' \in [Nodes -> State] /\ node'[c] = s /\ \A y \in Nodes \ {c} : node'[y] = node[y]
      /\ \A y \in Nodes : Consistent(y, node'[y])
  BY <1>1, <1>2, <1>4, <1>5 DEF MeshInv
<1>7. /\ DOMAIN new = DOMAIN net \cup {<<c, link>>}
      /\ \A e \in DOMAIN new : e = <<c, link>> \/ (e \in DOMAIN net /\ new[e] = net[e])
      /\ new[<<c, link>>] = Opening
  BY DEF WithEnds
<1>8. Opening \in LinkEnd /\ Opening.inbox = <<>>
  BY DEF Opening, LinkEnd
<1> HIDE DEF new, link
<1>9. EndsOK(net')
  BY <1>1, <1>2, <1>7, <1>8 DEF MeshInv, EndsOK
<1>10. EndsOfRunning'
  BY <1>1, <1>2, <1>4, <1>6, <1>7, <1>9 DEF MeshInv, EndsOfRunning, Running, EndsOK
<1>11. ASSUME NEW y \in Clients, NEW i \in Slots, Claimed(node', net', y, i)
       PROVE  Claimed(node, net, y, i)
  <2>1. NoPort # y /\ NoId # i /\ y \in Nodes
    BY LANAssumption DEF NoId, Slots, Ids, Nodes
  <2>2. CASE \E z \in Nodes : node'[z].ports[i] = y
    BY <1>4, <1>6, <2>1, <2>2 DEF Claimed
  <2>3. CASE node'[y].id = i
    BY <1>4, <1>6, <2>1, <2>3 DEF Claimed
  <2>4. CASE \E e \in DOMAIN new : \E n \in DOMAIN new[e].inbox : Gives(e, new[e].inbox[n], y, i)
    BY <1>7, <1>8, <2>4 DEF Claimed
  <2> QED  BY <1>2, <1>11, <2>2, <2>3, <2>4 DEF Claimed
<1>12. node[c].phase = "idle"
  BY DEF StartClient
<1>13. \A y \in Clients : y # c => LobbyLink(y) # link
  BY <1>1, LobbyLinkFacts
<1>14. OneNumber' /\ NoneBefore' /\ DialledOnce'
  <2>1. OneNumber'
    BY <1>11 DEF MeshInv, OneNumber
  <2>2. ASSUME NEW y \in Clients, Unseated(node', net', y)
        PROVE  Unseated(node, net, y)
    <3>1. CASE y = c
      BY <1>12, <3>1 DEF Unseated
    <3>2. CASE y # c
      <4>1. y \in Nodes /\ LobbyLink(y) # link /\ node'[y] = node[y]
        BY <1>6, <1>13, <3>2, LobbyLinkFacts
      <4> QED  BY <1>2, <1>7, <2>2, <4>1 DEF Unseated, IsOpening, Has
    <3> QED  BY <3>1, <3>2
  <2>3. NoneBefore'
    BY <1>11, <2>2 DEF MeshInv, NoneBefore
  <2>4. ASSUME NEW y \in Clients, Has(net', Lobby, LobbyLink(y))
        PROVE  node'[y].phase # "idle" /\ ~IsOpening(net', y, LobbyLink(y))
    <3>1. Has(net, Lobby, LobbyLink(y))
      BY <1>1, <1>2, <1>7, <2>4 DEF Has
    <3>2. y # c
      BY <1>12, <3>1 DEF MeshInv, DialledOnce
    <3>3. y \in Nodes /\ LobbyLink(y) # link /\ node'[y] = node[y]
      BY <1>6, <1>13, <3>2, LobbyLinkFacts
    <3> QED  BY <1>2, <1>7, <3>1, <3>3 DEF MeshInv, DialledOnce, IsOpening, Has
  <2> QED  BY <2>1, <2>3, <2>4 DEF DialledOnce
<1> QED  BY <1>6, <1>9, <1>10, <1>14 DEF MeshInv

LEMMA HostUpdateIsMild ==
  ASSUME NEW ends, EndsOK(ends), NEW s \in State, NEW count \in 0..MaxPlayers
  PROVE  Mild(ends, HostUpdatePlayerList(ends, s, count), s.ports)
<1> DEFINE list == [type |-> "list", players |-> s.players, count |-> count]
           ports == [type |-> "ports", ports |-> s.ports]
<1>1. list \in Message /\ Harmless(list, s.ports) /\ ports \in Message /\ Harmless(ports, s.ports)
  <2>1. s.players \in [Slots -> Player] /\ s.ports \in Ports
    BY DEF State
  <2> QED  BY <2>1 DEF Message, Harmless
<1> HIDE DEF list, ports
<1>2. /\ <<list, ports>> \in Seq(Message)
      /\ \A n \in DOMAIN <<list, ports>> : Harmless(<<list, ports>>[n], s.ports)
  <2>1. <<list, ports>> \in Seq(Message) /\ DOMAIN <<list, ports>> = 1..2
        /\ <<list, ports>>[1] = list /\ <<list, ports>>[2] = ports
    BY <1>1
  <2>2. \A n \in 1..2 : n = 1 \/ n = 2
    OBVIOUS
  <2> QED  BY <1>1, <2>1, <2>2
<1> QED  BY <1>2, MildSent DEF HostUpdatePlayerList, Broadcast, list, ports

LEMMA EndSessionKeepsMesh ==
  ASSUME MeshInv, NEW x \in Nodes, EndSession(x)
  PROVE  MeshInv'
<1>1. /\ Over \in State /\ Over.phase = "over" /\ Over.id = NoId /\ Over.endpoints = FALSE
      /\ Over.ports = [i \in Slots |-> NoPort] /\ Over.lastPeer = NoLink /\ Over.rx = {}
      /\ Over.remote = [i \in Ids |-> NoLink]
  <2>1. /\ [i \in Slots |-> Empty] \in [Slots -> Player] /\ [i \in Slots |-> NoPort] \in Ports
        /\ [i \in Ids |-> NoLink] \in [Ids -> Links \cup {NoLink}]
    BY DEF Player, Ports, Empty
  <2> QED  BY <2>1 DEF Over, Idle, State
<1>2. Consistent(x, Over)
  BY <1>1, LANAssumption DEF Consistent, Ids, Slots, NoId
<1>3. /\ Mild(net, Closed(net, x, Links), Over.ports)
      /\ \A e \in DOMAIN Closed(net, x, Links) : e[1] # x
  <2> DEFINE new == Closed(net, x, Links)
  <2>1. Mild(net, new, Over.ports) /\ \A e \in DOMAIN new : ~(e[1] = x /\ e[2] \in Links)
    BY MildClosed DEF MeshInv
  <2> HIDE DEF new
  <2>2. \A e \in DOMAIN new : e[2] \in Links
    BY <2>1 DEF Mild, EndsOK
  <2>3. \A e \in DOMAIN new : e[1] # x
    BY <2>1, <2>2
  <2> QED  BY <2>1, <2>3 DEF new
<1>4. Backed(x, Over)
  BY <1>1, OwnIsBacked
<1> QED  BY <1>1, <1>2, <1>3, <1>4, StepKeepsMesh DEF EndSession, Backed

\* The seats of the lobby that are taken
Taken(s) == {i \in Slots : s.players[i].status # "none"}

LEMMA TakenIsFinite ==
  ASSUME NEW s
  PROVE  IsFiniteSet(Taken(s)) /\ Cardinality(Taken(s)) \in Nat
<1>1. IsFiniteSet(Ids)
  BY FS_Interval, LANAssumption DEF Ids
<1>2. Taken(s) \in SUBSET Ids
  BY DEF Taken, Slots
<1> QED  BY <1>1, <1>2, FS_Subset, FS_CardinalityType

LEMMA OwnerFacts ==
  ASSUME MeshInv, NEW x, NEW l, Has(net, x, l)
  PROVE  /\ x = Lobby \/ l # node[x].remote[0] => OwnerOf(node[x], l) \subseteq Slots
         /\ \A i \in OwnerOf(node[x], l) \cap Slots :
               node[x].players[i].status # "none" /\ node[x].ports[i] = Other(x, l)
         /\ x = Lobby => /\ l[1] \in Clients /\ l = LobbyLink(l[1]) /\ Other(x, l) = l[1]
                         /\ \A i, j \in OwnerOf(node[x], l) : i = j
<1>1. /\ x \in Nodes /\ l \in Links /\ x \in {l[1], l[2]} /\ Consistent(x, node[x]) /\ l # NoLink
  BY EndFacts, LinkFacts
<1>2. x = Lobby \/ l # node[x].remote[0] => OwnerOf(node[x], l) \subseteq Slots
  BY <1>1 DEF OwnerOf, Slots, Consistent
<1>3. \A i \in OwnerOf(node[x], l) \cap Slots :
         node[x].players[i].status # "none" /\ node[x].ports[i] = Other(x, l)
  BY <1>1 DEF OwnerOf, Consistent
<1>4. ASSUME x = Lobby
      PROVE  /\ l[1] \in Clients /\ l = LobbyLink(l[1]) /\ Other(x, l) = l[1]
             /\ \A i, j \in OwnerOf(node[x], l) : i = j
  <2>1. l[1] \in Clients /\ l = LobbyLink(l[1]) /\ Other(x, l) = l[1]
    BY <1>1, <1>4, LinkFacts, LANAssumption
  <2>2. \A i \in OwnerOf(node[x], l) : i \in Slots /\ Claimed(node, net, l[1], i)
    BY <1>1, <1>2, <1>3, <1>4, <2>1 DEF Claimed
  <2> QED  BY <2>1, <2>2 DEF MeshInv, OneNumber
<1> QED  BY <1>2, <1>3, <1>4

\* A player who is gone takes along what was remembered of its number.
LEMMA DisconnectKeepsMesh ==
  ASSUME SessionInv, NEW x, NEW l, Disconnect(x, l)
  PROVE  MeshInv'
<1> USE DEF SessionInv
<1> DEFINE s == node[x]
           owner == OwnerOf(s, l)
           rest == Closed(net, x, {l})
           cleared == ClearPeers(s, owner)
<1>1. Has(net, x, l)
  BY DEF Disconnect
<1>2. /\ x \in Nodes /\ s \in State /\ Consistent(x, s) /\ InSession(s) /\ Running(x)
      /\ EndsOK(net)
  BY <1>1, EndFacts
<1>3. \A ports : Mild(net, rest, ports)
  BY <1>2, MildClosed
<1>4. CASE owner = {}
  <2>1. Become(x, s, rest)
    BY <1>4 DEF Disconnect
  <2> QED  BY <1>2, <1>3, <2>1, OwnStepKeepsMesh
<1>5. CASE owner # {} /\ x # Lobby /\ l = s.remote[0]
  BY <1>2, <1>5, EndSessionKeepsMesh DEF Disconnect
<1>6. CASE owner # {} /\ x # Lobby /\ l # s.remote[0]
  <2>1. owner \subseteq Slots
    BY <1>1, <1>6, OwnerFacts
  <2>2. Become(x, cleared, rest)
    BY <1>6 DEF Disconnect
  <2> HIDE DEF s, owner, rest
  <2>3. /\ cleared \in State /\ Consistent(x, cleared)
        /\ cleared.ports = s.ports /\ cleared.id = s.id /\ cleared.phase = s.phase
    BY <1>2, <2>1, ClearedFacts
  <2> HIDE DEF cleared
  <2> QED  BY <1>2, <1>3, <2>2, <2>3, OwnStepKeepsMesh DEF s
<1>7. CASE owner # {} /\ x = Lobby
  <2> DEFINE players == [i \in Slots |-> IF i \in owner THEN Empty ELSE cleared.players[i]]
             ports == [i \in Slots |-> IF i \in owner THEN NoPort ELSE cleared.ports[i]]
             left == [cleared EXCEPT !.players = players, !.ports = ports]
             new == HostUpdatePlayerList(rest, left, numPlayers - 1)
  <2>1. owner \subseteq Slots
    BY <1>1, <1>7, OwnerFacts
  <2>2. Become(x, left, new)
    BY <1>7 DEF Disconnect
  <2>3. numPlayers - 1 \in 0..MaxPlayers
    <3>1. numPlayers = 1 + Cardinality(Taken(s)) /\ numPlayers \in 0..MaxPlayers
      BY <1>2, <1>7 DEF SeatsAreCounted, Taken, TypeOK
    <3> QED  BY <3>1, TakenIsFinite, LANAssumption
  <2> HIDE DEF s, owner, rest
  <2>4. /\ cleared \in State /\ Consistent(x, cleared)
        /\ cleared.ports = s.ports /\ cleared.id = s.id /\ cleared.phase = s.phase
        /\ \A i \in Ids : cleared.remote[i] = IF i \in owner THEN NoLink ELSE s.remote[i]
    BY <1>2, <2>1, ClearedFacts
  <2> HIDE DEF cleared
  <2>5. players \in [Slots -> Player] /\ ports \in Ports
    <3>1. cleared.players \in [Slots -> Player] /\ cleared.ports \in Ports
      BY <2>4 DEF State
    <3> QED  BY <3>1 DEF Player, Ports, Empty
  <2>6. /\ \A i \in Slots \ owner : players[i] = cleared.players[i] /\ ports[i] = cleared.ports[i]
        /\ \A i \in owner : players[i].status = "none"
        /\ \A i \in Slots : ports[i] \in {cleared.ports[i], NoPort}
    BY <2>1 DEF Empty
  <2> HIDE DEF players, ports
  <2>7. /\ left \in State /\ left.players = players /\ left.ports = ports
        /\ left.id = cleared.id /\ left.phase = cleared.phase /\ left.remote = cleared.remote
        /\ left.rx = cleared.rx /\ left.lastId = cleared.lastId
        /\ left.lastPeer = cleared.lastPeer /\ left.endpoints = cleared.endpoints
    BY <2>4, <2>5 DEF State
  <2> HIDE DEF left
  <2>8. Consistent(x, left)
    BY <1>7, <2>4, <2>6, <2>7 DEF Consistent, Slots
  <2>9. Mild(net, new, left.ports)
    <3>1. EndsOK(rest)
      BY <1>3 DEF Mild
    <3>2. Mild(rest, new, left.ports)
      BY <2>3, <2>7, <3>1, HostUpdateIsMild
    <3> QED  BY <1>3, <3>2, MildTrans
  <2>10. Backed(x, left)
    BY <1>2, <2>4, <2>6, <2>7, OwnIsBacked DEF s
  <2> HIDE DEF new
  <2> QED  BY <1>2, <2>2, <2>4, <2>7, <2>8, <2>9, <2>10, StepKeepsMesh DEF Backed, InSession
<1> QED  BY <1>4, <1>5, <1>6, <1>7

LEMMA KnownFacts ==
  ASSUME NEW x, NEW s \in State, NEW l, NEW from, Consistent(x, s), l # NoLink,
         Other(x, l) = from,
         KnownAs(s, l, from) # {}, NEW i, i = Least(KnownAs(s, l, from))
  PROVE  /\ i \in Slots /\ s.players[i].status = "client" /\ s.ports[i] = from
         /\ s.remote[i] \in {l, NoLink}
<1>1. KnownAs(s, l, from) \subseteq Slots
  BY DEF KnownAs
<1>2. i \in KnownAs(s, l, from)
  BY <1>1, LeastIs
<1> QED  BY <1>2 DEF KnownAs, Consistent

\* A client takes a link for the player it has found.
LEMMA LinkedIsConsistent ==
  ASSUME NEW x \in Clients, NEW s \in State, Consistent(x, s), NEW l \in Links,
         NEW i \in Slots, s.players[i].status = "client", s.ports[i] = Other(x, l),
         s.remote[i] \in {l, NoLink},
         NEW t, t = [s EXCEPT !.remote[i] = l]
  PROVE  /\ t \in State /\ Consistent(x, t)
         /\ t.ports = s.ports /\ t.id = s.id /\ t.phase = s.phase
<1> DEFINE remote == [s.remote EXCEPT ![i] = l]
<1>1. i \in Ids /\ i # 0 /\ 0 \in Ids /\ l # NoLink /\ x # Lobby
  BY LANAssumption, LinkFacts DEF Slots, Ids
<1>2. s.remote \in [Ids -> Links \cup {NoLink}]
  BY DEF State
<1>3. /\ remote \in [Ids -> Links \cup {NoLink}]
      /\ \A j \in Ids : remote[j] = IF j = i THEN l ELSE s.remote[j]
  BY <1>1, <1>2
<1>4. t = [s EXCEPT !.remote = remote]
  OBVIOUS
<1> HIDE DEF remote
<1>5. /\ t \in State /\ t.remote = remote /\ t.ports = s.ports /\ t.id = s.id
      /\ t.phase = s.phase /\ t.players = s.players /\ t.rx = s.rx /\ t.lastId = s.lastId
      /\ t.lastPeer = s.lastPeer /\ t.endpoints = s.endpoints
  BY <1>3, <1>4 DEF State
<1>6. \A f \in s.rx : f.id \in Ids /\ f.link # NoLink /\ s.remote[f.id] = f.link
  BY LinkFacts DEF State, Consistent
<1>7. Consistent(x, t)
  BY <1>1, <1>3, <1>5, <1>6 DEF Consistent, Slots
<1> QED  BY <1>5, <1>7

\* A link between clients comes up at one of them.
LEMMA MetKeepsMesh ==
  ASSUME MeshInv, NEW c \in Clients, NEW l \in Links, Has(net, c, l), l[2] # Lobby,
         NEW up, \A ports : Mild(net, up, ports),
         LET s == node[c]
             known == KnownAs(s, l, Other(c, l))
         IN IF known = {}
            THEN Become(c, s, Closed(up, c, {l}))
            ELSE BecomeConnecting(c, [s EXCEPT !.remote[Least(known)] = l],
                                  SendLocalReady(up, s, c, l))
  PROVE  MeshInv'
<1> DEFINE s == node[c]
           known == KnownAs(s, l, Other(c, l))
<1>1. /\ c \in Nodes /\ s \in State /\ Consistent(c, s) /\ InSession(s) /\ Running(c)
      /\ EndsOK(up) /\ l # NoLink
  BY EndFacts, LinkFacts DEF Mild
<1>2. CASE known = {}
  <2>1. Become(c, s, Closed(up, c, {l}))
    BY <1>2
  <2>2. Mild(up, Closed(up, c, {l}), s.ports)
    BY <1>1, MildClosed
  <2>3. Mild(net, Closed(up, c, {l}), s.ports)
    BY <2>2, MildTrans
  <2> QED  BY <1>1, <2>1, <2>3, OwnStepKeepsMesh
<1>3. CASE known # {}
  <2> DEFINE i == Least(known)
             t == [s EXCEPT !.remote[i] = l]
             mid == SendLocalReady(up, s, c, l)
  <2>1. BecomeConnecting(c, t, mid)
    BY <1>3
  <2> HIDE DEF s, mid
  <2>2. i \in Slots /\ s.players[i].status = "client" /\ s.ports[i] = Other(c, l)
        /\ s.remote[i] \in {l, NoLink}
    BY <1>1, <1>3, KnownFacts
  <2> HIDE DEF i
  <2>3. t \in State /\ Consistent(c, t) /\ t.ports = s.ports /\ t.id = s.id /\ t.phase = s.phase
    BY <1>1, <2>2, LinkedIsConsistent
  <2> HIDE DEF t
  <2>4. Mild(net, mid, t.ports)
    <3>1. Mild(up, mid, t.ports)
      BY <1>1, LocalReadyIsMild DEF mid
    <3> QED  BY <3>1, MildTrans
  <2>5. Backed(c, t) /\ InSession(t)
    BY <1>1, <2>3, OwnIsBacked DEF s, InSession
  <2>6. PICK again \in SUBSET t.dialled :
           LET done == ConnectPeers(t, mid, c, again) IN Become(c, done.s, done.ends)
    BY <2>1 DEF BecomeConnecting
  <2> QED  BY <1>1, <2>3, <2>4, <2>5, <2>6, ConnectingKeepsMesh
<1> QED  BY <1>2, <1>3

LEMMA AcceptKeepsMesh ==
  ASSUME MeshInv, NEW c \in Clients, NEW l, Accept(c, l)
  PROVE  MeshInv'
<1> DEFINE up == [net EXCEPT ![<<c, l>>].state = "open"]
           s == node[c]
           known == KnownAs(s, l, l[1])
<1>1. Has(net, c, l) /\ l[2] = c
  BY DEF Accept
<1>2. l \in Links /\ <<c, l>> \in DOMAIN net /\ EndsOK(net) /\ c \in Nodes
      /\ s \in State /\ Consistent(c, s)
  BY <1>1, EndFacts
<1>3. Other(c, l) = l[1] /\ l[2] # Lobby
  BY <1>1, <1>2, LinkFacts, LANAssumption
<1>4. CASE known = {}
  <2>1. Become(c, s, Closed(net, c, {l}))
    BY <1>4 DEF Accept
  <2>2. Mild(net, Closed(net, c, {l}), s.ports)
    BY <1>2, MildClosed
  <2> QED  BY <1>2, <2>1, <2>2, OwnStepKeepsMesh
<1>5. CASE known # {}
  <2>1. BecomeConnecting(c, [s EXCEPT !.remote[Least(known)] = l], SendLocalReady(up, s, c, l))
    BY <1>5 DEF Accept
  <2>2. \A ports : Mild(net, up, ports)
    BY <1>2, MildMarked
  <2>3. KnownAs(s, l, Other(c, l)) = known
    BY <1>3
  <2> HIDE DEF up, known
  <2> QED  BY <1>1, <1>2, <1>3, <1>5, <2>1, <2>2, <2>3, MetKeepsMesh
<1> QED  BY <1>4, <1>5

LEMMA DialledClientKeepsMesh ==
  ASSUME MeshInv, NEW c \in Clients, NEW l, Dialled(c, l), l[2] # Lobby
  PROVE  MeshInv'
<1> DEFINE wide == WithEnds(net, {<<l[2], l>>})
           up == [wide EXCEPT ![<<c, l>>].state = "open"]
           s == node[c]
           known == KnownAs(s, l, l[2])
<1>1. Has(net, c, l) /\ l[1] = c /\ Running(l[2])
  BY DEF Dialled
<1>2. l \in Links /\ <<c, l>> \in DOMAIN net /\ EndsOK(net) /\ Running(c) /\ Consistent(c, s)
  BY <1>1, EndFacts
<1>3. Other(c, l) = l[2] /\ l[2] \in Nodes /\ c # l[2]
  BY <1>1, <1>2, LinkFacts
<1>4. s.remote[0] # l
  <2>1. s.remote[0] = LobbyLink(c)
    BY <1>2, LobbyLinkFacts DEF Consistent, Running
  <2> QED  BY <2>1, LobbyLinkFacts
<1>5. IF known = {}
      THEN Become(c, s, Closed(up, c, {l}))
      ELSE BecomeConnecting(c, [s EXCEPT !.remote[Least(known)] = l],
                            SendLocalReady(up, s, c, l))
  BY <1>4 DEF Dialled
<1>6. \A ports : Mild(net, up, ports)
  <2>1. \A ports : Mild(net, wide, ports)
    BY <1>1, <1>2, <1>3, MildWithEnds
  <2>2. EndsOK(wide) /\ <<c, l>> \in DOMAIN wide
    BY <1>2, <2>1 DEF Mild, WithEnds
  <2> HIDE DEF wide
  <2>3. \A ports : Mild(wide, up, ports)
    BY <2>2, MildMarked
  <2> QED  BY <2>1, <2>3, MildTrans
<1> HIDE DEF up, wide
<1>7. KnownAs(s, l, Other(c, l)) = known
  BY <1>3
<1> HIDE DEF known
<1> QED  BY <1>1, <1>2, <1>5, <1>6, <1>7, MetKeepsMesh

\* The lobby's end of a client's link appears once, as the client's own opens.
LEMMA DialledLobbyKeepsMesh ==
  ASSUME MeshInv, NEW c \in Clients, NEW l, Dialled(c, l), l[2] = Lobby
  PROVE  MeshInv'
<1> DEFINE wide == WithEnds(net, {<<Lobby, l>>})
           new == [wide EXCEPT ![<<c, l>>].state = "open"]
           s == node[c]
<1>1. Has(net, c, l) /\ l[1] = c /\ Running(Lobby) /\ IsOpening(net, c, l)
  BY DEF Dialled, IsOpening
<1>2. /\ l \in Links /\ <<c, l>> \in DOMAIN net /\ EndsOK(net) /\ Running(c)
      /\ s \in State /\ Consistent(c, s) /\ c \in Nodes
  BY <1>1, EndFacts
<1>3. l = LobbyLink(c) /\ c # Lobby /\ Lobby \in Nodes
  BY <1>1, <1>2, LinkFacts, LobbyLinkFacts
<1>4. node' = [node EXCEPT ![c] = s] /\ net' = new
  <2>1. s.remote[0] = l
    BY <1>2, <1>3 DEF Consistent, Running
  <2> QED  BY <1>1, <2>1 DEF Dialled, Become
<1>5. node' = node
  BY <1>2, <1>4 DEF MeshInv
<1>6. Opening \in LinkEnd /\ Opening.inbox = <<>>
  BY DEF Opening, LinkEnd
<1>7. /\ DOMAIN new = DOMAIN net \cup {<<Lobby, l>>}
      /\ new[<<Lobby, l>>] = Opening
      /\ \A e \in DOMAIN new \ {<<Lobby, l>>, <<c, l>>} : new[e] = net[e]
      /\ new[<<c, l>>] \in LinkEnd /\ new[<<c, l>>].state = "open"
      /\ new[<<c, l>>].inbox = net[<<c, l>>].inbox
  <2> DEFINE end == net[<<c, l>>]
  <2>1. end \in LinkEnd /\ <<c, l>> # <<Lobby, l>>
    BY <1>2, <1>3 DEF EndsOK
  <2>2. /\ DOMAIN new = DOMAIN net \cup {<<Lobby, l>>}
        /\ new[<<Lobby, l>>] = Opening
        /\ \A e \in DOMAIN new \ {<<Lobby, l>>, <<c, l>>} : new[e] = net[e]
        /\ new[<<c, l>>] = [end EXCEPT !.state = "open"]
    BY <1>2, <2>1 DEF WithEnds
  <2> HIDE DEF end, new
  <2>3. new[<<c, l>>] \in LinkEnd /\ new[<<c, l>>].state = "open" /\ new[<<c, l>>].inbox = end.inbox
    BY <2>1, <2>2 DEF LinkEnd
  <2> QED  BY <2>2, <2>3 DEF end
<1> HIDE DEF new
<1>8. EndsOK(net') /\ EndsOfRunning'
  <2>1. EndsOK(new)
    BY <1>2, <1>3, <1>6, <1>7 DEF EndsOK
  <2> QED  BY <1>1, <1>2, <1>4, <1>5, <1>7, <2>1 DEF MeshInv, EndsOfRunning, Running
<1>9. ASSUME NEW y \in Clients, NEW i \in Slots, Claimed(node', net', y, i)
      PROVE  Claimed(node, net, y, i)
  <2>1. CASE \E e \in DOMAIN new : \E n \in DOMAIN new[e].inbox : Gives(e, new[e].inbox[n], y, i)
    BY <1>2, <1>6, <1>7, <2>1 DEF Claimed
  <2> QED  BY <1>4, <1>5, <1>9, <2>1 DEF Claimed
<1>10. OneNumber'
  BY <1>9 DEF MeshInv, OneNumber
<1>11. \A y \in Clients : y # c => LobbyLink(y) # l
  BY <1>3, LobbyLinkFacts
<1>12. ASSUME NEW y \in Clients, Unseated(node', net', y)
       PROVE  Unseated(node, net, y)
  <2>1. CASE y = c
    BY <1>1, <1>3, <2>1 DEF Unseated
  <2>2. CASE y # c
    BY <1>4, <1>5, <1>7, <1>11, <1>12, <2>2 DEF Unseated, IsOpening, Has
  <2> QED  BY <2>1, <2>2
<1>13. NoneBefore'
  BY <1>9, <1>12 DEF MeshInv, NoneBefore
<1>14. ASSUME NEW y \in Clients, Has(net', Lobby, LobbyLink(y))
       PROVE  node'[y].phase # "idle" /\ ~IsOpening(net', y, LobbyLink(y))
  <2>1. CASE y = c
    BY <1>2, <1>3, <1>4, <1>5, <1>7, <2>1 DEF IsOpening, Running
  <2>2. CASE y # c
    BY <1>4, <1>5, <1>7, <1>11, <1>14, <2>2 DEF MeshInv, DialledOnce, IsOpening, Has
  <2> QED  BY <2>1, <2>2
<1> QED  BY <1>5, <1>8, <1>10, <1>13, <1>14 DEF MeshInv, DialledOnce

SeatedAs(s, l, id) ==
    [s EXCEPT !.players[id] = [status |-> "connecting", machine |-> Machine[l[1]]],
              !.ports[id] = l[1],
              !.remote[id] = l]

GivesSeat(s, t, c, id) ==
    /\ t.id = s.id /\ t.phase = s.phase
    /\ \A i \in Slots \ {id} : t.ports[i] = s.ports[i] /\ t.players[i] = s.players[i]
    /\ t.ports[id] = c /\ t.players[id].status # "none"

\* A seat is free, with no link: its new owner inherits nothing.
LEMMA SeatedIsConsistent ==
  ASSUME NEW s \in State, Consistent(Lobby, s), NEW l \in Links, l[2] = Lobby,
         NEW id \in Slots, s.players[id].status = "none",
         NEW t, t = SeatedAs(s, l, id)
  PROVE  /\ t \in State /\ Consistent(Lobby, t)
         /\ GivesSeat(s, t, l[1], id)
<1> DEFINE p == [status |-> "connecting", machine |-> Machine[l[1]]]
           players == [s.players EXCEPT ![id] = p]
           ports == [s.ports EXCEPT ![id] = l[1]]
           remote == [s.remote EXCEPT ![id] = l]
<1>1. /\ l[1] \in Clients /\ l # NoLink /\ Other(Lobby, l) = l[1] /\ l[1] # NoPort
      /\ id \in Ids /\ id # 0 /\ 0 \in Ids
  BY LinkFacts, LANAssumption DEF Slots, Ids
<1>2. s.remote \in [Ids -> Links \cup {NoLink}] /\ s.players \in [Slots -> Player] /\ s.ports \in Ports
  BY DEF State
<1>3. p \in Player /\ p.status = "connecting"
  BY <1>1 DEF Player
<1>4. t = [s EXCEPT !.players = players, !.ports = ports, !.remote = remote]
  BY Zenon DEF SeatedAs
<1> HIDE DEF p
<1>5. /\ remote \in [Ids -> Links \cup {NoLink}]
      /\ \A i \in Ids : remote[i] = IF i = id THEN l ELSE s.remote[i]
      /\ players \in [Slots -> Player]
      /\ \A i \in Slots : players[i] = IF i = id THEN p ELSE s.players[i]
      /\ ports \in Ports
      /\ \A i \in Slots : ports[i] = IF i = id THEN l[1] ELSE s.ports[i]
  BY <1>1, <1>2, <1>3 DEF Ports
<1> HIDE DEF players, ports, remote
<1>6. /\ t \in State /\ t.remote = remote /\ t.ports = ports /\ t.id = s.id
      /\ t.phase = s.phase /\ t.players = players /\ t.rx = s.rx /\ t.lastId = s.lastId
      /\ t.lastPeer = s.lastPeer /\ t.endpoints = s.endpoints
  BY <1>4, <1>5 DEF State
<1>7. s.remote[id] = NoLink
  BY DEF Consistent
<1>8. \A f \in s.rx : f.id \in Ids /\ f.link # NoLink /\ s.remote[f.id] = f.link
  BY LinkFacts DEF State, Consistent
<1>9. Consistent(Lobby, t)
  <2>1. \A f \in t.rx : t.remote[f.id] = f.link
    BY <1>5, <1>6, <1>7, <1>8
  <2>2. t.lastPeer # NoLink => t.lastId \in Ids /\ t.remote[t.lastId] = t.lastPeer
    BY <1>5, <1>6, <1>7 DEF Consistent
  <2>3. ASSUME NEW i \in Slots
        PROVE  /\ t.remote[i] # NoLink => /\ t.players[i].status # "none"
                                          /\ t.ports[i] = Other(Lobby, t.remote[i])
               /\ t.endpoints /\ t.players[i].status # "none" => t.ports[i] # NoPort
    <3>1. i \in Ids
      BY DEF Slots
    <3>2. CASE i = id
      BY <1>1, <1>3, <1>5, <1>6, <3>1, <3>2
    <3>3. CASE i # id
      <4>1. /\ t.remote[i] = s.remote[i] /\ t.players[i] = s.players[i] /\ t.ports[i] = s.ports[i]
            /\ t.endpoints = s.endpoints
        BY <1>5, <1>6, <3>1, <3>3
      <4> QED  BY <4>1 DEF Consistent
    <3> QED  BY <3>2, <3>3
  <2>4. t.remote[0] = NoLink /\ (t.phase = "connected" => t.id # NoId)
    BY <1>1, <1>5, <1>6 DEF Consistent
  <2> QED  BY <2>1, <2>2, <2>3, <2>4 DEF Consistent
<1>10. GivesSeat(s, t, l[1], id)
  BY <1>3, <1>5, <1>6 DEF GivesSeat
<1> QED  BY <1>6, <1>9, <1>10

LEMMA InitConveys ==
  ASSUME NEW ends, EndsOK(ends), NEW id \in Slots, NEW l
  PROVE  Conveys(ends, Sent(ends, Lobby, {l}, <<[type |-> "init", id |-> id]>>), Lobby, {l},
                 {[type |-> "init", id |-> id]})
<1> DEFINE m == [type |-> "init", id |-> id]
           cmds == <<m>>
<1>1. m \in Message
  BY DEF Message
<1> HIDE DEF m
<1>2. cmds \in Seq(Message) /\ {cmds[k] : k \in DOMAIN cmds} = {m}
  BY <1>1
<1> HIDE DEF cmds
<1>3. Conveys(ends, Sent(ends, Lobby, {l}, cmds), Lobby, {l}, {cmds[k] : k \in DOMAIN cmds})
  BY <1>2, SentConveys
<1> QED  BY <1>2, <1>3 DEF cmds, m

\* The lobby gives a number to a client that has none.
LEMMA SeatKeepsMesh ==
  ASSUME MeshInv, NEW l, Seat(l)
  PROVE  MeshInv'
<1> DEFINE s == node[Lobby]
           y == l[1]
           free == {i \in Slots : s.players[i].status = "none"}
           id == Least(free)
           seated == [s EXCEPT !.players[id] = [status |-> "connecting",
                                                machine |-> Machine[l[1]]],
                               !.ports[id] = l[1],
                               !.remote[id] = l]
           up == [net EXCEPT ![<<Lobby, l>>].state = "open"]
           init == [type |-> "init", id |-> id]
           told == Sent(up, Lobby, {l}, <<init>>)
           new == SendLocalReady(told, seated, Lobby, l)
<1>1. Has(net, Lobby, l) /\ IsOpening(net, Lobby, l)
  BY DEF Seat, IsOpening
<1>2. /\ l \in Links /\ <<Lobby, l>> \in DOMAIN net /\ EndsOK(net) /\ Running(Lobby)
      /\ s \in State /\ Consistent(Lobby, s) /\ Lobby \in Nodes /\ InSession(s)
      /\ Lobby \in {l[1], l[2]}
  BY <1>1, EndFacts
<1>3. y \in Clients /\ y \in Nodes /\ l = LobbyLink(y) /\ l[2] = Lobby /\ y # Lobby
  BY <1>2, LinkFacts, LobbyLinkFacts, LANAssumption
<1>4. CASE numPlayers >= MaxPlayers \/ free = {}
  <2>1. Become(Lobby, s, [net EXCEPT ![<<Lobby, l>>].state = "closing"])
    BY <1>4 DEF Seat
  <2>2. Mild(net, [net EXCEPT ![<<Lobby, l>>].state = "closing"], s.ports)
    BY <1>2, MildMarked
  <2> QED  BY <1>2, <2>1, <2>2, OwnStepKeepsMesh
<1>5. CASE ~(numPlayers >= MaxPlayers \/ free = {})
  <2>1. Become(Lobby, seated, new)
    BY <1>5 DEF Seat
  <2>2. id \in Slots /\ s.players[id].status = "none"
    BY <1>5, LeastIs
  <2> HIDE DEF id, s
  <2>3. /\ seated \in State /\ Consistent(Lobby, seated)
        /\ seated.id = s.id /\ seated.phase = s.phase
        /\ \A i \in Slots : seated.ports[i] = IF i = id THEN y ELSE s.ports[i]
    <3>1. seated = SeatedAs(s, l, id)
      BY Zenon DEF SeatedAs
    <3> HIDE DEF seated
    <3>2. s \in State /\ Consistent(Lobby, s) /\ l \in Links /\ l[2] = Lobby
      BY <1>2, <1>3
    <3>3. seated \in State /\ Consistent(Lobby, seated) /\ GivesSeat(s, seated, y, id)
      BY <2>2, <3>1, <3>2, SeatedIsConsistent
    <3> QED  BY <2>2, <3>3 DEF GivesSeat
  <2> HIDE DEF seated
  <2>4. /\ node' = [node EXCEPT ![Lobby] = seated] /\ net' = new
        /\ node' \in [Nodes -> State] /\ node'[Lobby] = seated
        /\ \A z \in Nodes \ {Lobby} : node'[z] = node[z]
    BY <1>2, <2>1, <2>3 DEF Become, MeshInv
  <2>5. /\ DOMAIN up = DOMAIN net /\ EndsOK(up) /\ up[<<Lobby, l>>].state = "open"
        /\ \A e \in DOMAIN up :
              /\ e # <<Lobby, l>> => up[e].state = net[e].state
              /\ \A n \in DOMAIN up[e].inbox : Carries(net, e, up[e].inbox[n])
    <3> DEFINE end == net[<<Lobby, l>>]
    <3>1. end \in LinkEnd
      BY <1>2 DEF EndsOK
    <3>2. /\ DOMAIN up = DOMAIN net /\ up[<<Lobby, l>>] = [end EXCEPT !.state = "open"]
          /\ \A e \in DOMAIN up \ {<<Lobby, l>>} : up[e] = net[e]
      BY <1>2
    <3> HIDE DEF end, up
    <3>3. /\ up[<<Lobby, l>>] \in LinkEnd /\ up[<<Lobby, l>>].state = "open"
          /\ up[<<Lobby, l>>].inbox = end.inbox
      BY <3>1, <3>2 DEF LinkEnd
    <3> QED  BY <1>2, <3>2, <3>3 DEF EndsOK, Carries, end
  <2> HIDE DEF up
  <2>6. /\ DOMAIN told = DOMAIN net /\ EndsOK(told)
        /\ \A e \in DOMAIN told :
              /\ told[e].state = up[e].state
              /\ \A n \in DOMAIN told[e].inbox :
                    Carries(net, e, told[e].inbox[n]) \/ (e = <<y, l>> /\ told[e].inbox[n] = init)
    <3>1. Conveys(up, told, Lobby, {l}, {init})
      BY <2>2, <2>5, InitConveys
    <3> HIDE DEF told, init
    <3>3. \A e \in DOMAIN net : e[1] # Lobby /\ e[2] = l => e = <<y, l>>
      BY <1>2, <1>3 DEF EndsOK
    <3> QED  BY <2>5, <3>1, <3>3 DEF EndsOK, Conveys, Carries
  <2> HIDE DEF told
  <2>7. Mild(told, new, seated.ports)
    BY <2>6, LocalReadyIsMild
  <2> HIDE DEF new
  <2>8. /\ EndsOK(new)
        /\ \A e \in DOMAIN new : e \in DOMAIN net \/ (Running(e[1]) /\ e[2][2] # Lobby)
    BY <2>6, <2>7 DEF Mild
  <2>9. EndsOfRunning'
    <3>1. \A e \in DOMAIN new : Running(e[1]) /\ e[1] \in Nodes
      BY <2>8 DEF MeshInv, EndsOfRunning, EndsOK
    <3> QED  BY <1>2, <2>3, <2>4, <3>1 DEF EndsOfRunning, Running, InSession
  <2>10. \A z \in Nodes : Consistent(z, node[z])'
    BY <2>3, <2>4 DEF MeshInv
  <2>11. \A z \in Clients : \A x \in Nodes :
            /\ Has(new, x, LobbyLink(z)) => Has(net, x, LobbyLink(z))
            /\ IsOpening(new, x, LobbyLink(z)) =>
                  IsOpening(net, x, LobbyLink(z)) /\ ~(x = Lobby /\ z = y)
    BY <1>3, <2>5, <2>6, <2>7, LobbyLinkFacts DEF Mild, Has, IsOpening
  <2>12. Unseated(node, net, y) /\ node[y].phase # "idle" /\ ~IsOpening(net, y, l)
    BY <1>1, <1>3 DEF Unseated, MeshInv, DialledOnce
  <2>13. \A i \in Slots : ~Claimed(node, net, y, i)
    BY <1>3, <2>12 DEF MeshInv, NoneBefore
  <2>14. ASSUME NEW z \in Clients, NEW i \in Slots, Claimed(node', net', z, i)
         PROVE  Claimed(node, net, z, i) \/ (z = y /\ i = id)
    <3>1. CASE \E x \in Nodes : node'[x].ports[i] = z
      BY <1>2, <2>3, <2>4, <3>1 DEF Claimed, s
    <3>2. CASE node'[z].id = i
      BY <2>3, <2>4, <3>2 DEF Claimed, s
    <3>3. CASE \E e \in DOMAIN new : \E n \in DOMAIN new[e].inbox :
                  Gives(e, new[e].inbox[n], z, i)
      <4>1. PICK e \in DOMAIN new : \E n \in DOMAIN new[e].inbox :
               Gives(e, new[e].inbox[n], z, i)
        BY <3>3
      <4>2. PICK n \in DOMAIN new[e].inbox : Gives(e, new[e].inbox[n], z, i)
        BY <4>1
      <4> DEFINE m == new[e].inbox[n]
      <4>3. Carries(told, e, m) \/ Harmless(m, seated.ports)
        BY <2>7 DEF Mild
      <4>4. CASE Harmless(m, seated.ports)
        <5>1. seated.ports[i] = z
          BY <4>2, <4>4 DEF Harmless, Gives
        <5> QED  BY <1>2, <2>3, <5>1 DEF Claimed, s
      <4>5. CASE Carries(net, e, m)
        BY <4>2, <4>5 DEF Carries, Claimed
      <4>6. CASE e = <<y, l>> /\ m = init
        BY <4>2, <4>6 DEF Gives
      <4> QED  BY <2>6, <4>3, <4>4, <4>5, <4>6 DEF Carries
    <3> QED  BY <2>4, <2>14, <3>1, <3>2, <3>3 DEF Claimed
  <2>15. OneNumber'
    BY <2>13, <2>14 DEF MeshInv, OneNumber
  <2>16. ASSUME NEW z \in Clients, Unseated(node', net', z)
         PROVE  Unseated(node, net, z) /\ z # y
    <3>1. z \in Nodes /\ Lobby \in Nodes /\ z # Lobby
      BY LobbyLinkFacts
    <3>2. node'[z] = node[z]
      BY <2>4, <3>1
    <3> QED  BY <1>3, <2>4, <2>11, <2>12, <2>16, <3>1, <3>2 DEF Unseated
  <2>17. NoneBefore'
    BY <2>14, <2>16 DEF MeshInv, NoneBefore
  <2>18. DialledOnce'
    <3>1. \A z \in Clients : z \in Nodes /\ z # Lobby /\ Lobby \in Nodes
      BY LobbyLinkFacts
    <3> QED  BY <2>4, <2>11, <3>1 DEF MeshInv, DialledOnce
  <2> QED  BY <2>4, <2>8, <2>9, <2>10, <2>15, <2>17, <2>18 DEF MeshInv
<1> QED  BY <1>4, <1>5

LEMMA MessageKinds ==
  ASSUME NEW m \in Message
  PROVE  /\ m.type \in {"init", "info"} => m.id \in Slots
         /\ m.type = "list" => m.players \in [Slots -> Player] /\ m.count \in 0..MaxPlayers
         /\ m.type = "ports" => m.ports \in Ports
BY DEF Message

LEMMA InfoIsHarmless ==
  ASSUME NEW id \in Slots, NEW ports
  PROVE  /\ <<[type |-> "info", id |-> id]>> \in Seq(Message)
         /\ \A n \in DOMAIN <<[type |-> "info", id |-> id]>> :
               Harmless(<<[type |-> "info", id |-> id]>>[n], ports)
<1> DEFINE m == [type |-> "info", id |-> id]
<1>1. m \in Message /\ Harmless(m, ports)
  BY DEF Message, Harmless
<1> HIDE DEF m
<1>2. /\ <<m>> \in Seq(Message)
      /\ \A n \in DOMAIN <<m>> : Harmless(<<m>>[n], ports)
  BY <1>1, OneCommand
<1> QED  BY <1>2 DEF m

\* A client takes the number it is told.
LEMMA ClientInitKeepsMesh ==
  ASSUME MeshInv, NEW c \in Clients, NEW l, ClientInit(c, l)
  PROVE  MeshInv'
<1> DEFINE s == node[c]
           id == Command(c, l).id
           t == [s EXCEPT !.id = id]
           eaten == Consumed(c, l)
           new == Sent(eaten, c, {l}, <<[type |-> "info", id |-> id]>>)
<1>1. Arrives(c, l, "init") /\ Has(net, c, l)
  BY DEF ClientInit, Arrives, IsOpen
<1>2. c \in Nodes /\ s \in State /\ Consistent(c, s) /\ InSession(s) /\ EndsOK(net)
  BY <1>1, EndFacts
<1>3. /\ \A ports : Mild(net, eaten, ports)
      /\ Command(c, l) \in Message /\ Command(c, l).type = "init"
      /\ Carries(net, <<c, l>>, Command(c, l))
  BY <1>1, <1>2, MildConsumed
<1>4. id \in Slots /\ Claimed(node, net, c, id)
  BY <1>3, MessageKinds DEF Carries, Claimed, Gives
<1>5. CASE ~(s.phase = "connecting" /\ s.id = NoId /\ l = s.remote[0])
  <2>1. Become(c, s, eaten)
    BY <1>5 DEF ClientInit
  <2> QED  BY <1>2, <1>3, <2>1, OwnStepKeepsMesh
<1>6. CASE s.phase = "connecting" /\ s.id = NoId /\ l = s.remote[0]
  <2>1. Become(c, t, new)
    BY <1>6 DEF ClientInit
  <2> HIDE DEF s, id, eaten
  <2>2. /\ t \in State /\ t.id = id /\ t.phase = s.phase /\ t.ports = s.ports
        /\ t.remote = s.remote /\ t.rx = s.rx /\ t.lastId = s.lastId
        /\ t.lastPeer = s.lastPeer /\ t.players = s.players /\ t.endpoints = s.endpoints
    BY <1>2, <1>4 DEF State, Slots
  <2> HIDE DEF t
  <2>3. c # Lobby /\ id # 0 /\ id # NoId
    BY <1>4, LANAssumption DEF Slots, Ids, NoId
  <2>4. Consistent(c, t)
    BY <1>2, <2>2, <2>3 DEF Consistent
  <2>5. Mild(net, new, t.ports)
    <3>1. EndsOK(eaten)
      BY <1>3 DEF Mild
    <3>2. Mild(eaten, new, t.ports)
      BY <1>4, <3>1, InfoIsHarmless, MildSent
    <3> QED  BY <1>3, <3>2, MildTrans
  <2>6. \A y \in Clients : \A i \in Slots : t.ports[i] = y => Claimed(node, net, y, i)
    BY <1>2, <2>2 DEF Claimed, s
  <2> HIDE DEF new
  <2> QED  BY <1>2, <1>4, <2>1, <2>2, <2>4, <2>5, <2>6, StepKeepsMesh DEF InSession
<1> QED  BY <1>5, <1>6

ListedAs(s, id, p, c) == [s EXCEPT !.players[id] = p, !.ports[id] = c]

\* The lobby lists a player under the number it gave to that link.
LEMMA ListedIsConsistent ==
  ASSUME NEW s \in State, Consistent(Lobby, s), NEW l \in Links, l[2] = Lobby,
         NEW id \in Slots, s.remote[id] = l, NEW p \in Player, p.status # "none",
         NEW t, t = ListedAs(s, id, p, l[1])
  PROVE  /\ t \in State /\ Consistent(Lobby, t)
         /\ t.id = s.id /\ t.phase = s.phase /\ t.ports = s.ports
         /\ Taken(t) = Taken(s)
<1> DEFINE players == [s.players EXCEPT ![id] = p]
<1>1. l[1] \in Clients /\ l # NoLink /\ Other(Lobby, l) = l[1] /\ l[1] # NoPort
  BY LinkFacts, LANAssumption
<1>2. s.players \in [Slots -> Player] /\ s.ports \in Ports /\ s.ports[id] = l[1]
      /\ s.players[id].status # "none"
  BY <1>1 DEF State, Consistent
<1>3. t = [s EXCEPT !.players = players]
  <2>1. [s.ports EXCEPT ![id] = l[1]] = s.ports
    BY <1>2 DEF Ports
  <2>2. t = [s EXCEPT !.players = players, !.ports = [s.ports EXCEPT ![id] = l[1]]]
    BY Zenon DEF ListedAs
  <2> HIDE DEF players
  <2>3. t = [s EXCEPT !.players = players, !.ports = s.ports]
    BY <2>1, <2>2, Zenon
  <2> QED  BY <2>3 DEF State
<1>4. /\ players \in [Slots -> Player]
      /\ \A i \in Slots : players[i] = IF i = id THEN p ELSE s.players[i]
  BY <1>2
<1> HIDE DEF players
<1>5. /\ t \in State /\ t.remote = s.remote /\ t.ports = s.ports /\ t.id = s.id
      /\ t.phase = s.phase /\ t.players = players /\ t.rx = s.rx /\ t.lastId = s.lastId
      /\ t.lastPeer = s.lastPeer /\ t.endpoints = s.endpoints
  BY <1>3, <1>4 DEF State
<1>6. \A i \in Slots : t.players[i].status # "none" <=> s.players[i].status # "none"
  BY <1>2, <1>4, <1>5
<1>7. Consistent(Lobby, t)
  BY <1>5, <1>6 DEF Consistent
<1>8. Taken(t) = Taken(s)
  BY <1>6 DEF Taken
<1> QED  BY <1>5, <1>7, <1>8

LEMMA PlayerInfoKeepsMesh ==
  ASSUME SessionInv, NEW l, PlayerInfo(l)
  PROVE  MeshInv' /\ (Running(Lobby) => Taken(node[Lobby]') = Taken(node[Lobby]))
<1> USE DEF SessionInv
<1> DEFINE s == node[Lobby]
           id == Command(Lobby, l).id
           p == [status |-> "client", machine |-> Machine[l[1]]]
           t == [s EXCEPT !.players[id] = p, !.ports[id] = l[1]]
           eaten == Consumed(Lobby, l)
<1>1. Arrives(Lobby, l, "info") /\ Has(net, Lobby, l)
  BY DEF PlayerInfo, Arrives, IsOpen
<1>2. /\ s \in State /\ Consistent(Lobby, s) /\ InSession(s) /\ EndsOK(net) /\ l \in Links
      /\ Lobby \in Nodes /\ Lobby \in {l[1], l[2]} /\ <<Lobby, l>> \in DOMAIN net
  BY <1>1, EndFacts
<1>3. l[1] \in Clients /\ l[2] = Lobby
  BY <1>2, LinkFacts, LANAssumption
<1>4. /\ \A ports : Mild(net, eaten, ports)
      /\ Command(Lobby, l) \in Message /\ Command(Lobby, l).type = "info"
  BY <1>1, <1>2, MildConsumed
<1>5. id \in Slots
  BY <1>4, MessageKinds
<1>6. CASE id \in OwnerOf(s, l)
  <2>1. Become(Lobby, t, HostUpdatePlayerList(eaten, t, numPlayers))
    BY <1>6 DEF PlayerInfo
  <2>2. p \in Player /\ p.status # "none"
    BY <1>3 DEF Player
  <2>3. s.remote[id] = l
    BY <1>6 DEF OwnerOf
  <2> HIDE DEF s, id, p, eaten
  <2>4. /\ t \in State /\ Consistent(Lobby, t) /\ t.id = s.id /\ t.phase = s.phase
        /\ t.ports = s.ports /\ Taken(t) = Taken(s)
    <3>1. t = ListedAs(s, id, p, l[1])
      BY Zenon DEF ListedAs
    <3> HIDE DEF t
    <3> QED  BY <1>2, <1>3, <1>5, <2>2, <2>3, <3>1, ListedIsConsistent
  <2> DEFINE new == HostUpdatePlayerList(eaten, t, numPlayers)
  <2> HIDE DEF t
  <2>5. Mild(net, new, t.ports)
    <3>1. EndsOK(eaten) /\ numPlayers \in 0..MaxPlayers
      BY <1>4 DEF Mild, TypeOK
    <3>2. Mild(eaten, new, t.ports)
      BY <2>4, <3>1, HostUpdateIsMild
    <3> QED  BY <1>4, <3>2, MildTrans
  <2>6. node'[Lobby] = t
    BY <1>2, <2>1 DEF Become, MeshInv
  <2> HIDE DEF new
  <2>7. MeshInv'
    BY <1>2, <2>1, <2>4, <2>5, OwnStepKeepsMesh DEF s, new
  <2> QED  BY <2>4, <2>6, <2>7 DEF s
<1>7. CASE id \notin OwnerOf(s, l)
  <2> DEFINE new == [eaten EXCEPT ![<<Lobby, l>>].state = "closing"]
  <2>1. Become(Lobby, s, new)
    BY <1>7 DEF PlayerInfo
  <2>2. Mild(net, new, s.ports)
    <3>1. EndsOK(eaten)
      BY <1>4 DEF Mild
    <3>2. <<Lobby, l>> \in DOMAIN eaten
      BY <1>2 DEF Consumed
    <3> HIDE DEF eaten
    <3>3. Mild(eaten, new, s.ports)
      BY <3>1, <3>2, MildMarked
    <3> QED  BY <1>4, <3>3, MildTrans
  <2>3. node'[Lobby] = s
    BY <1>2, <2>1 DEF Become, MeshInv
  <2> HIDE DEF new
  <2> QED  BY <1>2, <2>1, <2>2, <2>3, OwnStepKeepsMesh
<1> QED  BY <1>6, <1>7

Replaced(s, is, players, ports, type) ==
    IF type = "list"
    THEN [ClearPeers(s, is) EXCEPT !.players = players, !.ports = ports, !.dialled = @ \ is,
                                   !.listed = TRUE, !.endpoints = FALSE]
    ELSE [ClearPeers(s, is) EXCEPT !.ports = ports, !.dialled = @ \ is, !.endpoints = TRUE]

Replaceable(s, is, players, ports, type) ==
    /\ players \in [Slots -> Player] /\ ports \in Ports /\ is \subseteq Slots
    /\ \A i \in Slots \ is : s.remote[i] # NoLink =>
           players[i].status # "none" /\ ports[i] = s.ports[i]
    /\ type # "list" =>
           players = s.players /\ \A i \in Slots : players[i].status # "none" => ports[i] # NoPort

\* A list or its ports replaces what a client knew: the links it keeps lead to
\* players who are listed there with the same ports.
LEMMA ReplacedIsConsistent ==
  ASSUME NEW x \in Clients, NEW s \in State, Consistent(x, s), InSession(s),
         NEW players, NEW ports, NEW is, NEW type,
         Replaceable(s, is, players, ports, type),
         NEW t, t = Replaced(s, is, players, ports, type)
  PROVE  /\ t \in State /\ Consistent(x, t) /\ InSession(t)
         /\ t.ports = ports /\ t.id = s.id
<1> DEFINE cleared == ClearPeers(s, is)
<1> USE DEF Replaceable
<1>1. /\ cleared \in State /\ Consistent(x, cleared)
      /\ cleared.phase = s.phase /\ cleared.id = s.id /\ cleared.players = s.players
      /\ \A i \in Ids : cleared.remote[i] = IF i \in is THEN NoLink ELSE s.remote[i]
  BY ClearedFacts
<1> HIDE DEF cleared
<1>2. /\ t \in State /\ t.players = players /\ t.ports = ports /\ t.id = cleared.id
      /\ t.phase = cleared.phase /\ t.remote = cleared.remote /\ t.rx = cleared.rx
      /\ t.lastId = cleared.lastId /\ t.lastPeer = cleared.lastPeer
      /\ t.endpoints => type # "list"
  <2>1. CASE type = "list"
    <3>1. t = [cleared EXCEPT !.players = players, !.ports = ports, !.dialled = @ \ is,
                              !.listed = TRUE, !.endpoints = FALSE]
      BY <2>1, Zenon DEF Replaced, cleared
    <3> QED  BY ZenonT(120), <1>1, <3>1 DEF State
  <2>2. CASE type # "list"
    <3>1. t = [cleared EXCEPT !.ports = ports, !.dialled = @ \ is, !.endpoints = TRUE]
      BY <2>2, Zenon DEF Replaced, cleared
    <3> QED  BY ZenonT(120), <1>1, <2>2, <3>1 DEF State
  <2> QED  BY <2>1, <2>2
<1>3. t.endpoints => \A i \in Slots : t.players[i].status # "none" => t.ports[i] # NoPort
  BY <1>2
<1>4. x # Lobby
  BY LANAssumption
<1>5. ASSUME NEW i \in Slots, t.remote[i] # NoLink
      PROVE  t.players[i].status # "none" /\ t.ports[i] = Other(x, t.remote[i])
  <2>1. i \in Ids
    BY DEF Slots
  <2>2. i \notin is /\ t.remote[i] = s.remote[i]
    BY <1>1, <1>2, <1>5, <2>1
  <2> QED  BY <1>2, <1>5, <2>2 DEF Consistent
<1>6. Consistent(x, t)
  BY <1>1, <1>2, <1>3, <1>4, <1>5 DEF Consistent
<1> QED  BY <1>1, <1>2, <1>6 DEF InSession

LEMMA ReadPlayerListKeepsMesh ==
  ASSUME MeshInv, NEW c \in Clients, NEW l, ReadPlayerList(c, l)
  PROVE  MeshInv'
<1> DEFINE s == node[c]
           m == Command(c, l)
           changed == {i \in Slots : ~(/\ m.players[i].status = "client"
                                       /\ m.players[i].machine = s.players[i].machine)}
           cleared == ClearPeers(s, changed)
           ports == [i \in Slots |-> IF i \in changed THEN NoPort ELSE cleared.ports[i]]
           next == [cleared EXCEPT !.players = m.players, !.ports = ports,
                                   !.dialled = @ \ changed, !.listed = TRUE, !.endpoints = FALSE]
           eaten == Consumed(c, l)
           mid == Closed(eaten, c, {s.remote[i] : i \in changed})
<1>1. Arrives(c, l, "list") /\ Has(net, c, l)
  BY DEF ReadPlayerList, Arrives, IsOpen
<1>2. c \in Nodes /\ s \in State /\ Consistent(c, s) /\ InSession(s) /\ EndsOK(net) /\ Running(c)
  BY <1>1, EndFacts
<1>3. /\ \A p : Mild(net, eaten, p)
      /\ m \in Message /\ m.type = "list"
  BY <1>1, <1>2, MildConsumed
<1>4. Become(c, s, eaten) \/ BecomeConnecting(c, next, mid)
  BY DEF ReadPlayerList
<1>5. CASE Become(c, s, eaten)
  BY <1>2, <1>3, <1>5, OwnStepKeepsMesh
<1>6. CASE BecomeConnecting(c, next, mid)
  <2>1. m.players \in [Slots -> Player]
    BY <1>3, MessageKinds
  <2>2. changed \subseteq Slots /\ \A i \in Slots \ changed : m.players[i].status # "none"
    OBVIOUS
  <2> HIDE DEF s, m, changed
  <2>3. cleared.ports = s.ports
    BY <1>2, <2>2, ClearedFacts
  <2>4. /\ ports \in Ports
        /\ \A i \in Slots : ports[i] = IF i \in changed THEN NoPort ELSE s.ports[i]
    <3>1. s.ports \in Ports
      BY <1>2 DEF State
    <3> QED  BY <2>3, <3>1 DEF Ports
  <2>5. /\ next \in State /\ Consistent(c, next) /\ InSession(next)
        /\ next.ports = ports /\ next.id = s.id
    <3>1. next = Replaced(s, changed, m.players, ports, "list")
      BY Zenon DEF Replaced
    <3> HIDE DEF next, ports
    <3>2. \A i \in Slots \ changed : s.remote[i] # NoLink =>
             m.players[i].status # "none" /\ ports[i] = s.ports[i]
      BY <2>2, <2>4
    <3>3. Replaceable(s, changed, m.players, ports, "list")
      BY <2>1, <2>2, <2>4, <3>2 DEF Replaceable
    <3> QED  BY <1>2, <3>1, <3>3, ReplacedIsConsistent
  <2>6. Mild(net, mid, next.ports)
    <3>1. Mild(eaten, mid, next.ports)
      BY <1>3, MildClosed DEF Mild
    <3> QED  BY <1>3, <3>1, MildTrans
  <2> HIDE DEF mid, ports, next
  <2>7. Backed(c, next)
    BY <1>2, <2>4, <2>5, OwnIsBacked DEF s
  <2>8. PICK again \in SUBSET next.dialled :
           LET done == ConnectPeers(next, mid, c, again) IN Become(c, done.s, done.ends)
    BY <1>6 DEF BecomeConnecting
  <2> QED  BY <1>2, <2>5, <2>6, <2>7, <2>8, ConnectingKeepsMesh
<1> QED  BY <1>4, <1>5, <1>6

LEMMA ReadPeerPortsKeepsMesh ==
  ASSUME MeshInv, NEW c \in Clients, NEW l, ReadPeerPorts(c, l)
  PROVE  MeshInv'
<1> DEFINE s == node[c]
           m == Command(c, l)
           changed == {i \in Slots : s.remote[i] # NoLink /\ s.ports[i] # m.ports[i]}
           cleared == ClearPeers(s, changed)
           next == [cleared EXCEPT !.ports = m.ports, !.dialled = @ \ changed, !.endpoints = TRUE]
           eaten == Consumed(c, l)
           mid == Closed(eaten, c, {s.remote[i] : i \in changed})
<1>1. Arrives(c, l, "ports") /\ Has(net, c, l)
  BY DEF ReadPeerPorts, Arrives, IsOpen
<1>2. c \in Nodes /\ s \in State /\ Consistent(c, s) /\ InSession(s) /\ EndsOK(net) /\ Running(c)
  BY <1>1, EndFacts
<1>3. /\ \A p : Mild(net, eaten, p)
      /\ m \in Message /\ m.type = "ports" /\ Carries(net, <<c, l>>, m)
  BY <1>1, <1>2, MildConsumed
<1>4. \/ Become(c, s, eaten)
      \/ /\ BecomeConnecting(c, next, mid)
         /\ \A i \in Slots : s.players[i].status # "none" => m.ports[i] # NoPort
  BY DEF ReadPeerPorts
<1>5. CASE Become(c, s, eaten)
  BY <1>2, <1>3, <1>5, OwnStepKeepsMesh
<1>6. CASE /\ BecomeConnecting(c, next, mid)
           /\ \A i \in Slots : s.players[i].status # "none" => m.ports[i] # NoPort
  <2>1. m.ports \in Ports /\ s.players \in [Slots -> Player]
    BY <1>2, <1>3, MessageKinds DEF State
  <2>2. /\ changed \subseteq Slots
        /\ \A i \in Slots \ changed : s.remote[i] # NoLink =>
              s.players[i].status # "none" /\ m.ports[i] = s.ports[i]
    BY <1>2 DEF Consistent
  <2> HIDE DEF s, changed
  <2>3. cleared \in State /\ cleared.players = s.players
    BY <1>2, <2>2, ClearedFacts
  <2>4. \A y \in Clients : \A i \in Slots : m.ports[i] = y => Claimed(node, net, y, i)
    BY <1>3 DEF Carries, Claimed, Gives
  <2> HIDE DEF m, cleared
  <2>5. next = Replaced(s, changed, s.players, m.ports, "ports")
    BY Zenon DEF Replaced, cleared
  <2> HIDE DEF next
  <2>6. /\ next \in State /\ Consistent(c, next) /\ InSession(next)
        /\ next.ports = m.ports /\ next.id = s.id
    <3>1. \A i \in Slots : s.players[i].status # "none" => m.ports[i] # NoPort
      BY <1>6
    <3>2. Replaceable(s, changed, s.players, m.ports, "ports")
      BY <2>1, <2>2, <3>1 DEF Replaceable
    <3> QED  BY <1>2, <2>5, <3>2, ReplacedIsConsistent
  <2>7. Mild(net, mid, next.ports)
    <3>1. Mild(eaten, mid, next.ports)
      BY <1>3, MildClosed DEF Mild
    <3> QED  BY <1>3, <3>1, MildTrans
  <2> HIDE DEF mid
  <2>8. Backed(c, next)
    BY <2>4, <2>6 DEF Backed, Claimed, s
  <2>9. PICK again \in SUBSET next.dialled :
           LET done == ConnectPeers(next, mid, c, again) IN Become(c, done.s, done.ends)
    BY <1>6 DEF BecomeConnecting
  <2> QED  BY <1>2, <2>6, <2>7, <2>8, <2>9, ConnectingKeepsMesh
<1> QED  BY <1>4, <1>5, <1>6

-----------------------------------------------------------------------------
(* The seats                                                                 *)

\* The lobby's seats, and its count of them, are as they were, or it is gone.
SeatsStay ==
    /\ numPlayers' = numPlayers
    /\ Running(Lobby)' => Running(Lobby) /\ Taken(node'[Lobby]) = Taken(node[Lobby])

LEMMA ClientsKeepSeats ==
  ASSUME MeshInv, NEW c \in Clients, NEW l,
         \/ StartClient(c) \/ Process(c) \/ Dialled(c, l) \/ Accept(c, l)
         \/ ClientInit(c, l) \/ ReadPlayerList(c, l) \/ ReadPeerPorts(c, l)
  PROVE  SeatsStay /\ UNCHANGED <<faults, turns, frames>>
<1>1. Lobby \in Nodes /\ c # Lobby /\ node \in [Nodes -> State]
  BY LobbyLinkFacts DEF MeshInv
<1>2. \A s, ends : Become(c, s, ends) => node'[Lobby] = node[Lobby]
  BY <1>1 DEF Become
<1>3. \A s, ends : BecomeConnecting(c, s, ends) => node'[Lobby] = node[Lobby]
  BY <1>2 DEF BecomeConnecting
<1>4. numPlayers' = numPlayers /\ UNCHANGED <<faults, turns, frames>>
  BY DEF StartClient, Process, Dialled, Accept, ClientInit, ReadPlayerList, ReadPeerPorts, NoBound
<1>5. node'[Lobby] = node[Lobby]
  <2>1. CASE StartClient(c) \/ Process(c)
    BY <1>2, <2>1 DEF StartClient, Process
  <2>2. CASE Dialled(c, l)
    BY <1>2, <1>3, <2>2 DEF Dialled
  <2>3. CASE Accept(c, l)
    BY <1>2, <1>3, <2>3 DEF Accept
  <2>4. CASE ClientInit(c, l)
    BY <1>2, <2>4 DEF ClientInit
  <2>5. CASE ReadPlayerList(c, l) \/ ReadPeerPorts(c, l)
    BY <1>2, <1>3, <2>5 DEF ReadPlayerList, ReadPeerPorts
  <2> QED  BY <2>1, <2>2, <2>3, <2>4, <2>5
<1> QED  BY <1>4, <1>5 DEF SeatsStay, Running

\* A step after which every player has the seats and the phase it had
LEMMA SameSeats ==
  ASSUME MeshInv, NEW x \in Nodes, NEW s, NEW ends, Become(x, s, ends),
         s.players = node[x].players, s.phase = node[x].phase, numPlayers' = numPlayers
  PROVE  SeatsStay
<1>1. node'[Lobby].players = node[Lobby].players /\ node'[Lobby].phase = node[Lobby].phase
  BY LANAssumption DEF MeshInv, Become, Nodes
<1> QED  BY <1>1 DEF SeatsStay, Running, Taken

LEMMA ReadyKeepsSeats ==
  ASSUME MeshInv, NEW x \in Nodes, NEW l, PeerReady(x, l) \/ PeerNotReady(x, l)
  PROVE  SeatsStay /\ UNCHANGED <<faults, turns, frames>>
<1> DEFINE old == node[x]
<1>1. old \in State
  BY DEF MeshInv
<1>2. PICK ready : Become(x, [old EXCEPT !.ready = ready], Consumed(x, l))
  BY DEF PeerReady, PeerNotReady
<1>3. numPlayers' = numPlayers /\ UNCHANGED <<faults, turns, frames>>
  BY DEF PeerReady, PeerNotReady, NoBound
<1> DEFINE s == [old EXCEPT !.ready = ready]
<1>4. s.players = old.players /\ s.phase = old.phase
  <2> HIDE DEF old
  <2> QED  BY <1>1 DEF State
<1> QED  BY <1>2, <1>3, <1>4, SameSeats

LEMMA FrameKeepsSeats ==
  ASSUME MeshInv, NEW x \in Nodes, NEW l, FrameArrives(x, l)
  PROVE  SeatsStay /\ UNCHANGED <<faults, turns, frames>>
<1> DEFINE old == node[x]
<1>1. old \in State
  BY DEF MeshInv
<1>2. PICK rx, ends : Become(x, old, ends) \/ Become(x, [old EXCEPT !.rx = rx], ends)
  BY DEF FrameArrives
<1>3. numPlayers' = numPlayers /\ UNCHANGED <<faults, turns, frames>>
  BY DEF FrameArrives, NoBound
<1> DEFINE s == [old EXCEPT !.rx = rx]
<1>4. s.players = old.players /\ s.phase = old.phase
  <2> HIDE DEF old
  <2> QED  BY <1>1 DEF State
<1> QED  BY <1>2, <1>3, <1>4, SameSeats

LEMMA ReceiveKeepsSeats ==
  ASSUME MeshInv, NEW x \in Nodes, Receive(x) \/ Discard(x)
  PROVE  SeatsStay /\ UNCHANGED <<faults, turns, frames>>
<1> DEFINE old == node[x]
<1>1. old \in State
  BY DEF MeshInv
<1>2. PICK f :
         LET s == [old EXCEPT !.rx = @ \ {f}] IN
         Become(x, s, net) \/ Become(x, [s EXCEPT !.lastId = f.id, !.lastPeer = f.link], net)
  BY DEF Receive, Discard
<1>3. numPlayers' = numPlayers /\ UNCHANGED <<faults, turns, frames>>
  BY DEF Receive, Discard, NoBound
<1> DEFINE s == [old EXCEPT !.rx = @ \ {f}]
           t == [s EXCEPT !.lastId = f.id, !.lastPeer = f.link]
<1>4. /\ s.players = old.players /\ s.phase = old.phase
      /\ t.players = old.players /\ t.phase = old.phase
  <2> HIDE DEF old
  <2> QED  BY <1>1 DEF State
<1>5. Become(x, s, net) \/ Become(x, t, net)
  BY <1>2
<1> HIDE DEF s, t
<1> QED  BY <1>3, <1>4, <1>5, SameSeats

LEMMA GuestKeepsSeats ==
  ASSUME MeshInv, TypeOK, NEW x \in Nodes,
         Begin(x) \/ End(x) \/ \E type \in {"command", "reply"} : Send(x, type)
  PROVE  SeatsStay /\ turns' \in 0..MaxTurns /\ frames' \in 0..MaxFrames /\ faults' = faults
<1> DEFINE old == node[x]
<1>1. old \in State
  BY DEF MeshInv
<1>2. numPlayers' = numPlayers /\ faults' = faults
  BY DEF Begin, End, Turn, Send
<1>3. turns' \in 0..MaxTurns /\ frames' \in 0..MaxFrames
  <2>1. /\ turns' = turns \/ (turns < MaxTurns /\ turns' = turns + 1)
        /\ frames' = frames \/ (frames < MaxFrames /\ frames' = frames + 1)
    BY DEF Begin, End, Turn, Send
  <2>2. turns \in 0..MaxTurns /\ frames \in 0..MaxFrames
    BY DEF TypeOK
  <2> QED  BY <2>1, <2>2, LANAssumption
<1>4. CASE Begin(x)
  <2> DEFINE s == [old EXCEPT !.ready = @ \cup {old.id}, !.lastId = NoId, !.lastPeer = NoLink]
  <2>1. s.players = old.players /\ s.phase = old.phase
    <3> HIDE DEF old
    <3> QED  BY <1>1 DEF State
  <2>2. Become(x, s, Broadcast(net, x, <<[type |-> "ready"]>>))
    BY <1>4 DEF Begin
  <2> HIDE DEF s
  <2> QED  BY <1>2, <1>3, <2>1, <2>2, SameSeats
<1>5. CASE End(x)
  <2> DEFINE s == [old EXCEPT !.ready = @ \ {old.id}]
  <2>1. s.players = old.players /\ s.phase = old.phase
    <3> HIDE DEF old
    <3> QED  BY <1>1 DEF State
  <2>2. Become(x, s, Broadcast(net, x, <<[type |-> "not ready"]>>))
    BY <1>5 DEF End
  <2> HIDE DEF s
  <2> QED  BY <1>2, <1>3, <2>1, <2>2, SameSeats
<1>6. CASE \E type \in {"command", "reply"} : Send(x, type)
  <2>1. PICK ends : Become(x, old, ends)
    BY <1>6 DEF Send
  <2> QED  BY <1>2, <1>3, <2>1, SameSeats
<1> QED  BY <1>4, <1>5, <1>6

LEMMA SeatSeats ==
  ASSUME SessionInv, NEW l, Seat(l)
  PROVE  SeatsAreCounted' /\ numPlayers' \in 0..MaxPlayers /\ UNCHANGED <<faults, turns, frames>>
<1> USE DEF SessionInv
<1> DEFINE s == node[Lobby]
           free == {i \in Slots : s.players[i].status = "none"}
           id == Least(free)
           seated == [s EXCEPT !.players[id] = [status |-> "connecting",
                                                machine |-> Machine[l[1]]],
                               !.ports[id] = l[1],
                               !.remote[id] = l]
<1>1. Has(net, Lobby, l) /\ UNCHANGED <<faults, turns, frames>>
  BY DEF Seat, NoBound
<1>2. /\ l \in Links /\ s \in State /\ Consistent(Lobby, s) /\ Lobby \in Nodes /\ Running(Lobby)
      /\ Lobby \in {l[1], l[2]}
  BY <1>1, EndFacts
<1>3. l[2] = Lobby
  BY <1>2, LinkFacts, LANAssumption
<1>4. numPlayers = 1 + Cardinality(Taken(s)) /\ numPlayers \in 0..MaxPlayers
  BY <1>2 DEF SeatsAreCounted, Taken, TypeOK
<1>5. CASE numPlayers >= MaxPlayers \/ free = {}
  <2>1. Become(Lobby, s, [net EXCEPT ![<<Lobby, l>>].state = "closing"]) /\ numPlayers' = numPlayers
    BY <1>5 DEF Seat
  <2>2. node'[Lobby] = s
    BY <1>2, <2>1 DEF Become, MeshInv
  <2> QED  BY <1>1, <1>2, <1>4, <2>1, <2>2 DEF SeatsAreCounted, Running, Taken
<1>6. CASE ~(numPlayers >= MaxPlayers \/ free = {})
  <2>1. numPlayers' = numPlayers + 1 /\ \E ends : Become(Lobby, seated, ends)
    BY <1>6 DEF Seat
  <2>2. id \in Slots /\ s.players[id].status = "none"
    BY <1>6, LeastIs
  <2>3. seated = SeatedAs(s, l, id)
    BY Zenon DEF SeatedAs
  <2>4. node'[Lobby] = seated
    BY <1>2, <2>1 DEF Become, MeshInv
  <2> HIDE DEF s, id, seated
  <2>5. GivesSeat(s, seated, l[1], id)
    BY <1>2, <1>3, <2>2, <2>3, SeatedIsConsistent
  <2>6. Taken(seated) = Taken(s) \cup {id} /\ id \notin Taken(s)
    BY <2>2, <2>5 DEF Taken, GivesSeat
  <2>7. Cardinality(Taken(seated)) = Cardinality(Taken(s)) + 1
    BY <2>6, TakenIsFinite, FS_AddElement
  <2>8. numPlayers' = 1 + Cardinality(Taken(seated))
    BY <1>4, <2>1, <2>7, TakenIsFinite
  <2>9. numPlayers' \in 0..MaxPlayers
    BY <1>4, <1>6, <2>1, LANAssumption
  <2> QED  BY <1>1, <2>4, <2>8, <2>9 DEF SeatsAreCounted, Taken
<1> QED  BY <1>5, <1>6

LEMMA DisconnectSeats ==
  ASSUME SessionInv, NEW x, NEW l, Disconnect(x, l)
  PROVE  SeatsAreCounted' /\ numPlayers' \in 0..MaxPlayers
<1> USE DEF SessionInv
<1> DEFINE s == node[x]
           owner == OwnerOf(s, l)
           cleared == ClearPeers(s, owner)
           players == [i \in Slots |-> IF i \in owner THEN Empty ELSE cleared.players[i]]
           ports == [i \in Slots |-> IF i \in owner THEN NoPort ELSE cleared.ports[i]]
           left == [cleared EXCEPT !.players = players, !.ports = ports]
<1>1. Has(net, x, l)
  BY DEF Disconnect
<1>2. x \in Nodes /\ s \in State /\ Consistent(x, s) /\ Running(x) /\ Lobby \in Nodes
  BY <1>1, EndFacts DEF Nodes
<1>3. numPlayers \in 0..MaxPlayers
  BY DEF TypeOK
<1>4. CASE owner = {}
  <2>1. Become(x, s, Closed(net, x, {l})) /\ numPlayers' = numPlayers
    BY <1>4 DEF Disconnect
  <2>2. SeatsStay
    BY <1>2, <2>1, SameSeats
  <2> QED  BY <1>3, <2>1, <2>2 DEF SeatsStay, SeatsAreCounted, Taken
<1>5. CASE owner # {} /\ x # Lobby
  <2>1. numPlayers' = numPlayers /\ \E t, ends : Become(x, t, ends)
    BY <1>5 DEF Disconnect, EndSession
  <2>2. node'[Lobby] = node[Lobby]
    BY <1>2, <1>5, <2>1 DEF Become, MeshInv
  <2> QED  BY <1>3, <2>1, <2>2 DEF SeatsAreCounted, Running
<1>6. CASE owner # {} /\ x = Lobby
  <2>1. numPlayers' = numPlayers - 1 /\ \E ends : Become(x, left, ends)
    BY <1>6 DEF Disconnect
  <2>2. node'[Lobby] = left
    BY <1>2, <1>6, <2>1 DEF Become, MeshInv
  <2>3. /\ owner \subseteq Slots /\ \A i, j \in owner : i = j
        /\ \A i \in owner : s.players[i].status # "none"
    BY <1>1, <1>6, OwnerFacts
  <2>4. numPlayers = 1 + Cardinality(Taken(s))
    BY <1>2, <1>6 DEF SeatsAreCounted, Taken
  <2> HIDE DEF s, owner
  <2>5. cleared \in State /\ cleared.players = s.players
    BY <1>2, <2>3, ClearedFacts
  <2> HIDE DEF cleared
  <2>6. \A i \in Slots : players[i] = IF i \in owner THEN Empty ELSE s.players[i]
    BY <2>5
  <2> HIDE DEF players, ports
  <2>7. left.players = players
    BY <2>5 DEF State
  <2> HIDE DEF left
  <2>8. PICK i \in Slots : owner = {i} /\ i \in Taken(s)
    BY <1>6, <2>3 DEF Taken
  <2>9. Taken(left) = Taken(s) \ {i}
    BY <2>6, <2>7, <2>8 DEF Taken, Empty
  <2>10. Cardinality(Taken(left)) = Cardinality(Taken(s)) - 1
    BY <2>8, <2>9, TakenIsFinite, FS_RemoveElement
  <2>11. Cardinality(Taken(s)) \in Nat /\ Cardinality(Taken(left)) \in Nat
    BY TakenIsFinite
  <2>12. numPlayers' = 1 + Cardinality(Taken(left)) /\ numPlayers' \in 0..MaxPlayers
    BY <1>3, <2>1, <2>4, <2>10, <2>11, LANAssumption
  <2> QED  BY <2>2, <2>12 DEF SeatsAreCounted, Taken
<1> QED  BY <1>4, <1>5, <1>6

LEMMA LeaveSeats ==
  ASSUME SessionInv, NEW x \in Nodes, Leave(x)
  PROVE  SeatsAreCounted' /\ numPlayers' \in 0..MaxPlayers
<1>1. node' = [node EXCEPT ![x] = Over] /\ node \in [Nodes -> State] /\ Lobby \in Nodes
  BY DEF Leave, EndSession, Become, SessionInv, MeshInv, Nodes
<1>2. Over.phase = "over"
  BY DEF Over, Idle
<1>3. numPlayers \in 0..MaxPlayers /\ 0 \in 0..MaxPlayers
  BY LANAssumption DEF SessionInv, TypeOK
<1>4. CASE x = Lobby
  BY <1>1, <1>2, <1>3, <1>4 DEF Leave, SeatsAreCounted, Running
<1>5. CASE x # Lobby
  <2>1. node'[Lobby] = node[Lobby] /\ numPlayers' = numPlayers
    BY <1>1, <1>5 DEF Leave
  <2> QED  BY <1>3, <2>1 DEF SessionInv, SeatsAreCounted, Running
<1> QED  BY <1>4, <1>5

LEMMA PlayerInfoSeats ==
  ASSUME SessionInv, NEW l, PlayerInfo(l)
  PROVE  SeatsAreCounted' /\ numPlayers' = numPlayers /\ UNCHANGED <<faults, turns, frames>>
<1>1. Has(net, Lobby, l) /\ numPlayers' = numPlayers /\ UNCHANGED <<faults, turns, frames>>
  BY DEF PlayerInfo, Arrives, IsOpen, NoBound
<1>2. Running(Lobby)
  BY <1>1, EndFacts DEF SessionInv
<1>3. Taken(node'[Lobby]) = Taken(node[Lobby])
  BY <1>2, PlayerInfoKeepsMesh
<1> QED  BY <1>1, <1>2, <1>3 DEF SessionInv, SeatsAreCounted, Taken

-----------------------------------------------------------------------------
(* Every step                                                                *)

LEMMA InitSession == Init => SessionInv
<1> SUFFICES ASSUME Init PROVE SessionInv
  OBVIOUS
<1> DEFINE hosting == [Idle EXCEPT !.phase = "connected", !.id = 0]
<1>1. /\ node = [x \in Nodes |-> IF x = Lobby THEN hosting ELSE Idle]
      /\ net = [e \in {} |-> Opening]
      /\ numPlayers = 1 /\ faults = 0 /\ turns = 0 /\ frames = 0
  BY DEF Init
<1>2. 0 \in Ids /\ Lobby \in Nodes /\ Lobby \notin Clients
  BY LANAssumption DEF Ids, Nodes
<1>3. /\ Idle \in State /\ Idle.phase = "idle" /\ Idle.id = NoId /\ Idle.endpoints = FALSE
      /\ Idle.lastPeer = NoLink /\ Idle.rx = {}
      /\ \A i \in Slots : Idle.players[i] = Empty /\ Idle.ports[i] = NoPort
      /\ \A i \in Ids : Idle.remote[i] = NoLink
  BY DEF Idle, State, Player, Ports, Empty
<1>4. /\ hosting \in State /\ hosting.phase = "connected" /\ hosting.id = 0
      /\ hosting.endpoints = FALSE /\ hosting.lastPeer = NoLink /\ hosting.rx = {}
      /\ hosting.players = Idle.players /\ hosting.ports = Idle.ports
      /\ hosting.remote = Idle.remote
  <2> HIDE DEF Idle
  <2> QED  BY <1>2, <1>3 DEF State
<1> HIDE DEF Idle, hosting
<1>5. \A i \in Slots : i \in Ids /\ i # 0
  BY DEF Slots
<1>6. \A x \in Nodes : node[x] = hosting \/ (x # Lobby /\ node[x] = Idle)
  BY <1>1
<1>7. DOMAIN net = {}
  BY <1>1
<1>8. ASSUME NEW x \in Nodes
      PROVE  node[x] \in State /\ Consistent(x, node[x])
  <2>1. CASE x = Lobby
    BY <1>1, <1>2, <1>3, <1>4, <1>5, <2>1 DEF Consistent, NoId
  <2>2. CASE x # Lobby
    BY <1>1, <1>2, <1>3, <1>5, <2>2 DEF Consistent, NoId
  <2> QED  BY <2>1, <2>2
<1>9. node \in [Nodes -> State]
  BY <1>1, <1>3, <1>4
<1>10. ASSUME NEW y \in Clients, NEW i \in Slots
       PROVE  ~Claimed(node, net, y, i)
  <2>1. y # NoPort /\ y \in Nodes /\ y # Lobby
    BY LANAssumption DEF Nodes
  <2>2. \A x \in Nodes : node[x].ports[i] = NoPort
    BY <1>3, <1>4, <1>6
  <2>3. node[y].id = NoId
    BY <1>1, <1>3, <2>1
  <2>4. NoId # i
    BY DEF NoId, Slots, Ids
  <2> QED  BY <1>7, <2>1, <2>2, <2>3, <2>4 DEF Claimed
<1>11. MeshInv
  BY <1>7, <1>8, <1>9, <1>10
     DEF MeshInv, EndsOK, OneNumber, NoneBefore, DialledOnce, EndsOfRunning, Has
<1>12. TypeOK
  BY <1>1, <1>7, <1>9, LANAssumption DEF TypeOK
<1>13. SeatsAreCounted
  <2>1. Taken(node[Lobby]) = {}
    BY <1>1, <1>2, <1>3, <1>4 DEF Taken, Empty
  <2>2. Cardinality(Taken(node[Lobby])) = 0
    BY <2>1, FS_EmptySet
  <2> QED  BY <1>1, <2>2 DEF SeatsAreCounted, Taken
<1> QED  BY <1>11, <1>12, <1>13 DEF SessionInv

\* What a step has to leave for SessionInv, once the mesh is as it should be
BoundsHold ==
    /\ numPlayers' \in 0..MaxPlayers
    /\ faults' \in 0..MaxFaults /\ turns' \in 0..MaxTurns /\ frames' \in 0..MaxFrames

LEMMA MeshIsSession ==
  ASSUME MeshInv', SeatsAreCounted', BoundsHold
  PROVE  SessionInv'
<1>1. TypeOK'
  BY DEF MeshInv, EndsOK, TypeOK, BoundsHold
<1> QED  BY <1>1 DEF SessionInv

LEMMA SeatsStaying ==
  ASSUME SessionInv, SeatsStay
  PROVE  SeatsAreCounted' /\ numPlayers' \in 0..MaxPlayers
BY DEF SessionInv, TypeOK, SeatsStay, SeatsAreCounted, Taken, Running

LEMMA SameBounds ==
  ASSUME SessionInv, UNCHANGED <<faults, turns, frames>>, numPlayers' \in 0..MaxPlayers
  PROVE  BoundsHold
BY DEF SessionInv, TypeOK, BoundsHold

LEMMA FaultBounds ==
  ASSUME SessionInv, numPlayers' \in 0..MaxPlayers, UNCHANGED <<turns, frames>>,
         UNCHANGED faults \/ (faults < MaxFaults /\ faults' = faults + 1)
  PROVE  BoundsHold
BY LANAssumption DEF SessionInv, TypeOK, BoundsHold

LEMMA QuietStep ==
  ASSUME SessionInv, MeshInv', SeatsStay, UNCHANGED <<faults, turns, frames>>
  PROVE  SessionInv'
BY SeatsStaying, SameBounds, MeshIsSession

LEMMA EventKeeps ==
  ASSUME SessionInv, NEW x \in Nodes, NEW l \in Links, Event(x, l)
  PROVE  SessionInv'
<1>0. MeshInv
  BY DEF SessionInv
<1>1. CASE x \in Clients /\ Dialled(x, l)
  <2>1. MeshInv'
    BY <1>0, <1>1, DialledClientKeepsMesh, DialledLobbyKeepsMesh
  <2>2. SeatsStay /\ UNCHANGED <<faults, turns, frames>>
    BY <1>0, <1>1, ClientsKeepSeats
  <2> QED  BY <2>1, <2>2, QuietStep
<1>2. CASE x \in Clients /\ Accept(x, l)
  <2>1. MeshInv'
    BY <1>0, <1>2, AcceptKeepsMesh
  <2>2. SeatsStay /\ UNCHANGED <<faults, turns, frames>>
    BY <1>0, <1>2, ClientsKeepSeats
  <2> QED  BY <2>1, <2>2, QuietStep
<1>3. CASE x \in Clients /\ ClientInit(x, l)
  <2>1. MeshInv'
    BY <1>0, <1>3, ClientInitKeepsMesh
  <2>2. SeatsStay /\ UNCHANGED <<faults, turns, frames>>
    BY <1>0, <1>3, ClientsKeepSeats
  <2> QED  BY <2>1, <2>2, QuietStep
<1>4. CASE x \in Clients /\ ReadPlayerList(x, l)
  <2>1. MeshInv'
    BY <1>0, <1>4, ReadPlayerListKeepsMesh
  <2>2. SeatsStay /\ UNCHANGED <<faults, turns, frames>>
    BY <1>0, <1>4, ClientsKeepSeats
  <2> QED  BY <2>1, <2>2, QuietStep
<1>5. CASE x \in Clients /\ ReadPeerPorts(x, l)
  <2>1. MeshInv'
    BY <1>0, <1>5, ReadPeerPortsKeepsMesh
  <2>2. SeatsStay /\ UNCHANGED <<faults, turns, frames>>
    BY <1>0, <1>5, ClientsKeepSeats
  <2> QED  BY <2>1, <2>2, QuietStep
<1>6. CASE Seat(l)
  <2>1. MeshInv'
    BY <1>0, <1>6, SeatKeepsMesh
  <2>2. SeatsAreCounted' /\ numPlayers' \in 0..MaxPlayers /\ UNCHANGED <<faults, turns, frames>>
    BY <1>6, SeatSeats
  <2> QED  BY <2>1, <2>2, SameBounds, MeshIsSession
<1>7. CASE PlayerInfo(l)
  <2>1. MeshInv'
    BY <1>7, PlayerInfoKeepsMesh
  <2>2. SeatsAreCounted' /\ numPlayers' = numPlayers /\ UNCHANGED <<faults, turns, frames>>
    BY <1>7, PlayerInfoSeats
  <2>3. numPlayers' \in 0..MaxPlayers
    BY <2>2 DEF SessionInv, TypeOK
  <2> QED  BY <2>1, <2>2, <2>3, SameBounds, MeshIsSession
<1>8. CASE PeerReady(x, l) \/ PeerNotReady(x, l)
  <2>1. MeshInv'
    BY <1>0, <1>8, ReadyKeepsMesh
  <2>2. SeatsStay /\ UNCHANGED <<faults, turns, frames>>
    BY <1>0, <1>8, ReadyKeepsSeats
  <2> QED  BY <2>1, <2>2, QuietStep
<1>9. CASE Disconnect(x, l)
  <2>1. MeshInv'
    BY <1>9, DisconnectKeepsMesh
  <2>2. SeatsAreCounted' /\ numPlayers' \in 0..MaxPlayers
    BY <1>9, DisconnectSeats
  <2>3. /\ UNCHANGED <<turns, frames>>
        /\ UNCHANGED faults \/ (faults < MaxFaults /\ faults' = faults + 1)
    BY <1>9 DEF Disconnect
  <2> QED  BY <2>1, <2>2, <2>3, FaultBounds, MeshIsSession
<1> QED  BY <1>1, <1>2, <1>3, <1>4, <1>5, <1>6, <1>7, <1>8, <1>9 DEF Event

LEMMA NextKeeps ==
  ASSUME SessionInv, [Next]_vars
  PROVE  SessionInv'
<1>0. MeshInv
  BY DEF SessionInv
<1>1. CASE \E x \in Nodes, l \in Links : Event(x, l)
  BY <1>1, EventKeeps
<1>2. ASSUME NEW x \in Nodes, NEW l \in Links, FrameArrives(x, l)
      PROVE  SessionInv'
  <2>1. MeshInv'
    BY <1>0, <1>2, FrameArrivesKeepsMesh
  <2>2. SeatsStay /\ UNCHANGED <<faults, turns, frames>>
    BY <1>0, <1>2, FrameKeepsSeats
  <2> QED  BY <2>1, <2>2, QuietStep
<1>3. ASSUME NEW c \in Clients, StartClient(c) \/ Process(c)
      PROVE  SessionInv'
  <2>1. MeshInv'
    BY <1>0, <1>3, StartKeepsMesh, ProcessKeepsMesh
  <2>2. SeatsStay /\ UNCHANGED <<faults, turns, frames>>
    BY <1>0, <1>3, ClientsKeepSeats
  <2> QED  BY <2>1, <2>2, QuietStep
<1>4. ASSUME NEW x \in Nodes, Leave(x)
      PROVE  SessionInv'
  <2>1. MeshInv'
    BY <1>0, <1>4, EndSessionKeepsMesh DEF Leave
  <2>2. SeatsAreCounted' /\ numPlayers' \in 0..MaxPlayers
    BY <1>4, LeaveSeats
  <2>3. UNCHANGED <<turns, frames>> /\ faults < MaxFaults /\ faults' = faults + 1
    BY <1>4 DEF Leave
  <2> QED  BY <2>1, <2>2, <2>3, FaultBounds, MeshIsSession
<1>5. ASSUME NEW x \in Nodes,
             Begin(x) \/ End(x) \/ \E type \in {"command", "reply"} : Send(x, type)
      PROVE  SessionInv'
  <2>1. MeshInv'
    BY <1>0, <1>5, GuestKeepsMesh
  <2>2. SeatsStay /\ turns' \in 0..MaxTurns /\ frames' \in 0..MaxFrames /\ faults' = faults
    BY <1>0, <1>5, GuestKeepsSeats DEF SessionInv
  <2>3. SeatsAreCounted' /\ BoundsHold
    BY <2>2, SeatsStaying DEF BoundsHold, SessionInv, TypeOK
  <2> QED  BY <2>1, <2>3, MeshIsSession
<1>6. ASSUME NEW x \in Nodes, Receive(x) \/ Discard(x)
      PROVE  SessionInv'
  <2>1. MeshInv'
    BY <1>0, <1>6, ReceiveKeepsMesh
  <2>2. SeatsStay /\ UNCHANGED <<faults, turns, frames>>
    BY <1>0, <1>6, ReceiveKeepsSeats
  <2> QED  BY <2>1, <2>2, QuietStep
<1>7. CASE UNCHANGED vars
  BY <1>7 DEF vars, SessionInv, MeshInv, TypeOK, SeatsAreCounted, EndsOK, OneNumber, NoneBefore,
             DialledOnce, EndsOfRunning, Running
<1> QED  BY <1>1, <1>2, <1>3, <1>4, <1>5, <1>6, <1>7 DEF Next

LEMMA SessionAlways == Spec => []SessionInv
BY InitSession, NextKeeps, PTL DEF Spec

-----------------------------------------------------------------------------
(* Readiness: what a player knows of its peers                               *)

Owns(s, l) == OwnerOf(s, l) # {}
Marked(s, l) == OwnerOf(s, l) \cap s.ready # {}
Vocal(s) == s.id \in s.ready

\* What the commands under way say of their sender's readiness: the last word.
Words == {"ready", "not ready"}
Said(box) == {n \in DOMAIN box : box[n].type \in Words}
LastSays(box) == \E n \in Said(box) : box[n].type = "ready" /\ \A m \in Said(box) : m <= n
Hears(s, box, l) == IF Said(box) = {} THEN Marked(s, l) ELSE LastSays(box)

\* The lobby gives, or gave, number i to the client of this link.
Given(nodes, ends, l, i) ==
    \/ nodes[l[1]].id = i
    \/ nodes[Lobby].remote[i] = l
    \/ \E n \in DOMAIN ends[<<l[1], l>>].inbox :
          /\ ends[<<l[1], l>>].inbox[n].type = "init"
          /\ ends[<<l[1], l>>].inbox[n].id = i

\* An end that is open belongs to somebody's number, and a number has its end;
\* whoever is dialled has no number for the link before it accepts.
EndOwned(nodes, ends, z, l) ==
    /\ IsOpen(ends, z, l) => Owns(nodes[z], l)
    /\ Owns(nodes[z], l) => Has(ends, z, l)
    /\ z = l[2] => ~(Owns(nodes[z], l) /\ IsOpening(ends, z, l))

\* What z will have heard over l is what the other end, once open, is.
EndHears(nodes, ends, z, l) ==
    Has(ends, z, l) /\ IsOpen(ends, Other(z, l), l) =>
        (Hears(nodes[z], ends[<<z, l>>].inbox, l) <=> Vocal(nodes[Other(z, l)]))

\* The end that was dialled appears when the other one opens, and says nothing
\* before it opens itself.
EndsInOrder(nodes, ends, l) ==
    /\ Has(ends, l[2], l) => ~IsOpening(ends, l[1], l)
    /\ Has(ends, l[1], l) /\ (IsOpening(ends, l[1], l) \/ IsOpening(ends, l[2], l)) =>
          ends[<<l[1], l>>].inbox = <<>> /\ ~Marked(nodes[l[1]], l)

\* The lists on the way to a client have it on its machine.
ListsFit(nodes, ends, l) ==
    l[2] = Lobby /\ Has(ends, l[1], l) =>
        \A n \in DOMAIN ends[<<l[1], l>>].inbox :
            ends[<<l[1], l>>].inbox[n].type = "list" =>
                \A i \in Slots : Given(nodes, ends, l, i) =>
                    ends[<<l[1], l>>].inbox[n].players[i].machine = Machine[l[1]]

Spoken(nodes, ends, l) ==
    /\ \A z \in {l[1], l[2]} : EndOwned(nodes, ends, z, l) /\ EndHears(nodes, ends, z, l)
    /\ EndsInOrder(nodes, ends, l)
LinkOK(nodes, ends, l) == Spoken(nodes, ends, l) /\ ListsFit(nodes, ends, l)
LinksOK(nodes, ends) == \A l \in Links : LinkOK(nodes, ends, l)

\* What a player's own state has to satisfy.
Attentive(x, s) ==
    /\ s.id \in Ids => s.remote[s.id] = NoLink
    /\ \A i \in s.ready : i = s.id \/ s.remote[i] # NoLink
    /\ Vocal(s) => s.phase = "connected"
    /\ IF x = Lobby
       THEN /\ s.id \notin Slots
            /\ \A i \in Slots : s.players[i].status # "none" =>
                  s.ports[i] \in Clients /\ s.players[i].machine = Machine[s.ports[i]]
       ELSE /\ s.id = NoId => \A i \in Slots : s.players[i].status = "none"
            /\ \A i \in Slots : s.remote[i] # NoLink => s.players[i].status = "client"
            /\ s.phase = "connected" => s.listed
            /\ s.listed => s.id # NoId /\ s.players[s.id].machine = Machine[x]

ReadyInv == LinksOK(node, net) /\ \A x \in Nodes : Attentive(x, node[x])

-----------------------------------------------------------------------------
(* What an inbox says                                                        *)

\* Two inboxes say the same of their sender's readiness.
SaysAlike(box, new) ==
    /\ Said(box) = {} <=> Said(new) = {}
    /\ LastSays(box) <=> LastSays(new)

LEMMA AppendedFacts ==
  ASSUME NEW box \in Seq(Message), NEW cmds \in Seq(Message), NEW new, new = box \o cmds
  PROVE  /\ DOMAIN box = 1..Len(box) /\ Len(box) \in Nat
         /\ DOMAIN new = 1..(Len(box) + Len(cmds)) /\ DOMAIN cmds = 1..Len(cmds) /\ Len(cmds) \in Nat
         /\ \A n \in DOMAIN new : \/ n \in DOMAIN box /\ new[n] = box[n]
                                  \/ n - Len(box) \in DOMAIN cmds /\ new[n] = cmds[n - Len(box)]
         /\ \A n \in DOMAIN box : n \in DOMAIN new /\ new[n] = box[n]
OBVIOUS

LEMMA AppendedIsAlike ==
  ASSUME NEW box \in Seq(Message), NEW cmds \in Seq(Message),
         \A n \in DOMAIN cmds : cmds[n].type \notin Words
  PROVE  SaysAlike(box, box \o cmds)
<1> DEFINE new == box \o cmds
<1>1. /\ DOMAIN box = 1..Len(box) /\ Len(box) \in Nat
      /\ DOMAIN new = 1..(Len(box) + Len(cmds)) /\ DOMAIN cmds = 1..Len(cmds) /\ Len(cmds) \in Nat
      /\ \A n \in DOMAIN new : \/ n \in DOMAIN box /\ new[n] = box[n]
                               \/ n - Len(box) \in DOMAIN cmds /\ new[n] = cmds[n - Len(box)]
      /\ \A n \in DOMAIN box : n \in DOMAIN new /\ new[n] = box[n]
  BY AppendedFacts
<1> HIDE DEF new
<1>2. Said(new) = Said(box) /\ \A n \in Said(box) : new[n] = box[n]
  BY <1>1 DEF Said
<1>3. LastSays(box) <=> LastSays(new)
  BY <1>2 DEF LastSays
<1> QED  BY <1>1, <1>2, <1>3 DEF SaysAlike, new

LEMMA AppendedWord ==
  ASSUME NEW box \in Seq(Message), NEW type \in Words
  PROVE  LET new == box \o <<[type |-> type]>> IN
         /\ Said(new) # {}
         /\ LastSays(new) <=> type = "ready"
<1> DEFINE m == [type |-> type]
           new == box \o <<m>>
           last == Len(box) + 1
<1>0. m \in Message /\ m.type = type
  BY DEF Message, Words
<1> HIDE DEF m
<1>1. /\ DOMAIN box = 1..Len(box) /\ Len(box) \in Nat
      /\ DOMAIN new = 1..last
      /\ new[last] = m
      /\ \A n \in DOMAIN box : n \in DOMAIN new /\ new[n] = box[n]
  BY <1>0
<1> HIDE DEF new
<1>2. last \in Said(new) /\ \A n \in Said(new) : n <= last /\ n \in Int
  BY <1>0, <1>1 DEF Said
<1>3. LastSays(new) <=> type = "ready"
  BY <1>0, <1>1, <1>2 DEF LastSays
<1> QED  BY <1>2, <1>3 DEF new, m

LEMMA TailFacts ==
  ASSUME NEW box \in Seq(Message), box # <<>>
  PROVE  /\ Len(box) \in Nat \ {0} /\ DOMAIN box = 1..Len(box)
         /\ box[1] = Head(box) /\ Head(box) \in Message /\ Tail(box) \in Seq(Message)
         /\ DOMAIN Tail(box) = 1..(Len(box) - 1)
         /\ \A n \in DOMAIN Tail(box) : n + 1 \in DOMAIN box /\ Tail(box)[n] = box[n + 1]
OBVIOUS

LEMMA TailIsAlike ==
  ASSUME NEW box \in Seq(Message), box # <<>>, Head(box).type \notin Words
  PROVE  SaysAlike(box, Tail(box))
<1> DEFINE new == Tail(box)
<1>1. /\ Len(box) \in Nat \ {0} /\ DOMAIN box = 1..Len(box)
      /\ box[1] = Head(box) /\ DOMAIN new = 1..(Len(box) - 1)
      /\ \A n \in DOMAIN new : n + 1 \in DOMAIN box /\ new[n] = box[n + 1]
  BY TailFacts
<1> HIDE DEF new
<1>2. \A n \in DOMAIN box : n = 1 \/ (n - 1 \in DOMAIN new /\ new[n - 1] = box[n] /\ n \in Int)
  <2> SUFFICES ASSUME NEW n \in DOMAIN box, n # 1
               PROVE  n - 1 \in DOMAIN new /\ new[n - 1] = box[n] /\ n \in Int
    OBVIOUS
  <2>1. n - 1 \in DOMAIN new /\ (n - 1) + 1 = n /\ n \in Int
    BY <1>1
  <2> QED  BY <1>1, <2>1
<1>3. 1 \notin Said(box)
  BY <1>1 DEF Said
<1>4. \A n : n \in Said(box) => n - 1 \in Said(new) /\ new[n - 1] = box[n] /\ n \in Int
  BY <1>2, <1>3 DEF Said
<1>5. \A n : n \in Said(new) => n + 1 \in Said(box) /\ new[n] = box[n + 1] /\ n \in Int
  BY <1>1 DEF Said
<1>6. LastSays(box) <=> LastSays(new)
  <2>1. ASSUME NEW n \in Said(box), box[n].type = "ready", \A m \in Said(box) : m <= n
        PROVE  LastSays(new)
    <3>1. n - 1 \in Said(new) /\ new[n - 1].type = "ready"
      BY <1>4, <2>1
    <3>2. \A m \in Said(new) : m <= n - 1
      BY <1>4, <1>5, <2>1
    <3> QED  BY <3>1, <3>2 DEF LastSays
  <2>2. ASSUME NEW n \in Said(new), new[n].type = "ready", \A m \in Said(new) : m <= n
        PROVE  LastSays(box)
    <3>1. n + 1 \in Said(box) /\ box[n + 1].type = "ready"
      BY <1>5, <2>2
    <3>2. \A m \in Said(box) : m <= n + 1
      BY <1>4, <1>5, <2>2
    <3> QED  BY <3>1, <3>2 DEF LastSays
  <2> QED  BY <2>1, <2>2 DEF LastSays
<1> QED  BY <1>1, <1>4, <1>5, <1>6 DEF SaysAlike, new

LEMMA HeadSaid ==
  ASSUME NEW box \in Seq(Message), box # <<>>, Head(box).type \in Words
  PROVE  /\ Said(box) # {}
         /\ IF Said(Tail(box)) = {} THEN LastSays(box) <=> Head(box).type = "ready"
            ELSE LastSays(box) <=> LastSays(Tail(box))
<1> DEFINE new == Tail(box)
<1>1. /\ Len(box) \in Nat \ {0} /\ DOMAIN box = 1..Len(box)
      /\ box[1] = Head(box) /\ DOMAIN new = 1..(Len(box) - 1)
      /\ \A n \in DOMAIN new : n + 1 \in DOMAIN box /\ new[n] = box[n + 1]
  BY TailFacts
<1> HIDE DEF new
<1>2. \A n \in DOMAIN box : n = 1 \/ (n - 1 \in DOMAIN new /\ new[n - 1] = box[n] /\ n \in Int)
  <2> SUFFICES ASSUME NEW n \in DOMAIN box, n # 1
               PROVE  n - 1 \in DOMAIN new /\ new[n - 1] = box[n] /\ n \in Int
    OBVIOUS
  <2>1. n - 1 \in DOMAIN new /\ (n - 1) + 1 = n /\ n \in Int
    BY <1>1
  <2> QED  BY <1>1, <2>1
<1>3. 1 \in Said(box)
  BY <1>1 DEF Said
<1>4. \A n : n \in Said(box) => n = 1 \/ (n - 1 \in Said(new) /\ new[n - 1] = box[n] /\ n \in Int)
  BY <1>2 DEF Said
<1>5. \A n : n \in Said(new) => /\ n + 1 \in Said(box) /\ new[n] = box[n + 1] /\ n \in Int /\ n >= 1
  BY <1>1 DEF Said
<1>6. ASSUME Said(new) = {}
      PROVE  LastSays(box) <=> Head(box).type = "ready"
  <2>1. \A n \in Said(box) : n = 1
    BY <1>4, <1>6
  <2> QED  BY <1>1, <1>3, <2>1 DEF LastSays
<1>7. ASSUME Said(new) # {}
      PROVE  LastSays(box) <=> LastSays(new)
  <2>1. ASSUME NEW n \in Said(box), box[n].type = "ready", \A m \in Said(box) : m <= n
        PROVE  LastSays(new)
    <3>1. n # 1
      BY <1>5, <1>7, <2>1
    <3>2. n - 1 \in Said(new) /\ new[n - 1].type = "ready" /\ n \in Int
      BY <1>4, <2>1, <3>1
    <3>3. \A m \in Said(new) : m <= n - 1
      BY <1>5, <2>1, <3>2
    <3> QED  BY <3>2, <3>3 DEF LastSays
  <2>2. ASSUME NEW n \in Said(new), new[n].type = "ready", \A m \in Said(new) : m <= n
        PROVE  LastSays(box)
    <3>1. n + 1 \in Said(box) /\ box[n + 1].type = "ready" /\ n \in Int /\ n >= 1
      BY <1>5, <2>2
    <3>2. \A m \in Said(box) : m <= n + 1
      BY <1>4, <2>2, <3>1
    <3> QED  BY <3>1, <3>2 DEF LastSays
  <2> QED  BY <2>1, <2>2 DEF LastSays
<1> QED  BY <1>3, <1>6, <1>7 DEF new

-----------------------------------------------------------------------------
(* What a step does to the ends of a link                                    *)

\* Nothing happens at this end that its player could hear: it may go, or start
\* to; only an end that hears an open one gets commands.
EndKept(ends, new, z, l) ==
    Has(new, z, l) =>
        /\ Has(ends, z, l)
        /\ new[<<z, l>>].state \in {ends[<<z, l>>].state, "closing"}
        /\ SaysAlike(ends[<<z, l>>].inbox, new[<<z, l>>].inbox)
        /\ ends[<<z, l>>].inbox = <<>> =>
              new[<<z, l>>].inbox = <<>> \/ IsOpen(ends, Other(z, l), l)
NoNews(ends, new, z, l) ==
    Has(new, z, l) =>
        \A n \in DOMAIN new[<<z, l>>].inbox :
            new[<<z, l>>].inbox[n].type \in {"init", "list"} =>
                Carries(ends, <<z, l>>, new[<<z, l>>].inbox[n])
SameEnd(ends, new, z, l) ==
    /\ Has(new, z, l) <=> Has(ends, z, l)
    /\ Has(ends, z, l) => new[<<z, l>>] = ends[<<z, l>>]

\* Quiet for a link, and no touch of it
Silent(ends, new, l) == \A z \in {l[1], l[2]} : EndKept(ends, new, z, l)
Quiet(ends, new, l) ==
    Silent(ends, new, l) /\ \A z \in {l[1], l[2]} : NoNews(ends, new, z, l)
Apart(ends, new, l) == \A z \in {l[1], l[2]} : SameEnd(ends, new, z, l)

LEMMA SameIsKept ==
  ASSUME NEW ends, NEW new, NEW z, NEW l, SameEnd(ends, new, z, l)
  PROVE  EndKept(ends, new, z, l) /\ NoNews(ends, new, z, l)
BY DEF SameEnd, EndKept, NoNews, SaysAlike, Carries, Has

LEMMA ApartIsQuiet ==
  ASSUME NEW ends, NEW new, NEW l, Apart(ends, new, l)
  PROVE  Quiet(ends, new, l)
BY SameIsKept DEF Apart, Quiet, Silent

LEMMA QuietTrans ==
  ASSUME NEW a, NEW b, NEW c, NEW l \in Links, Silent(a, b, l), Silent(b, c, l)
  PROVE  /\ Silent(a, c, l)
         /\ Quiet(a, b, l) /\ Quiet(b, c, l) => Quiet(a, c, l)
<1>1. Other(l[1], l) = l[2] /\ Other(l[2], l) = l[1]
  BY LinkFacts
<1>2. ASSUME NEW z \in {l[1], l[2]}
      PROVE  EndKept(a, c, z, l)
  <2> SUFFICES ASSUME Has(c, z, l)
               PROVE  /\ Has(a, z, l)
                      /\ c[<<z, l>>].state \in {a[<<z, l>>].state, "closing"}
                      /\ SaysAlike(a[<<z, l>>].inbox, c[<<z, l>>].inbox)
                      /\ a[<<z, l>>].inbox = <<>> =>
                            c[<<z, l>>].inbox = <<>> \/ IsOpen(a, Other(z, l), l)
    BY DEF EndKept
  <2>1. IsOpen(b, Other(z, l), l) => IsOpen(a, Other(z, l), l)
    BY <1>1 DEF Silent, EndKept, IsOpen
  <2> QED  BY <2>1 DEF Silent, EndKept, SaysAlike
<1>3. ASSUME Quiet(a, b, l), Quiet(b, c, l), NEW z \in {l[1], l[2]}
      PROVE  NoNews(a, c, z, l)
  BY <1>3 DEF Quiet, Silent, EndKept, NoNews, Carries, Has
<1> QED  BY <1>2, <1>3 DEF Quiet, Silent

LEMMA ClosedEnds ==
  ASSUME NEW ends, NEW x, NEW ls, NEW l
  PROVE  /\ Quiet(ends, Closed(ends, x, ls), l)
         /\ \A z : /\ Has(Closed(ends, x, ls), z, l) <=> Has(ends, z, l) /\ ~(z = x /\ l \in ls)
                   /\ Has(Closed(ends, x, ls), z, l) =>
                         Closed(ends, x, ls)[<<z, l>>] = ends[<<z, l>>]
<1> DEFINE new == Closed(ends, x, ls)
<1>1. \A z : /\ Has(new, z, l) <=> Has(ends, z, l) /\ ~(z = x /\ l \in ls)
             /\ Has(new, z, l) => new[<<z, l>>] = ends[<<z, l>>]
  BY DEF Closed, Restricted, Has
<1> HIDE DEF new
<1>2. Quiet(ends, new, l)
  BY <1>1 DEF Quiet, Silent, EndKept, NoNews, SaysAlike, Carries, Has
<1> QED  BY <1>1, <1>2 DEF new

\* The end of m at x becomes end, and no other end changes.
Sets(ends, new, x, m, end) ==
    /\ <<x, m>> \in DOMAIN ends /\ DOMAIN new = DOMAIN ends
    /\ new[<<x, m>>] = end
    /\ \A e \in DOMAIN ends : e # <<x, m>> => new[e] = ends[e]

LEMMA SetEnd ==
  ASSUME NEW ends, NEW new, NEW x, NEW m, NEW end, Sets(ends, new, x, m, end), NEW z, NEW l
  PROVE  /\ Has(new, z, l) <=> Has(ends, z, l)
         /\ z # x \/ l # m => SameEnd(ends, new, z, l)
BY DEF Has, SameEnd, Sets

LEMMA SetEndIsQuiet ==
  ASSUME NEW ends, NEW new, NEW x, NEW m, NEW end, Sets(ends, new, x, m, end),
         end.state \in {ends[<<x, m>>].state, "closing"},
         SaysAlike(ends[<<x, m>>].inbox, end.inbox),
         ends[<<x, m>>].inbox = <<>> => end.inbox = <<>>,
         \A n \in DOMAIN end.inbox : Carries(ends, <<x, m>>, end.inbox[n]),
         NEW l
  PROVE  Quiet(ends, new, l)
<1>1. ASSUME NEW z \in {l[1], l[2]}
      PROVE  EndKept(ends, new, z, l) /\ NoNews(ends, new, z, l)
  <2>1. CASE z = x /\ l = m
    BY <2>1 DEF EndKept, NoNews, Sets, Has
  <2>2. CASE z # x \/ l # m
    BY <2>2, SetEnd, SameIsKept
  <2> QED  BY <2>1, <2>2
<1> QED  BY <1>1 DEF Quiet, Silent

\* An end closes, or hears of frames only.
LEMMA MarkIsQuiet ==
  ASSUME NEW ends, EndsOK(ends), NEW x, NEW m, <<x, m>> \in DOMAIN ends, NEW air, NEW new,
         new \in {[ends EXCEPT ![<<x, m>>].state = "closing"],
                  [ends EXCEPT ![<<x, m>>].air = air]},
         NEW l
  PROVE  Quiet(ends, new, l) /\ \A z : Has(new, z, l) <=> Has(ends, z, l)
<1> DEFINE old == ends[<<x, m>>]
           shut == [old EXCEPT !.state = "closing"]
           aired == [old EXCEPT !.air = air]
           box == old.inbox
<1>1. old \in LinkEnd
  BY DEF EndsOK
<1>2. PICK end \in {shut, aired} : Sets(ends, new, x, m, end)
  BY DEF Sets
<1> HIDE DEF old
<1>3. end.inbox = box /\ end.state \in {old.state, "closing"}
  BY <1>1, <1>2 DEF LinkEnd
<1> HIDE DEF shut, aired
<1>4. SaysAlike(box, box) /\ \A n \in DOMAIN box : Carries(ends, <<x, m>>, box[n])
  BY DEF SaysAlike, Carries, old
<1> QED  BY <1>2, <1>3, <1>4, SetEnd, SetEndIsQuiet DEF old

LEMMA ConsumedEnds ==
  ASSUME EndsOK(net), NEW x, NEW m, NEW type, Arrives(x, m, type), NEW l
  PROVE  /\ \A z : Has(Consumed(x, m), z, l) <=> Has(net, z, l)
         /\ \A z : z # x \/ l # m => SameEnd(net, Consumed(x, m), z, l)
         /\ l = m => /\ Consumed(x, m)[<<x, l>>].state = net[<<x, l>>].state
                     /\ Consumed(x, m)[<<x, l>>].inbox = Tail(net[<<x, l>>].inbox)
         /\ \A z : NoNews(net, Consumed(x, m), z, l)
         /\ type \notin Words => Quiet(net, Consumed(x, m), l)
<1> DEFINE old == net[<<x, m>>]
           box == old.inbox
           end == [old EXCEPT !.inbox = Tail(box)]
           new == Consumed(x, m)
<1>1. <<x, m>> \in DOMAIN net /\ box # <<>> /\ Head(box).type = type /\ old \in LinkEnd
  BY DEF Arrives, IsOpen, Has, EndsOK
<1>2. box \in Seq(Message)
  BY <1>1 DEF LinkEnd
<1>3. Sets(net, new, x, m, end)
  BY <1>1 DEF Consumed, Sets
<1> HIDE DEF old, new
<1>4. end.state = old.state /\ end.inbox = Tail(box)
  BY <1>1 DEF LinkEnd
<1> HIDE DEF end
<1>5. /\ \A z : Has(new, z, l) <=> Has(net, z, l)
      /\ new[<<x, m>>] = end
      /\ \A z : z # x \/ l # m => SameEnd(net, new, z, l)
  BY <1>3, SetEnd DEF Sets
<1>6. \A n \in DOMAIN Tail(box) : Carries(net, <<x, m>>, Tail(box)[n])
  <2> HIDE DEF box
  <2>1. \A n \in DOMAIN Tail(box) : n + 1 \in DOMAIN box /\ Tail(box)[n] = box[n + 1]
    BY <1>1, <1>2, TailFacts
  <2> QED  BY <1>1, <2>1 DEF Carries, box, old
<1>7. ASSUME NEW z
      PROVE  NoNews(net, new, z, l)
  <2>1. CASE z = x /\ l = m
    BY <1>4, <1>5, <1>6, <2>1 DEF NoNews
  <2>2. CASE ~(z = x /\ l = m)
    BY <1>5, <2>2, SameIsKept
  <2> QED  BY <2>1, <2>2
<1>8. ASSUME type \notin Words
      PROVE  Quiet(net, new, l)
  <2>1. SaysAlike(box, Tail(box))
    <3> HIDE DEF box
    <3> QED  BY <1>1, <1>2, <1>8, TailIsAlike
  <2> QED  BY <1>1, <1>3, <1>4, <1>6, <2>1, SetEndIsQuiet DEF old
<1> QED  BY <1>4, <1>5, <1>7, <1>8 DEF new, old

\* Who is sent commands: everybody else on these links, once x has opened them.
Reached(ends, x, ls, z, l) == z # x /\ l \in ls /\ IsOpen(ends, x, l)

LEMMA SentEnds ==
  ASSUME NEW ends, EndsOK(ends), NEW x, NEW ls, NEW cmds, NEW new,
         new = Sent(ends, x, ls, cmds), NEW z, NEW l
  PROVE  /\ Has(new, z, l) <=> Has(ends, z, l)
         /\ Has(ends, z, l) => new[<<z, l>>].state = ends[<<z, l>>].state
         /\ Reached(ends, x, ls, z, l) /\ Has(ends, z, l) =>
               new[<<z, l>>].inbox = ends[<<z, l>>].inbox \o cmds
         /\ ~Reached(ends, x, ls, z, l) => SameEnd(ends, new, z, l)
<1> DEFINE e == <<z, l>>
           old == ends[e]
<1>1. Has(new, z, l) <=> Has(ends, z, l)
  BY DEF Sent, Has
<1>2. ASSUME Has(ends, z, l)
      PROVE  new[e] = IF Reached(ends, x, ls, z, l) THEN [old EXCEPT !.inbox = @ \o cmds] ELSE old
  BY <1>2 DEF Sent, Has, Reached
<1>3. ASSUME Has(ends, z, l)
      PROVE  old \in LinkEnd
  BY <1>3 DEF EndsOK, Has
<1> HIDE DEF old
<1>4. ASSUME Has(ends, z, l)
      PROVE  [old EXCEPT !.inbox = @ \o cmds].state = old.state
             /\ [old EXCEPT !.inbox = @ \o cmds].inbox = old.inbox \o cmds
  BY <1>3, <1>4 DEF LinkEnd
<1> QED  BY <1>1, <1>2, <1>4 DEF SameEnd, old

LEMMA SentIsQuiet ==
  ASSUME NEW ends, EndsOK(ends), NEW x, NEW ls, NEW cmds \in Seq(Message), NEW l \in Links
  PROVE  /\ (\A n \in DOMAIN cmds : cmds[n].type \notin Words) =>
               Silent(ends, Sent(ends, x, ls, cmds), l)
         /\ (\A n \in DOMAIN cmds : cmds[n].type \notin {"init", "list"}) =>
               \A z \in {l[1], l[2]} : NoNews(ends, Sent(ends, x, ls, cmds), z, l)
<1> DEFINE new == Sent(ends, x, ls, cmds)
<1>1. \A z : /\ Has(new, z, l) <=> Has(ends, z, l)
             /\ Has(ends, z, l) => new[<<z, l>>].state = ends[<<z, l>>].state
             /\ Reached(ends, x, ls, z, l) /\ Has(ends, z, l) =>
                   new[<<z, l>>].inbox = ends[<<z, l>>].inbox \o cmds
             /\ ~Reached(ends, x, ls, z, l) => SameEnd(ends, new, z, l)
  BY SentEnds
<1> HIDE DEF new
<1>2. Other(l[1], l) = l[2] /\ Other(l[2], l) = l[1]
  BY LinkFacts
<1> SUFFICES ASSUME NEW z \in {l[1], l[2]}
             PROVE  /\ (\A n \in DOMAIN cmds : cmds[n].type \notin Words) => EndKept(ends, new, z, l)
                    /\ (\A n \in DOMAIN cmds : cmds[n].type \notin {"init", "list"}) =>
                          NoNews(ends, new, z, l)
  BY DEF Silent, new
<1>3. CASE ~Reached(ends, x, ls, z, l)
  BY <1>1, <1>3, SameIsKept
<1>4. CASE Reached(ends, x, ls, z, l) /\ Has(ends, z, l)
  <2> DEFINE box == ends[<<z, l>>].inbox
  <2>0. box \in Seq(Message)
    BY <1>4 DEF Has, EndsOK, LinkEnd
  <2>1. new[<<z, l>>].inbox = box \o cmds
    BY <1>1, <1>4
  <2>2. (\A n \in DOMAIN cmds : cmds[n].type \notin Words) => SaysAlike(box, box \o cmds)
    BY <2>0, AppendedIsAlike
  <2>3. IsOpen(ends, Other(z, l), l)
    <3>1. x \in {l[1], l[2]} /\ x # z
      BY <1>4 DEF Reached, IsOpen, Has, EndsOK
    <3> QED  BY <1>2, <1>4, <3>1 DEF Reached
  <2>4. \A n \in DOMAIN (box \o cmds) : \/ \E k \in DOMAIN box : box[k] = (box \o cmds)[n]
                                        \/ \E k \in DOMAIN cmds : cmds[k] = (box \o cmds)[n]
    <3> DEFINE whole == box \o cmds
    <3> HIDE DEF box
    <3>1. \A n \in DOMAIN whole :
             \/ n \in DOMAIN box /\ whole[n] = box[n]
             \/ n - Len(box) \in DOMAIN cmds /\ whole[n] = cmds[n - Len(box)]
      BY <2>0, AppendedFacts
    <3> HIDE DEF whole
    <3>2. \A n \in DOMAIN whole :
             (\E k \in DOMAIN box : box[k] = whole[n]) \/ (\E k \in DOMAIN cmds : cmds[k] = whole[n])
      BY <3>1
    <3> QED  BY <3>2 DEF whole
  <2>5. ASSUME \A n \in DOMAIN cmds : cmds[n].type \notin {"init", "list"}
        PROVE  NoNews(ends, new, z, l)
    BY <1>4, <2>1, <2>4, <2>5 DEF NoNews, Carries, Has
  <2> QED  BY <1>1, <1>4, <2>1, <2>2, <2>3, <2>5 DEF EndKept
<1>5. CASE ~Has(ends, z, l)
  BY <1>1, <1>5 DEF EndKept, NoNews
<1> QED  BY <1>3, <1>4, <1>5

LEMMA AiredIsQuiet ==
  ASSUME NEW ends, EndsOK(ends), NEW x, NEW ls, NEW frame, NEW new,
         new = Aired(ends, x, ls, frame), NEW l
  PROVE  Quiet(ends, new, l) /\ \A z : Has(new, z, l) <=> Has(ends, z, l)
<1>1. \A z : Has(new, z, l) <=> Has(ends, z, l)
  BY DEF Aired, Has
<1> SUFFICES ASSUME NEW z \in {l[1], l[2]}, Has(ends, z, l)
             PROVE  /\ new[<<z, l>>].state = ends[<<z, l>>].state
                    /\ new[<<z, l>>].inbox = ends[<<z, l>>].inbox
  BY <1>1 DEF Quiet, Silent, EndKept, NoNews, SaysAlike, Carries, Has
<1> DEFINE old == ends[<<z, l>>]
<1>2. old \in LinkEnd
  BY DEF EndsOK, Has
<1>3. new[<<z, l>>] = old \/ new[<<z, l>>] = [old EXCEPT !.air = @ \cup {frame}]
  BY DEF Aired, Has
<1> HIDE DEF old
<1>4. new[<<z, l>>].state = old.state /\ new[<<z, l>>].inbox = old.inbox
  BY <1>2, <1>3 DEF LinkEnd
<1> QED  BY <1>4 DEF old

LEMMA WithEndsEnds ==
  ASSUME NEW ends, NEW made, NEW new, new = WithEnds(ends, made), NEW z, NEW l
  PROVE  /\ Has(new, z, l) <=> Has(ends, z, l) \/ <<z, l>> \in made
         /\ <<z, l>> \in made => /\ new[<<z, l>>].state = "opening"
                                 /\ new[<<z, l>>].inbox = <<>>
         /\ <<z, l>> \notin made => SameEnd(ends, new, z, l)
BY DEF WithEnds, Has, SameEnd, Opening

LEMMA OpenedEnds ==
  ASSUME NEW ends, EndsOK(ends), NEW x, NEW m, <<x, m>> \in DOMAIN ends, NEW new,
         new = [ends EXCEPT ![<<x, m>>].state = "open"], NEW z, NEW l
  PROVE  /\ Has(new, z, l) <=> Has(ends, z, l)
         /\ z # x \/ l # m => SameEnd(ends, new, z, l)
         /\ new[<<x, m>>].state = "open" /\ new[<<x, m>>].inbox = ends[<<x, m>>].inbox
<1> DEFINE old == ends[<<x, m>>]
           end == [old EXCEPT !.state = "open"]
<1>1. old \in LinkEnd
  BY DEF EndsOK
<1>2. Sets(ends, new, x, m, end)
  BY DEF Sets
<1> HIDE DEF old
<1>3. end.inbox = old.inbox /\ end.state = "open"
  BY <1>1 DEF LinkEnd
<1> HIDE DEF end
<1>4. (Has(new, z, l) <=> Has(ends, z, l)) /\ (z # x \/ l # m => SameEnd(ends, new, z, l))
  BY <1>2, SetEnd
<1>5. new[<<x, m>>] = end
  BY <1>2 DEF Sets
<1> QED  BY <1>3, <1>4, <1>5 DEF old

-----------------------------------------------------------------------------
(* A link a step leaves as it was                                            *)

SameFor(s, t, l) ==
    /\ OwnerOf(t, l) = OwnerOf(s, l)
    /\ Marked(t, l) <=> Marked(s, l)
    /\ Vocal(t) <=> Vocal(s)
\* A player whose end stays is the same for the link; one whose end goes has
\* no number for it any more.
PlayerStays(s, t, ends, z, l) ==
    IF Has(ends, z, l) THEN SameFor(s, t, l) ELSE ~Owns(t, l)
Moves(nodes, moved, x, s) ==
    moved[x] = s /\ \A y \in Nodes \ {x} : moved[y] = nodes[y]

LEMMA SpokenKept ==
  ASSUME NEW nodes, NEW moved, NEW ends, NEW new, NEW l \in Links,
         Spoken(nodes, ends, l), Silent(ends, new, l),
         \A z \in {l[1], l[2]} : PlayerStays(nodes[z], moved[z], new, z, l)
  PROVE  Spoken(moved, new, l)
<1>1. Other(l[1], l) = l[2] /\ Other(l[2], l) = l[1]
  BY LinkFacts
<1>2. \A z \in {l[1], l[2]} :
         /\ Has(new, z, l) => /\ Has(ends, z, l) /\ SameFor(nodes[z], moved[z], l)
                              /\ SaysAlike(ends[<<z, l>>].inbox, new[<<z, l>>].inbox)
                              /\ ends[<<z, l>>].inbox = <<>> =>
                                    new[<<z, l>>].inbox = <<>> \/ IsOpen(ends, Other(z, l), l)
         /\ IsOpen(new, z, l) => IsOpen(ends, z, l)
         /\ IsOpening(new, z, l) => IsOpening(ends, z, l)
         /\ Owns(moved[z], l) => Has(new, z, l)
  BY DEF Silent, EndKept, PlayerStays, IsOpen, IsOpening
<1>3. ASSUME NEW z \in {l[1], l[2]}
      PROVE  EndOwned(moved, new, z, l)
  BY <1>2 DEF Spoken, EndOwned, SameFor, Owns, IsOpen, IsOpening
<1>4. ASSUME NEW z \in {l[1], l[2]}
      PROVE  EndHears(moved, new, z, l)
  <2> DEFINE o == Other(z, l)
  <2> SUFFICES ASSUME Has(new, z, l), IsOpen(new, o, l)
               PROVE  Hears(moved[z], new[<<z, l>>].inbox, l) <=> Vocal(moved[o])
    BY DEF EndHears
  <2>1. o \in {l[1], l[2]}
    BY <1>1
  <2>2. Hears(nodes[z], ends[<<z, l>>].inbox, l) <=> Vocal(nodes[o])
    BY <1>2, <2>1 DEF Spoken, EndHears
  <2>3. Vocal(moved[o]) <=> Vocal(nodes[o])
    BY <1>2, <2>1 DEF IsOpen, SameFor
  <2>4. Hears(moved[z], new[<<z, l>>].inbox, l) <=> Hears(nodes[z], ends[<<z, l>>].inbox, l)
    BY <1>2 DEF Hears, SameFor, SaysAlike
  <2> QED  BY <2>2, <2>3, <2>4
<1>5. EndsInOrder(moved, new, l)
  <2>1. Has(new, l[2], l) => ~IsOpening(new, l[1], l)
    BY <1>2 DEF Spoken, EndsInOrder
  <2>2. ASSUME Has(new, l[1], l), IsOpening(new, l[1], l) \/ IsOpening(new, l[2], l)
        PROVE  new[<<l[1], l>>].inbox = <<>> /\ ~Marked(moved[l[1]], l)
    <3>1. Has(ends, l[1], l) /\ (IsOpening(ends, l[1], l) \/ IsOpening(ends, l[2], l))
      BY <1>2, <2>2
    <3>2. ends[<<l[1], l>>].inbox = <<>> /\ ~Marked(nodes[l[1]], l)
      BY <3>1 DEF Spoken, EndsInOrder
    <3>3. ~IsOpen(ends, l[2], l)
      BY <3>1 DEF Spoken, EndsInOrder, IsOpen, IsOpening
    <3> QED  BY <1>1, <1>2, <2>2, <3>2, <3>3 DEF SameFor
  <2> QED  BY <2>1, <2>2 DEF EndsInOrder
<1> QED  BY <1>3, <1>4, <1>5 DEF Spoken

LEMMA ListsStill ==
  ASSUME NEW nodes, NEW moved, NEW ends, NEW new, NEW l \in Links,
         ListsFit(nodes, ends, l), NoNews(ends, new, l[1], l),
         l[2] = Lobby /\ Has(new, l[1], l) =>
            \A i \in Slots : Given(moved, new, l, i) => Given(nodes, ends, l, i)
  PROVE  ListsFit(moved, new, l)
<1> SUFFICES ASSUME l[2] = Lobby, Has(new, l[1], l), NEW n \in DOMAIN new[<<l[1], l>>].inbox,
                    new[<<l[1], l>>].inbox[n].type = "list",
                    NEW i \in Slots, Given(nodes, ends, l, i)
             PROVE  new[<<l[1], l>>].inbox[n].players[i].machine = Machine[l[1]]
  BY DEF ListsFit
<1>1. Carries(ends, <<l[1], l>>, new[<<l[1], l>>].inbox[n])
  BY DEF NoNews
<1>2. PICK k \in DOMAIN ends[<<l[1], l>>].inbox :
         ends[<<l[1], l>>].inbox[k] = new[<<l[1], l>>].inbox[n]
  BY <1>1 DEF Carries
<1>3. Has(ends, l[1], l)
  BY <1>1 DEF Carries, Has
<1> QED  BY <1>2, <1>3 DEF ListsFit

LEMMA ListsKept ==
  ASSUME NEW nodes, NEW moved, NEW ends, NEW new, NEW l \in Links,
         ListsFit(nodes, ends, l), NoNews(ends, new, l[1], l),
         l[2] = Lobby /\ Has(new, l[1], l) =>
            /\ moved[l[1]].id = nodes[l[1]].id
            /\ \A i \in Slots : moved[Lobby].remote[i] = l => nodes[Lobby].remote[i] = l
  PROVE  ListsFit(moved, new, l)
<1> SUFFICES ASSUME l[2] = Lobby, Has(new, l[1], l), NEW i \in Slots, Given(moved, new, l, i)
             PROVE  Given(nodes, ends, l, i)
  BY ListsStill
<1> QED  BY DEF Given, Carries, NoNews

\* Player x moves, and no end of anybody else goes.
LEMMA StepLink ==
  ASSUME NEW nodes, NEW moved, NEW x, NEW s, Moves(nodes, moved, x, s),
         NEW ends, NEW new, NEW l \in Links,
         LinkOK(nodes, ends, l), Silent(ends, new, l),
         x \in {l[1], l[2]} => PlayerStays(nodes[x], s, new, x, l),
         \A z \in {l[1], l[2]} : z # x /\ Has(ends, z, l) => Has(new, z, l)
  PROVE  /\ Spoken(moved, new, l)
         /\ Quiet(ends, new, l) /\ (s.id = nodes[x].id \/ ~Has(new, x, l)) => LinkOK(moved, new, l)
<1>1. l[1] \in Nodes /\ l[2] \in Nodes
  BY LinkFacts DEF Nodes
<1>2. ASSUME NEW z \in {l[1], l[2]}
      PROVE  PlayerStays(nodes[z], moved[z], new, z, l)
  <2>1. CASE z = x
    BY <2>1 DEF Moves
  <2>2. CASE z # x
    <3>1. moved[z] = nodes[z]
      BY <1>1, <2>2 DEF Moves
    <3>2. Owns(nodes[z], l) => Has(ends, z, l)
      BY DEF LinkOK, Spoken, EndOwned
    <3> QED  BY <2>2, <3>1, <3>2 DEF PlayerStays, SameFor
  <2> QED  BY <2>1, <2>2
<1>3. Spoken(moved, new, l)
  BY <1>2, SpokenKept DEF LinkOK
<1>4. ASSUME Quiet(ends, new, l), s.id = nodes[x].id \/ ~Has(new, x, l)
      PROVE  ListsFit(moved, new, l)
  <2> SUFFICES ASSUME l[2] = Lobby, Has(new, l[1], l)
               PROVE  /\ moved[l[1]].id = nodes[l[1]].id
                      /\ \A i \in Slots : moved[Lobby].remote[i] = l => nodes[Lobby].remote[i] = l
    BY <1>4, ListsKept DEF LinkOK, Quiet
  <2>1. moved[l[1]].id = nodes[l[1]].id
    BY <1>1, <1>4 DEF Moves
  <2>2. OwnerOf(moved[Lobby], l) \subseteq OwnerOf(nodes[Lobby], l)
    BY <1>2 DEF PlayerStays, SameFor, Owns
  <2>3. Slots \subseteq Ids
    BY DEF Slots
  <2> QED  BY <2>1, <2>2, <2>3 DEF OwnerOf
<1> QED  BY <1>3, <1>4 DEF LinkOK

LEMMA BecomeMoves ==
  ASSUME MeshInv, NEW x \in Nodes, NEW s, NEW new, Become(x, s, new)
  PROVE  Moves(node, node', x, s) /\ net' = new
BY DEF MeshInv, Become, Moves

LEMMA ReadyNow ==
  ASSUME ReadyInv, NEW x \in Nodes, NEW s, Moves(node, node', x, s), LinksOK(node', net'), Attentive(x, s)
  PROVE  ReadyInv'
BY DEF ReadyInv, Moves

LEMMA SameOwners ==
  ASSUME NEW s, NEW t, t.remote = s.remote, t.ready = s.ready, t.id = s.id, NEW l
  PROVE  SameFor(s, t, l)
BY DEF SameFor, OwnerOf, Marked, Vocal

\* Nobody's end appears or goes.
LEMMA SameKeepsReady ==
  ASSUME MeshInv, ReadyInv, NEW x \in Nodes, NEW s, NEW new, Become(x, s, new),
         \A l \in Links : /\ Quiet(net, new, l)
                          /\ \A z : Has(new, z, l) <=> Has(net, z, l)
                          /\ SameFor(node[x], s, l),
         s.id = node[x].id, Attentive(x, s)
  PROVE  ReadyInv'
<1>1. Moves(node, node', x, s) /\ net' = new
  BY BecomeMoves
<1>2. ASSUME NEW l \in Links
      PROVE  LinkOK(node', new, l)
  <2>1. LinkOK(node, net, l)
    BY DEF ReadyInv, LinksOK
  <2>2. x \in {l[1], l[2]} => PlayerStays(node[x], s, new, x, l)
    BY <2>1 DEF PlayerStays, SameFor, LinkOK, Spoken, EndOwned, Owns
  <2>3. Quiet(net, new, l) /\ Silent(net, new, l)
    BY DEF Quiet
  <2> QED  BY <1>1, <2>1, <2>2, <2>3, StepLink
<1>3. LinksOK(node', net')
  BY <1>1, <1>2 DEF LinksOK
<1> QED  BY <1>1, <1>3, ReadyNow

\* A client dials: the links it makes are new, nobody's, and nobody has said
\* anything about the players they lead to.
LEMMA DialKeepsReady ==
  ASSUME NEW x \in Clients, NEW s \in State, Consistent(x, s), Attentive(x, s),
         s.id # NoId => \A i \in Slots : s.ports[i] = x => i = s.id,
         NEW nodes, nodes[x] = s, NEW ends, LinksOK(nodes, ends),
         NEW again, NEW done, done = ConnectPeers(s, ends, x, again),
         NEW moved, Moves(nodes, moved, x, done.s)
  PROVE  LinksOK(moved, done.ends) /\ Attentive(x, done.s)
<1>1. CASE x = Lobby \/ s.id = NoId \/ ~s.listed \/ ~s.endpoints
  <2>1. done = [s |-> s, ends |-> ends]
    BY <1>1 DEF ConnectPeers
  <2>2. \A l \in Links : LinkOK(moved, ends, l)
    <3> TAKE l \in Links
    <3>1. /\ LinkOK(nodes, ends, l) /\ Apart(ends, ends, l)
          /\ SameFor(s, s, l)
      BY DEF LinksOK, Apart, SameEnd, SameFor
    <3>2. Quiet(ends, ends, l) /\ Silent(ends, ends, l)
      BY <3>1, ApartIsQuiet DEF Quiet
    <3>3. x \in {l[1], l[2]} => PlayerStays(nodes[x], s, ends, x, l)
      BY <3>1 DEF PlayerStays, LinkOK, Spoken, EndOwned
    <3> QED  BY <2>1, <3>1, <3>2, <3>3, StepLink
  <2> QED  BY <2>1, <2>2 DEF LinksOK
<1>2. CASE ~(x = Lobby \/ s.id = NoId \/ ~s.listed \/ ~s.endpoints)
  <2> DEFINE others == {i \in Slots \ {s.id} : s.players[i].status = "client"}
             due == {i \in others : /\ i < s.id
                                    /\ s.remote[i] = NoLink
                                    /\ i \in s.dialled => i \in again}
             made == {i \in due : Numbers(ends, x, s.ports[i]) # {}}
             link == [i \in made |-> NewLink(ends, x, s.ports[i])]
             remote == [i \in Ids |-> IF i \in made THEN link[i] ELSE s.remote[i]]
             meets == \A i \in others : IsOpen(ends, x, remote[i])
             t == [s EXCEPT !.remote = remote,
                            !.dialled = @ \cup due,
                            !.phase = IF meets THEN "connected" ELSE @]
             new == WithEnds(ends, {<<x, link[i]>> : i \in made})
  <2>1. done = [s |-> t, ends |-> new]
    BY <1>2, Zenon DEF ConnectPeers
  <2>2. x \in Nodes /\ Slots \subseteq Ids /\ x # Lobby
    BY LANAssumption DEF Nodes, Slots
  <2>3. ASSUME NEW i \in made
        PROVE  /\ link[i] \in Links /\ link[i][1] = x /\ link[i][2] # Lobby
               /\ ~Has(ends, x, link[i]) /\ ~Has(ends, link[i][2], link[i])
               /\ i \in Slots /\ s.players[i].status = "client" /\ s.remote[i] = NoLink
               /\ i # s.id /\ i \notin s.ready
    <3>1. i \in Slots /\ i # s.id /\ s.players[i].status = "client" /\ s.remote[i] = NoLink
      OBVIOUS
    <3>2. s.ports[i] \in Clients /\ s.ports[i] # x
      BY <1>2, <3>1 DEF State, Ports, Consistent
    <3>3. PICK k \in Numbers(ends, x, s.ports[i]) : link[i] = <<x, s.ports[i], k>>
      <4> DEFINE y == s.ports[i]
      <4>1. Numbers(ends, x, y) # {}
        OBVIOUS
      <4> HIDE DEF y
      <4>2. (CHOOSE k \in Numbers(ends, x, y) : TRUE) \in Numbers(ends, x, y)
        BY <4>1
      <4> QED  BY <4>2 DEF NewLink, y
    <3> HIDE DEF made, link
    <3>4. /\ k \in 1..MaxLinks
          /\ ~Has(ends, x, <<x, s.ports[i], k>>) /\ ~Has(ends, s.ports[i], <<x, s.ports[i], k>>)
      BY <3>3 DEF Numbers
    <3>5. /\ link[i] \in Clients \X Clients \X (1..MaxLinks)
          /\ link[i][1] = x /\ link[i][2] = s.ports[i]
      BY <3>2, <3>3, <3>4
    <3>6. link[i] \in Links
      BY <3>2, <3>5 DEF Links
    <3>7. i \notin s.ready
      BY <3>1 DEF Attentive
    <3> QED  BY <3>1, <3>2, <3>3, <3>4, <3>5, <3>6, <3>7, LANAssumption
  <2>4. due \subseteq Slots
    OBVIOUS
  <2>5. \A i \in Ids : remote[i] = IF i \in made THEN link[i] ELSE s.remote[i]
    OBVIOUS
  <2> HIDE DEF made, link, meets, others, due, remote
  <2>6. /\ t.remote = remote /\ t.ready = s.ready /\ t.id = s.id /\ t.players = s.players
        /\ t.listed = s.listed /\ t.phase \in {s.phase, "connected"}
    BY DEF State
  <2> HIDE DEF t
  <2>7. Attentive(x, t)
    <3>1. /\ s.id \in Ids => s.remote[s.id] = NoLink
          /\ \A i \in s.ready : i = s.id \/ s.remote[i] # NoLink
          /\ Vocal(s) => s.phase = "connected"
          /\ s.id = NoId => \A i \in Slots : s.players[i].status = "none"
          /\ \A i \in Slots : s.remote[i] # NoLink => s.players[i].status = "client"
          /\ s.listed => s.id # NoId /\ s.players[s.id].machine = Machine[x]
      BY <2>2 DEF Attentive
    <3>2. t.id \in Ids => t.remote[t.id] = NoLink
      BY <2>3, <2>5, <2>6, <3>1
    <3>3. \A i \in t.ready : i = t.id \/ t.remote[i] # NoLink
      <4>1. s.ready \subseteq Ids
        BY DEF State
      <4> QED  BY <2>3, <2>5, <2>6, <3>1, <4>1
    <3>4. \A i \in Slots : t.remote[i] # NoLink => t.players[i].status = "client"
      BY <2>2, <2>3, <2>5, <2>6, <3>1
    <3>5. Vocal(t) => t.phase = "connected"
      BY <2>6, <3>1 DEF Vocal
    <3> QED  BY <1>2, <2>2, <2>6, <3>1, <3>2, <3>3, <3>4, <3>5 DEF Attentive
  <2>8. ASSUME NEW l \in Links, NEW j \in made, l = link[j]
        PROVE  LinkOK(moved, new, l)
    <3>1. /\ l[1] = x /\ l[2] # Lobby /\ ~Has(ends, x, l) /\ ~Has(ends, l[2], l)
          /\ l[2] \in Nodes \ {x}
      BY <2>3, <2>8, LinkFacts
    <3>2. ~Owns(s, l) /\ ~Owns(nodes[l[2]], l)
      BY <3>1 DEF LinksOK, LinkOK, Spoken, EndOwned
    <3>3. moved[x] = t /\ moved[l[2]] = nodes[l[2]]
      BY <2>1, <3>1 DEF Moves
    <3>4. /\ Has(new, x, l) /\ new[<<x, l>>].state = "opening" /\ new[<<x, l>>].inbox = <<>>
          /\ ~Has(new, l[2], l)
      <4> DEFINE ms == {<<x, link[i]>> : i \in made}
      <4>1. <<x, l>> \in ms /\ <<l[2], l>> \notin ms
        BY <2>8, <3>1
      <4> HIDE DEF ms
      <4>2. new = WithEnds(ends, ms)
        BY DEF ms
      <4> QED  BY <3>1, <4>1, <4>2, WithEndsEnds
    <3> HIDE DEF new
    <3>5. \A i \in OwnerOf(t, l) : i \in made
      BY <2>5, <2>6, <3>2 DEF Owns, OwnerOf
    <3>6. ~Marked(t, l)
      BY <2>3, <2>6, <3>5 DEF Marked
    <3>7. Owns(t, l)
      BY <2>2, <2>3, <2>5, <2>6, <2>8 DEF Owns, OwnerOf
    <3>8. ~IsOpen(new, x, l) /\ ~IsOpen(new, l[2], l) /\ ~IsOpening(new, l[2], l)
      BY <3>4 DEF IsOpen, IsOpening
    <3>9. Other(x, l) = l[2] /\ Other(l[2], l) = x
      BY <3>1, LinkFacts
    <3>10. \A z \in {x, l[2]} : EndOwned(moved, new, z, l) /\ EndHears(moved, new, z, l)
      BY <3>1, <3>2, <3>3, <3>4, <3>7, <3>8, <3>9 DEF EndOwned, EndHears
    <3>11. EndsInOrder(moved, new, l) /\ ListsFit(moved, new, l)
      BY <3>1, <3>3, <3>4, <3>6 DEF EndsInOrder, ListsFit
    <3> QED  BY <3>1, <3>10, <3>11 DEF LinkOK, Spoken
  <2>9. ASSUME NEW l \in Links, \A j \in made : l # link[j]
        PROVE  LinkOK(moved, new, l)
    <3>1. SameFor(s, t, l)
      <4>1. OwnerOf(t, l) = OwnerOf(s, l)
        BY <2>3, <2>5, <2>6, <2>9, LinkFacts DEF OwnerOf
      <4> QED  BY <2>6, <4>1 DEF SameFor, Marked, Vocal
    <3>2. Apart(ends, new, l)
      <4> DEFINE ms == {<<x, link[i]>> : i \in made}
      <4>1. \A z : <<z, l>> \notin ms
        BY <2>9
      <4> HIDE DEF ms
      <4>2. new = WithEnds(ends, ms)
        BY DEF ms
      <4> QED  BY <4>1, <4>2, WithEndsEnds DEF Apart
    <3> HIDE DEF new
    <3>3. Quiet(ends, new, l) /\ Silent(ends, new, l)
      BY <3>2, ApartIsQuiet DEF Quiet
    <3>4. LinkOK(nodes, ends, l)
      BY DEF LinksOK
    <3>5. x \in {l[1], l[2]} => PlayerStays(nodes[x], t, new, x, l)
      BY <3>1, <3>2, <3>4 DEF PlayerStays, SameFor, LinkOK, Spoken, EndOwned, Owns, Apart, SameEnd
    <3>6. \A z \in {l[1], l[2]} : z # x /\ Has(ends, z, l) => Has(new, z, l)
      BY <3>2 DEF Apart, SameEnd
    <3>7. Moves(nodes, moved, x, t)
      BY <2>1
    <3> QED  BY <2>6, <3>3, <3>4, <3>5, <3>6, <3>7, StepLink
  <2> HIDE DEF new
  <2>10. \A l \in Links : LinkOK(moved, new, l)
    BY <2>8, <2>9
  <2>11. done.ends = new /\ done.s = t
    BY <2>1
  <2> QED  BY <2>7, <2>10, <2>11 DEF LinksOK
<1> QED  BY <1>1, <1>2

LEMMA ConnectingKeepsReady ==
  ASSUME MeshInv, ReadyInv, NEW x \in Clients, NEW s \in State, NEW mid, NEW again,
         LET done == ConnectPeers(s, mid, x, again) IN Become(x, done.s, done.ends),
         Consistent(x, s), Backed(x, s), Attentive(x, s),
         LinksOK([node EXCEPT ![x] = s], mid)
  PROVE  ReadyInv'
<1> DEFINE nodes == [node EXCEPT ![x] = s]
<1>1. x \in Nodes /\ x # Lobby
  BY LANAssumption DEF Nodes
<1> DEFINE done == ConnectPeers(s, mid, x, again)
<1>3. Become(x, done.s, done.ends)
  OBVIOUS
<1> HIDE DEF done
<1>4. Moves(node, node', x, done.s) /\ net' = done.ends
  BY <1>1, <1>3, BecomeMoves
<1>5. nodes[x] = s /\ \A y \in Nodes \ {x} : nodes[y] = node[y]
  BY <1>1 DEF MeshInv
<1> HIDE DEF nodes
<1>6. Moves(nodes, node', x, done.s)
  BY <1>4, <1>5 DEF Moves
<1>7. ASSUME s.id # NoId, NEW i \in Slots, s.ports[i] = x
      PROVE  i = s.id
  <2>1. s.id \in Slots
    BY <1>1, <1>7 DEF State, Consistent, Slots
  <2> QED  BY <1>7, <2>1 DEF Backed, MeshInv, OneNumber
<1>8. LinksOK(nodes, mid)
  BY DEF nodes
<1>9. LinksOK(node', net') /\ Attentive(x, done.s)
  BY <1>4, <1>5, <1>6, <1>7, <1>8, DialKeepsReady DEF done
<1> QED  BY <1>1, <1>4, <1>9, ReadyNow

-----------------------------------------------------------------------------
(* Readiness, step by step                                                   *)

\* Nothing about readiness changes in the player.
SameMind(s, t) ==
    /\ t.id = s.id /\ t.remote = s.remote /\ t.ready = s.ready /\ t.phase = s.phase
    /\ t.players = s.players /\ t.ports = s.ports /\ t.listed = s.listed

LEMMA SameMindKeeps ==
  ASSUME MeshInv, ReadyInv, NEW x \in Nodes, NEW s, SameMind(node[x], s), NEW new, Become(x, s, new),
         \A l \in Links : Quiet(net, new, l) /\ \A z : Has(new, z, l) <=> Has(net, z, l)
  PROVE  ReadyInv'
<1>1. \A l : SameFor(node[x], s, l)
  BY SameOwners DEF SameMind
<1>2. s.id = node[x].id
  BY DEF SameMind
<1>3. Attentive(x, s)
  <2>1. Attentive(x, node[x])
    BY DEF ReadyInv
  <2> QED  BY <2>1 DEF Attentive, SameMind, Vocal
<1> QED  BY <1>1, <1>2, <1>3, SameKeepsReady

LEMMA ProcessKeepsReady ==
  ASSUME MeshInv, ReadyInv, NEW c, Process(c)
  PROVE  ReadyInv'
<1>1. c \in Clients /\ c \in Nodes /\ node[c] \in State /\ Consistent(c, node[c])
      /\ node \in [Nodes -> State]
  BY DEF Process, MeshInv, Nodes
<1>2. Backed(c, node[c])
  BY <1>1, OwnIsBacked
<1>3. [node EXCEPT ![c] = node[c]] = node
  BY <1>1
<1>4. LinksOK([node EXCEPT ![c] = node[c]], net) /\ Attentive(c, node[c])
  BY <1>1, <1>3 DEF ReadyInv
<1>5. LET done == ConnectPeers(node[c], net, c, Slots) IN Become(c, done.s, done.ends)
  BY DEF Process
<1> QED  BY <1>1, <1>2, <1>4, <1>5, ConnectingKeepsReady

LEMMA FrameArrivesKeepsReady ==
  ASSUME MeshInv, ReadyInv, NEW x \in Nodes, NEW l \in Links, FrameArrives(x, l)
  PROVE  ReadyInv'
<1> DEFINE old == node[x]
<1>1. Has(net, x, l) /\ EndsOK(net) /\ <<x, l>> \in DOMAIN net /\ old \in State
  BY DEF FrameArrives, IsOpen, Has, MeshInv
<1>2. PICK f : \/ Become(x, old, [net EXCEPT ![<<x, l>>].air = @ \ {f}])
               \/ Become(x, [old EXCEPT !.rx = @ \cup {[id |-> f.id, type |-> f.type, link |-> l]}],
                         [net EXCEPT ![<<x, l>>].air = @ \ {f}])
  BY DEF FrameArrives
<1> DEFINE air == net[<<x, l>>].air \ {f}
           new == [net EXCEPT ![<<x, l>>].air = air]
<1>3. \A m \in Links : Quiet(net, new, m) /\ \A z : Has(new, z, m) <=> Has(net, z, m)
  <2> HIDE DEF air
  <2> QED  BY <1>1, MarkIsQuiet
<1>4. [net EXCEPT ![<<x, l>>].air = @ \ {f}] = new
  BY <1>1
<1> HIDE DEF new
<1>5. PICK s : Become(x, s, new) /\ SameMind(old, s)
  <2> DEFINE t == [old EXCEPT !.rx = @ \cup {[id |-> f.id, type |-> f.type, link |-> l]}]
  <2>1. SameMind(old, t) /\ SameMind(old, old)
    BY <1>1 DEF SameMind, State
  <2>2. Become(x, old, new) \/ Become(x, t, new)
    BY <1>2, <1>4
  <2> HIDE DEF t
  <2> QED  BY <2>1, <2>2
<1> QED  BY <1>3, <1>5, SameMindKeeps

LEMMA ReceiveKeepsReady ==
  ASSUME MeshInv, ReadyInv, NEW x \in Nodes, Receive(x) \/ Discard(x)
  PROVE  ReadyInv'
<1> DEFINE old == node[x]
<1>1. old \in State
  BY DEF MeshInv
<1>2. PICK s : Become(x, s, net) /\ SameMind(old, s)
  <2>1. PICK f :
           \/ Become(x, [old EXCEPT !.rx = @ \ {f}], net)
           \/ LET s == [old EXCEPT !.rx = @ \ {f}] IN
              Become(x, [s EXCEPT !.lastId = f.id, !.lastPeer = f.link], net)
    BY DEF Receive, Discard
  <2>2. \A t \in {[old EXCEPT !.rx = @ \ {f}],
                  LET s == [old EXCEPT !.rx = @ \ {f}] IN
                  [s EXCEPT !.lastId = f.id, !.lastPeer = f.link]} : SameMind(old, t)
    BY <1>1 DEF SameMind, State
  <2> QED  BY <2>1, <2>2
<1>3. \A l \in Links : Quiet(net, net, l)
  BY ApartIsQuiet DEF Apart, SameEnd
<1> QED  BY <1>2, <1>3, SameMindKeeps

LEMMA SendKeepsReady ==
  ASSUME MeshInv, ReadyInv, NEW x \in Nodes, NEW type, Send(x, type)
  PROVE  ReadyInv'
<1>1. PICK ls, frame : Become(x, node[x], Aired(net, x, ls, frame))
  BY DEF Send
<1>2. EndsOK(net) /\ SameMind(node[x], node[x])
  BY DEF MeshInv, SameMind
<1>3. \A l \in Links : /\ Quiet(net, Aired(net, x, ls, frame), l)
                       /\ \A z : Has(Aired(net, x, ls, frame), z, l) <=> Has(net, z, l)
  BY <1>2, AiredIsQuiet
<1> QED  BY <1>1, <1>2, <1>3, SameMindKeeps

LEMMA EndSessionKeepsReady ==
  ASSUME MeshInv, ReadyInv, NEW x \in Nodes, EndSession(x)
  PROVE  ReadyInv'
<1> DEFINE new == Closed(net, x, Links)
<1>1. /\ Over.id = NoId /\ Over.remote = [i \in Ids |-> NoLink] /\ Over.ready = {}
      /\ Over.phase = "over" /\ Over.listed = FALSE
      /\ \A i \in Slots : Over.players[i].status = "none"
  BY DEF Over, Idle, Empty
<1>2. Moves(node, node', x, Over) /\ net' = new
  BY BecomeMoves DEF EndSession
<1>3. ASSUME NEW l \in Links
      PROVE  LinkOK(node', new, l)
  <2>1. Quiet(net, new, l) /\ Silent(net, new, l) /\ ~Has(new, x, l)
        /\ \A z : z # x /\ Has(net, z, l) => Has(new, z, l)
    <3>1. Quiet(net, new, l) /\ \A z : Has(new, z, l) <=> Has(net, z, l) /\ ~(z = x /\ l \in Links)
      BY ClosedEnds
    <3> QED  BY <3>1 DEF Quiet
  <2>2. PlayerStays(node[x], Over, new, x, l)
    BY <1>1, <2>1, LinkFacts DEF PlayerStays, Owns, OwnerOf
  <2>3. LinkOK(node, net, l)
    BY DEF ReadyInv, LinksOK
  <2> HIDE DEF new
  <2> QED  BY <1>2, <2>1, <2>2, <2>3, StepLink
<1>4. NoId \notin Ids /\ \A i \in Slots : i \in Ids
  BY LANAssumption DEF NoId, Ids, Slots
<1>5. Attentive(x, Over)
  BY <1>1, <1>4 DEF Attentive, Vocal
<1> QED  BY <1>2, <1>3, <1>5, ReadyNow DEF LinksOK

LEMMA WordSent ==
  ASSUME NEW ends, EndsOK(ends), NEW x, NEW ls, NEW type \in Words, NEW new,
         new = Sent(ends, x, ls, <<[type |-> type]>>), NEW l \in Links
  PROVE  /\ \A z : /\ Has(new, z, l) <=> Has(ends, z, l)
                   /\ Has(ends, z, l) => new[<<z, l>>].state = ends[<<z, l>>].state
                   /\ ~Reached(ends, x, ls, z, l) => SameEnd(ends, new, z, l)
                   /\ Reached(ends, x, ls, z, l) /\ Has(ends, z, l) =>
                         /\ Said(new[<<z, l>>].inbox) # {}
                         /\ LastSays(new[<<z, l>>].inbox) <=> type = "ready"
         /\ \A z \in {l[1], l[2]} : NoNews(ends, new, z, l)
<1> DEFINE m == [type |-> type]
           cmds == <<m>>
<1>1. m \in Message /\ m.type = type
  BY DEF Message, Words
<1> HIDE DEF m
<1>2. cmds \in Seq(Message) /\ \A n \in DOMAIN cmds : cmds[n] = m
  BY <1>1
<1>3. \A n \in DOMAIN cmds : cmds[n].type \notin {"init", "list"}
  BY <1>1, <1>2 DEF Words
<1>4. new = Sent(ends, x, ls, cmds)
  BY DEF m
<1> HIDE DEF cmds
<1>5. \A z \in {l[1], l[2]} : NoNews(ends, new, z, l)
  BY <1>2, <1>3, <1>4, SentIsQuiet
<1>6. ASSUME NEW z
       PROVE  /\ Has(new, z, l) <=> Has(ends, z, l)
              /\ Has(ends, z, l) => new[<<z, l>>].state = ends[<<z, l>>].state
              /\ Reached(ends, x, ls, z, l) /\ Has(ends, z, l) =>
                    new[<<z, l>>].inbox = ends[<<z, l>>].inbox \o cmds
              /\ ~Reached(ends, x, ls, z, l) => SameEnd(ends, new, z, l)
  BY <1>4, SentEnds, Zenon
<1>7. ASSUME NEW z, Reached(ends, x, ls, z, l), Has(ends, z, l)
      PROVE  /\ Said(new[<<z, l>>].inbox) # {}
             /\ LastSays(new[<<z, l>>].inbox) <=> type = "ready"
  <2> DEFINE box == ends[<<z, l>>].inbox
  <2>1. box \in Seq(Message)
    BY <1>7 DEF Has, EndsOK, LinkEnd
  <2>2. new[<<z, l>>].inbox = box \o cmds
    BY <1>6, <1>7
  <2>3. cmds = <<[type |-> type]>>
    BY DEF cmds, m
  <2> HIDE DEF box
  <2>4. /\ Said(box \o <<[type |-> type]>>) # {}
        /\ LastSays(box \o <<[type |-> type]>>) <=> type = "ready"
    BY <2>1, AppendedWord
  <2> QED  BY <2>2, <2>3, <2>4
<1> QED  BY <1>5, <1>6, <1>7

\* The guest turns its wireless on or off, and says so over every open link.
LEMMA TurnKeepsReady ==
  ASSUME MeshInv, ReadyInv, NEW x \in Nodes, Begin(x) \/ End(x)
  PROVE  ReadyInv'
<1> DEFINE old == node[x]
<1>1. /\ old \in State /\ EndsOK(net) /\ old.phase = "connected" /\ old.id \in Ids
      /\ Attentive(x, old) /\ Consistent(x, old)
  BY DEF MeshInv, ReadyInv, Begin, End, Turn, Consistent, State
<1>1a. PICK type \in Words : \E s :
         /\ Become(x, s, Sent(net, x, Links, <<[type |-> type]>>))
         /\ s.id = old.id /\ s.remote = old.remote /\ s.phase = old.phase
         /\ s.players = old.players /\ s.ports = old.ports /\ s.listed = old.listed
         /\ s.ready = IF type = "ready" THEN old.ready \cup {old.id} ELSE old.ready \ {old.id}
  <2>1. CASE Begin(x)
    <3> DEFINE t == [old EXCEPT !.ready = @ \cup {old.id}, !.lastId = NoId, !.lastPeer = NoLink]
    <3>1. Become(x, t, Sent(net, x, Links, <<[type |-> "ready"]>>))
      BY <2>1 DEF Begin, Broadcast
    <3>2. /\ t.id = old.id /\ t.remote = old.remote /\ t.phase = old.phase
          /\ t.players = old.players /\ t.ports = old.ports /\ t.listed = old.listed
          /\ t.ready = old.ready \cup {old.id}
      BY <1>1 DEF State
    <3> HIDE DEF t, old
    <3> QED  BY <3>1, <3>2 DEF Words
  <2>2. CASE End(x)
    <3> DEFINE t == [old EXCEPT !.ready = @ \ {old.id}]
    <3>1. Become(x, t, Sent(net, x, Links, <<[type |-> "not ready"]>>))
      BY <2>2 DEF End, Broadcast
    <3>2. /\ t.id = old.id /\ t.remote = old.remote /\ t.phase = old.phase
          /\ t.players = old.players /\ t.ports = old.ports /\ t.listed = old.listed
          /\ t.ready = old.ready \ {old.id}
      BY <1>1 DEF State
    <3> HIDE DEF t, old
    <3> QED  BY <3>1, <3>2 DEF Words
  <2> QED  BY <2>1, <2>2
<1>2. PICK s :
         /\ type \in Words
         /\ Become(x, s, Sent(net, x, Links, <<[type |-> type]>>))
         /\ s.id = old.id /\ s.remote = old.remote /\ s.phase = old.phase
         /\ s.players = old.players /\ s.ports = old.ports /\ s.listed = old.listed
         /\ s.ready = IF type = "ready" THEN old.ready \cup {old.id} ELSE old.ready \ {old.id}
  BY <1>1a
<1> DEFINE new == Sent(net, x, Links, <<[type |-> type]>>)
<1>3. Moves(node, node', x, s) /\ net' = new
  BY <1>2, BecomeMoves
<1>4. Vocal(s) <=> type = "ready"
  BY <1>2 DEF Vocal
<1>5. Attentive(x, s)
  <2>1. old.ready \subseteq Ids
    BY <1>1 DEF State
  <2> HIDE DEF old
  <2> QED  BY <1>1, <1>2, <2>1 DEF Attentive
<1>6. ASSUME NEW l \in Links
      PROVE  OwnerOf(s, l) = OwnerOf(old, l) /\ (Marked(s, l) <=> Marked(old, l))
  <2>1. old.id \notin OwnerOf(old, l)
    BY <1>1, LinkFacts DEF Attentive, OwnerOf
  <2>2. OwnerOf(s, l) = OwnerOf(old, l)
    BY <1>2 DEF OwnerOf
  <2> HIDE DEF old
  <2> QED  BY <1>2, <2>1, <2>2 DEF Marked
<1>7. ASSUME NEW l \in Links
      PROVE  LinkOK(node', new, l)
  <2>1. /\ \A z : /\ Has(new, z, l) <=> Has(net, z, l)
                  /\ Has(net, z, l) => new[<<z, l>>].state = net[<<z, l>>].state
                  /\ ~Reached(net, x, Links, z, l) => SameEnd(net, new, z, l)
                  /\ Reached(net, x, Links, z, l) /\ Has(net, z, l) =>
                        /\ Said(new[<<z, l>>].inbox) # {}
                        /\ LastSays(new[<<z, l>>].inbox) <=> type = "ready"
        /\ \A z \in {l[1], l[2]} : NoNews(net, new, z, l)
    BY <1>1, WordSent
  <2> HIDE DEF new
  <2>2. LinkOK(node, net, l)
    BY DEF ReadyInv, LinksOK
  <2>3. CASE x \notin {l[1], l[2]}
    <3>1. ~Has(net, x, l)
      BY <1>1, <2>3 DEF EndsOK, Has
    <3>2. Apart(net, new, l)
      BY <2>1, <3>1 DEF Apart, Reached, IsOpen
    <3>3. Quiet(net, new, l) /\ Silent(net, new, l)
      BY <3>2, ApartIsQuiet DEF Quiet
    <3> QED  BY <1>2, <1>3, <2>1, <2>2, <2>3, <3>3, StepLink
  <2>4. CASE x \in {l[1], l[2]}
    <3> DEFINE o == Other(x, l)
    <3>1. /\ {l[1], l[2]} = {x, o} /\ o # x /\ o \in Nodes /\ Other(o, l) = x
          /\ l[1] \in {x, o} /\ l[2] \in {x, o}
      BY <2>4, LinkFacts
    <3> HIDE DEF o
    <3>2. /\ node'[x] = s /\ node'[o] = node[o]
      BY <1>3, <3>1 DEF Moves
    <3>3. \A z : /\ IsOpen(new, z, l) <=> IsOpen(net, z, l)
                 /\ IsOpening(new, z, l) <=> IsOpening(net, z, l)
      BY <2>1 DEF IsOpen, IsOpening
    <3>4. SameEnd(net, new, x, l) /\ (~IsOpen(net, x, l) => SameEnd(net, new, o, l))
      BY <2>1 DEF Reached
    <3>5. \A z \in {x, o} : /\ Owns(node'[z], l) <=> Owns(node[z], l)
                            /\ Marked(node'[z], l) <=> Marked(node[z], l)
      BY <1>6, <3>2 DEF Owns
    <3>6. \A z \in {l[1], l[2]} : EndOwned(node', new, z, l)
      BY <2>1, <2>2, <3>1, <3>3, <3>5 DEF LinkOK, Spoken, EndOwned
    <3>7. EndHears(node', new, x, l)
      BY <2>1, <2>2, <3>1, <3>2, <3>3, <3>4, <3>5 DEF LinkOK, Spoken, EndHears, Hears, SameEnd, o
    <3>8. EndHears(node', new, o, l)
      <4> SUFFICES ASSUME Has(new, o, l), IsOpen(new, x, l)
                   PROVE  Hears(node'[o], new[<<o, l>>].inbox, l) <=> Vocal(s)
        BY <3>1, <3>2 DEF EndHears
      <4>1. Reached(net, x, Links, o, l) /\ Has(net, o, l)
        BY <2>1, <3>1, <3>3 DEF Reached
      <4> QED  BY <1>4, <2>1, <4>1 DEF Hears
    <3>9. EndsInOrder(node', new, l)
      <4>1. Has(new, l[2], l) => ~IsOpening(new, l[1], l)
        BY <2>1, <2>2, <3>3 DEF LinkOK, Spoken, EndsInOrder
      <4>2. ASSUME Has(new, l[1], l), IsOpening(new, l[1], l) \/ IsOpening(new, l[2], l)
            PROVE  new[<<l[1], l>>].inbox = <<>> /\ ~Marked(node'[l[1]], l)
        <5>1. net[<<l[1], l>>].inbox = <<>> /\ ~Marked(node[l[1]], l) /\ Has(net, l[1], l)
          BY <2>1, <2>2, <3>3, <4>2 DEF LinkOK, Spoken, EndsInOrder
        <5>2. SameEnd(net, new, l[1], l)
          <6>1. l[1] = o => ~IsOpen(net, x, l)
            BY <2>1, <2>2, <3>1, <3>3, <4>2 DEF LinkOK, Spoken, EndsInOrder, IsOpen, IsOpening
          <6> QED  BY <3>1, <3>4, <6>1
        <5> QED  BY <3>1, <3>5, <5>1, <5>2 DEF SameEnd
      <4> QED  BY <4>1, <4>2 DEF EndsInOrder
    <3>10. ListsFit(node', new, l)
      <4>1. node'[l[1]].id = node[l[1]].id
        BY <1>2, <3>1, <3>2
      <4>2. node'[Lobby].remote = node[Lobby].remote
        BY <1>2, <1>3, LANAssumption DEF Moves, Nodes
      <4> QED  BY <2>1, <2>2, <4>1, <4>2, ListsKept DEF LinkOK
    <3> QED  BY <3>1, <3>6, <3>7, <3>8, <3>9, <3>10 DEF LinkOK, Spoken
  <2> QED  BY <2>3, <2>4
<1> QED  BY <1>3, <1>5, <1>7, ReadyNow DEF LinksOK

\* A player hears of its peer's readiness: the number of the link is marked as
\* the command says, and the commands behind it say what they said.
LEMMA HeardKeepsReady ==
  ASSUME MeshInv, ReadyInv, NEW x \in Nodes, NEW l \in Links, PeerReady(x, l) \/ PeerNotReady(x, l)
  PROVE  ReadyInv'
<1> DEFINE old == node[x]
           own == OwnerOf(old, l)
           new == Consumed(x, l)
           box == net[<<x, l>>].inbox
<1>1. /\ old \in State /\ EndsOK(net) /\ Attentive(x, old)
  BY DEF MeshInv, ReadyInv
<1>1a. PICK type \in Words : \E s :
         /\ Arrives(x, l, type)
         /\ Become(x, s, new)
         /\ s.id = old.id /\ s.remote = old.remote /\ s.phase = old.phase
         /\ s.players = old.players /\ s.ports = old.ports /\ s.listed = old.listed
         /\ s.ready = IF type = "ready" THEN old.ready \cup own ELSE old.ready \ own
  <2>1. CASE PeerReady(x, l)
    <3> DEFINE t == [old EXCEPT !.ready = @ \cup own]
    <3>1. Become(x, t, new) /\ Arrives(x, l, "ready")
      BY <2>1 DEF PeerReady
    <3>2. /\ t.id = old.id /\ t.remote = old.remote /\ t.phase = old.phase
          /\ t.players = old.players /\ t.ports = old.ports /\ t.listed = old.listed
          /\ t.ready = old.ready \cup own
      BY <1>1 DEF State
    <3> HIDE DEF t, old, own, new
    <3> QED  BY <3>1, <3>2 DEF Words
  <2>2. CASE PeerNotReady(x, l)
    <3> DEFINE t == [old EXCEPT !.ready = @ \ own]
    <3>1. Become(x, t, new) /\ Arrives(x, l, "not ready")
      BY <2>2 DEF PeerNotReady
    <3>2. /\ t.id = old.id /\ t.remote = old.remote /\ t.phase = old.phase
          /\ t.players = old.players /\ t.ports = old.ports /\ t.listed = old.listed
          /\ t.ready = old.ready \ own
      BY <1>1 DEF State
    <3> HIDE DEF t, old, own, new
    <3> QED  BY <3>1, <3>2 DEF Words
  <2> QED  BY <2>1, <2>2
<1>2. PICK s :
         /\ type \in Words
         /\ Arrives(x, l, type)
         /\ Become(x, s, new)
         /\ s.id = old.id /\ s.remote = old.remote /\ s.phase = old.phase
         /\ s.players = old.players /\ s.ports = old.ports /\ s.listed = old.listed
         /\ s.ready = IF type = "ready" THEN old.ready \cup own ELSE old.ready \ own
  BY <1>1a
<1>3. Moves(node, node', x, s) /\ net' = new
  BY <1>2, BecomeMoves
<1>4. /\ IsOpen(net, x, l) /\ Has(net, x, l) /\ x \in {l[1], l[2]}
      /\ box \in Seq(Message) /\ box # <<>> /\ Head(box).type = type
  BY <1>1, <1>2 DEF Arrives, IsOpen, Has, EndsOK, LinkEnd
<1>5. \A i \in own : i \in Ids /\ old.remote[i] = l /\ l # NoLink
  BY LinkFacts DEF OwnerOf
<1>6. old.id \notin own
  BY <1>1, <1>5 DEF Attentive
<1>7. Vocal(s) <=> Vocal(old)
  BY <1>2, <1>6 DEF Vocal
<1>8. Attentive(x, s)
  <2>1. \A i \in s.ready : i = s.id \/ s.remote[i] # NoLink
    BY <1>1, <1>2, <1>5 DEF Attentive
  <2> HIDE DEF old
  <2> QED  BY <1>1, <1>2, <1>7, <2>1 DEF Attentive
<1>9. \A m : OwnerOf(s, m) = OwnerOf(old, m)
  BY <1>2 DEF OwnerOf
<1>10. ASSUME NEW m \in Links
       PROVE  /\ \A z : Has(new, z, m) <=> Has(net, z, m)
              /\ \A z : z # x \/ m # l => SameEnd(net, new, z, m)
              /\ m = l => /\ new[<<x, m>>].state = net[<<x, m>>].state
                          /\ new[<<x, m>>].inbox = Tail(net[<<x, m>>].inbox)
              /\ \A z : NoNews(net, new, z, m)
  BY <1>1, <1>2, ConsumedEnds
<1> HIDE DEF new
<1>11. ASSUME NEW m \in Links, m # l
       PROVE  LinkOK(node', new, m)
  <2>1. LinkOK(node, net, m)
    BY DEF ReadyInv, LinksOK
  <2>2. SameFor(old, s, m)
    <3>1. OwnerOf(old, m) \cap own = {}
      BY <1>11 DEF OwnerOf
    <3>2. Marked(s, m) <=> Marked(old, m)
      BY <1>2, <1>9, <3>1 DEF Marked
    <3> QED  BY <1>7, <1>9, <3>2 DEF SameFor
  <2>3. Quiet(net, new, m) /\ Silent(net, new, m)
    BY <1>10, <1>11, ApartIsQuiet DEF Apart, Quiet
  <2>4. PlayerStays(old, s, new, x, m) \/ x \notin {m[1], m[2]}
    BY <1>10, <2>1, <2>2 DEF PlayerStays, SameFor, LinkOK, Spoken, EndOwned, Owns
  <2> QED  BY <1>2, <1>3, <1>10, <2>1, <2>3, <2>4, StepLink
<1>12. LinkOK(node', new, l)
  <2> DEFINE o == Other(x, l)
  <2>0. LinkOK(node, net, l)
    BY DEF ReadyInv, LinksOK
  <2>1. /\ {l[1], l[2]} = {x, o} /\ o # x /\ o \in Nodes /\ Other(o, l) = x
        /\ l[1] \in {x, o} /\ l[2] \in {x, o}
    BY <1>4, LinkFacts
  <2> HIDE DEF o
  <2>2. node'[x] = s /\ node'[o] = node[o]
    BY <1>3, <2>1 DEF Moves
  <2>3. \A z \in {x, o} : /\ Has(new, z, l) <=> Has(net, z, l)
                          /\ IsOpen(new, z, l) <=> IsOpen(net, z, l)
                          /\ IsOpening(new, z, l) <=> IsOpening(net, z, l)
    BY <1>10, <2>1 DEF IsOpen, IsOpening, SameEnd
  <2>4. SameEnd(net, new, o, l) /\ new[<<x, l>>].inbox = Tail(box)
    BY <1>10, <2>1
  <2>5. \A z \in {x, o} : Owns(node'[z], l) <=> Owns(node[z], l)
    BY <1>9, <2>2 DEF Owns
  <2>6. \A z \in {l[1], l[2]} : EndOwned(node', new, z, l)
    BY <2>0, <2>1, <2>3, <2>5 DEF LinkOK, Spoken, EndOwned
  <2>7. EndHears(node', new, o, l)
    BY <1>7, <2>0, <2>1, <2>2, <2>3, <2>4 DEF LinkOK, Spoken, EndHears, SameEnd
  <2>8. EndHears(node', new, x, l)
    <3> SUFFICES ASSUME IsOpen(net, o, l)
                 PROVE  Hears(s, Tail(box), l) <=> Vocal(node[o])
      BY <2>1, <2>2, <2>3, <2>4 DEF EndHears, o
    <3>1. Hears(old, box, l) <=> Vocal(node[o])
      BY <1>4, <2>0, <2>1 DEF LinkOK, Spoken, EndHears, o
    <3>2. /\ Said(box) # {}
          /\ IF Said(Tail(box)) = {} THEN LastSays(box) <=> type = "ready"
             ELSE LastSays(box) <=> LastSays(Tail(box))
      <4> HIDE DEF box
      <4> QED  BY <1>4, HeadSaid
    <3>3. own # {}
      BY <1>4, <2>0 DEF LinkOK, Spoken, EndOwned, Owns
    <3>4. Marked(s, l) <=> type = "ready"
      BY <1>2, <1>9, <3>3 DEF Marked
    <3> QED  BY <3>1, <3>2, <3>4 DEF Hears
  <2>9. EndsInOrder(node', new, l)
    <3>1. Has(new, l[2], l) => ~IsOpening(new, l[1], l)
      BY <2>0, <2>1, <2>3 DEF LinkOK, Spoken, EndsInOrder
    <3>2. ASSUME Has(new, l[1], l), IsOpening(new, l[1], l) \/ IsOpening(new, l[2], l)
          PROVE  new[<<l[1], l>>].inbox = <<>> /\ ~Marked(node'[l[1]], l)
      <4>1. net[<<l[1], l>>].inbox = <<>> /\ ~Marked(node[l[1]], l) /\ Has(net, l[1], l)
        BY <2>0, <2>1, <2>3, <3>2 DEF LinkOK, Spoken, EndsInOrder
      <4>2. l[1] = o
        BY <1>4, <2>1, <4>1
      <4> QED  BY <2>2, <2>4, <4>1, <4>2 DEF SameEnd
    <3> QED  BY <3>1, <3>2 DEF EndsInOrder
  <2>10. ListsFit(node', new, l)
    <3>1. node'[l[1]].id = node[l[1]].id
      BY <1>2, <2>1, <2>2
    <3>2. node'[Lobby].remote = node[Lobby].remote
      BY <1>2, <1>3, LANAssumption DEF Moves, Nodes
    <3> QED  BY <1>10, <2>0, <3>1, <3>2, ListsKept DEF LinkOK
  <2> QED  BY <2>1, <2>6, <2>7, <2>8, <2>9, <2>10 DEF LinkOK, Spoken
<1>13. LinksOK(node', net')
  BY <1>3, <1>11, <1>12 DEF LinksOK
<1> QED  BY <1>3, <1>8, <1>13, ReadyNow

\* A client begins: nobody knows of its link yet.
LEMMA StartKeepsReady ==
  ASSUME MeshInv, ReadyInv, NEW c \in Clients, StartClient(c)
  PROVE  ReadyInv'
<1> DEFINE link == LobbyLink(c)
           s == [Idle EXCEPT !.phase = "connecting", !.remote[0] = link]
           made == {<<c, link>>}
           new == WithEnds(net, made)
<1>1. c \in Nodes /\ c # Lobby /\ link \in Links /\ link[1] = c /\ link[2] = Lobby /\ Lobby \in Nodes
  BY LobbyLinkFacts
<1>2. Moves(node, node', c, s) /\ net' = new
  BY <1>1, BecomeMoves DEF StartClient
<1>3. /\ s.id = NoId /\ s.ready = {} /\ s.phase = "connecting" /\ s.listed = FALSE
      /\ \A i \in Slots : s.players[i].status = "none"
      /\ s.remote[0] = link /\ \A i \in Ids : i # 0 => s.remote[i] = NoLink
  <2>1. 0 \in Ids
    BY LANAssumption DEF Ids
  <2> QED  BY <2>1 DEF Idle, Empty
<1>4. 0 \in Ids /\ NoId \notin Ids /\ \A i \in Slots : i \in Ids /\ i # 0
  BY LANAssumption DEF Ids, NoId, Slots
<1> HIDE DEF s, link
<1>5. Attentive(c, s)
  BY <1>1, <1>3, <1>4 DEF Attentive, Vocal
<1>6. \A m : ~Has(net, c, m)
  BY DEF MeshInv, EndsOfRunning, Has, StartClient, Running
<1>7. ~Has(net, Lobby, link)
  BY DEF MeshInv, DialledOnce, StartClient, link
<1>8. \A z, m : /\ Has(new, z, m) <=> Has(net, z, m) \/ <<z, m>> \in made
                /\ <<z, m>> \in made => /\ new[<<z, m>>].state = "opening"
                                        /\ new[<<z, m>>].inbox = <<>>
                /\ <<z, m>> \notin made => SameEnd(net, new, z, m)
  BY WithEndsEnds
<1> HIDE DEF new
<1>9. ASSUME NEW m \in Links, m # link
      PROVE  LinkOK(node', new, m)
  <2>1. LinkOK(node, net, m)
    BY DEF ReadyInv, LinksOK
  <2>2. Quiet(net, new, m) /\ Silent(net, new, m)
    BY <1>8, <1>9, ApartIsQuiet DEF Apart, Quiet
  <2>3. ~Has(new, c, m)
    BY <1>6, <1>8, <1>9
  <2>4. PlayerStays(node[c], s, new, c, m)
    <3>1. ~Owns(s, m)
      BY <1>3, <1>9, LinkFacts DEF Owns, OwnerOf
    <3> QED  BY <2>3, <3>1 DEF PlayerStays
  <2> QED  BY <1>2, <1>8, <2>1, <2>2, <2>3, <2>4, StepLink
<1>10. LinkOK(node', new, link)
  <2>1. LinkOK(node, net, link)
    BY <1>1 DEF ReadyInv, LinksOK
  <2>2. node'[c] = s /\ node'[Lobby] = node[Lobby]
    BY <1>1, <1>2 DEF Moves
  <2>3. ~Owns(node[Lobby], link) /\ Owns(s, link) /\ ~Marked(s, link)
    BY <1>1, <1>3, <1>4, <1>7, <2>1 DEF LinkOK, Spoken, EndOwned, Owns, OwnerOf, Marked
  <2>4. /\ Has(new, c, link) /\ new[<<c, link>>].state = "opening" /\ new[<<c, link>>].inbox = <<>>
        /\ ~Has(new, Lobby, link)
    BY <1>1, <1>7, <1>8
  <2>5. /\ ~IsOpen(new, c, link) /\ ~IsOpen(new, Lobby, link)
        /\ ~IsOpening(new, Lobby, link)
    BY <2>4 DEF IsOpen, IsOpening
  <2>6. Other(c, link) = Lobby /\ Other(Lobby, link) = c
    BY <1>1, LinkFacts
  <2> QED  BY <1>1, <2>2, <2>3, <2>4, <2>5, <2>6
           DEF LinkOK, Spoken, EndOwned, EndHears, EndsInOrder, ListsFit
<1>11. LinksOK(node', net')
  BY <1>2, <1>9, <1>10 DEF LinksOK
<1> QED  BY <1>1, <1>2, <1>5, <1>11, ReadyNow

\* A client is told its number: nobody can have been ready under it before.
LEMMA ClientInitKeepsReady ==
  ASSUME MeshInv, ReadyInv, NEW c \in Clients, NEW l \in Links, ClientInit(c, l)
  PROVE  ReadyInv'
<1> DEFINE old == node[c]
           id == Command(c, l).id
           t == [old EXCEPT !.id = id]
           eaten == Consumed(c, l)
           new == Sent(eaten, c, {l}, <<[type |-> "info", id |-> id]>>)
<1>1. Arrives(c, l, "init") /\ Has(net, c, l)
  BY DEF ClientInit, Arrives, IsOpen
<1>2. c \in Nodes /\ c # Lobby /\ old \in State /\ Consistent(c, old) /\ InSession(old)
      /\ EndsOK(net) /\ Attentive(c, old)
  BY <1>1, EndFacts, LANAssumption DEF ReadyInv
<1>3. /\ EndsOK(eaten)
      /\ Command(c, l) \in Message /\ Command(c, l).type = "init"
      /\ Carries(net, <<c, l>>, Command(c, l))
  BY <1>1, <1>2, MildConsumed DEF Mild
<1>4. id \in Slots /\ id \in Ids
  BY <1>3, MessageKinds DEF Slots
<1>5. ASSUME NEW m \in Links
      PROVE  Quiet(net, eaten, m) /\ \A z : Has(eaten, z, m) <=> Has(net, z, m)
  <2>1. "init" \notin Words
    BY DEF Words
  <2> HIDE DEF old, id
  <2>2. Quiet(net, eaten, m)
    BY <1>1, <1>2, <2>1, ConsumedEnds
  <2>3. \A z : Has(eaten, z, m) <=> Has(net, z, m)
    BY <1>1, <1>2, ConsumedEnds, Zenon
  <2> QED  BY <2>2, <2>3
<1>6. CASE ~(old.phase = "connecting" /\ old.id = NoId /\ l = old.remote[0])
  <2>1. Become(c, old, eaten)
    BY <1>6 DEF ClientInit
  <2>2. SameMind(old, old)
    BY DEF SameMind
  <2> QED  BY <1>2, <1>5, <2>1, <2>2, SameMindKeeps
<1>7. CASE old.phase = "connecting" /\ old.id = NoId /\ l = old.remote[0]
  <2>1. Become(c, t, new)
    BY <1>7 DEF ClientInit
  <2>2. Moves(node, node', c, t) /\ net' = new
    BY <1>2, <2>1, BecomeMoves
  <2>3. /\ t.id = id /\ t.remote = old.remote /\ t.ready = old.ready /\ t.phase = old.phase
        /\ t.players = old.players /\ t.listed = old.listed
    BY <1>2 DEF State
  <2> HIDE DEF t
  <2>4. \A m \in Links : Quiet(net, new, m) /\ \A z : Has(new, z, m) <=> Has(net, z, m)
    <3> DEFINE info == [type |-> "info", id |-> id]
               cmds == <<info>>
    <3>1. info \in Message /\ info.type = "info"
      BY <1>4 DEF Message
    <3> HIDE DEF info, id
    <3>2. cmds \in Seq(Message) /\ \A n \in DOMAIN cmds : cmds[n] = info
      BY <3>1
    <3>3. \A n \in DOMAIN cmds : cmds[n].type \notin Words \cup {"init", "list"}
      BY <3>1, <3>2 DEF Words
    <3> HIDE DEF cmds, eaten
    <3>4. new = Sent(eaten, c, {l}, cmds)
      BY DEF cmds, info
    <3> HIDE DEF new
    <3> SUFFICES ASSUME NEW m \in Links
                 PROVE  Quiet(net, new, m) /\ \A z : Has(new, z, m) <=> Has(net, z, m)
      OBVIOUS
    <3>5. Silent(eaten, new, m) /\ \A z \in {m[1], m[2]} : NoNews(eaten, new, z, m)
      BY <1>3, <3>2, <3>3, <3>4, SentIsQuiet
    <3>6. \A z : Has(new, z, m) <=> Has(eaten, z, m)
      BY <3>4 DEF Sent, Has
    <3> QED  BY <1>5, <3>5, <3>6, QuietTrans DEF Quiet
  <2> HIDE DEF new, eaten
  <2>5. ~Vocal(old) /\ ~Vocal(t) /\ NoId \notin Ids
    <3>1. NoId \notin Ids
      BY DEF NoId, Ids
    <3>2. ~Vocal(old)
      BY <1>2, <1>7, <3>1 DEF State, Vocal
    <3>3. old.remote[id] = NoLink
      BY <1>2, <1>4, <1>7 DEF Attentive
    <3>4. id \notin old.ready
      BY <1>2, <1>4, <1>7, <3>1, <3>3 DEF Attentive
    <3> QED  BY <2>3, <3>1, <3>2, <3>4 DEF Vocal
  <2>6. Attentive(c, t)
    <3>1. old.remote[id] = NoLink
      BY <1>2, <1>4, <1>7 DEF Attentive
    <3>2. \A i \in t.ready : i = t.id \/ t.remote[i] # NoLink
      BY <1>2, <1>7, <2>3, <2>5 DEF Attentive, State
    <3>3. t.phase = "connecting" /\ ~t.listed
      BY <1>2, <1>7, <2>3 DEF Attentive, State
    <3> QED  BY <1>2, <1>4, <2>3, <2>5, <3>1, <3>2, <3>3 DEF Attentive
  <2>7. \A m : SameFor(old, t, m)
    BY <2>3, <2>5 DEF SameFor, OwnerOf, Marked
  <2>8. ASSUME NEW m \in Links
        PROVE  LinkOK(node', new, m)
    <3>1. LinkOK(node, net, m)
      BY DEF ReadyInv, LinksOK
    <3>2. c \in {m[1], m[2]} => PlayerStays(old, t, new, c, m)
      BY <2>4, <2>7, <3>1 DEF PlayerStays, SameFor, LinkOK, Spoken, EndOwned, Owns
    <3>3. Spoken(node', new, m)
      BY <2>2, <2>4, <3>1, <3>2, StepLink DEF Quiet
    <3>4. ListsFit(node', new, m)
      <4> SUFFICES ASSUME m[2] = Lobby, Has(new, m[1], m), NEW i \in Slots, Given(node', new, m, i)
                   PROVE  Given(node, net, m, i)
        BY <2>4, <3>1, ListsStill DEF Quiet, LinkOK
      <4>1. \/ node[m[1]].id = i \/ node[Lobby].remote[i] = m
            \/ \E n \in DOMAIN new[<<m[1], m>>].inbox :
                  /\ new[<<m[1], m>>].inbox[n].type = "init"
                  /\ new[<<m[1], m>>].inbox[n].id = i
            \/ m[1] = c /\ id = i
        BY <1>2, <2>2, <2>3, LinkFacts, LobbyLinkFacts DEF Given, Moves
      <4>2. CASE m[1] = c /\ id = i
        <5>1. m = l
          BY <1>2, <1>7, <4>2, LinkFacts DEF Consistent
        <5> QED  BY <1>3, <4>2, <5>1 DEF Given, Carries
      <4>3. NoNews(net, new, m[1], m)
        BY <2>4 DEF Quiet
      <4> QED  BY <4>1, <4>2, <4>3 DEF Given, NoNews, Carries
    <3> QED  BY <3>3, <3>4 DEF LinkOK
  <2>9. LinksOK(node', net')
    BY <2>2, <2>8 DEF LinksOK
  <2> QED  BY <1>2, <2>2, <2>6, <2>9, ReadyNow
<1> QED  BY <1>6, <1>7

\* A player lets go of the numbers in is, and of the ends of their links.
LetsGo(s, t, is) ==
    /\ t.id = s.id /\ t.ready = s.ready \ is
    /\ \A i \in Ids : t.remote[i] = IF i \in is THEN NoLink ELSE s.remote[i]
    /\ s.id \in is => ~Vocal(s)

LEMMA LetGoLinks ==
  ASSUME NEW nodes, NEW moved, NEW x, NEW t, Moves(nodes, moved, x, t),
         NEW is, LetsGo(nodes[x], t, is),
         NEW ends, NEW new, LinksOK(nodes, ends),
         \A l \in Links :
            /\ Quiet(ends, new, l)
            /\ \A z : z # x /\ Has(ends, z, l) => Has(new, z, l)
            /\ IF Has(new, x, l) THEN OwnerOf(nodes[x], l) \cap is = {}
               ELSE Has(ends, x, l) => OwnerOf(nodes[x], l) \subseteq is
  PROVE  LinksOK(moved, new)
<1> DEFINE s == nodes[x]
<1> SUFFICES ASSUME NEW l \in Links
             PROVE  LinkOK(moved, new, l)
  BY DEF LinksOK
<1>1. LinkOK(nodes, ends, l) /\ l # NoLink
  BY LinkFacts DEF LinksOK
<1>2. OwnerOf(t, l) = OwnerOf(s, l) \ is
  BY <1>1 DEF OwnerOf, LetsGo
<1>3. Vocal(t) <=> Vocal(s)
  BY DEF Vocal, LetsGo
<1>4. x \in {l[1], l[2]} => PlayerStays(s, t, new, x, l)
  <2>1. CASE Has(new, x, l)
    <3>1. OwnerOf(t, l) = OwnerOf(s, l) /\ OwnerOf(s, l) \cap is = {}
      BY <1>2, <2>1
    <3>2. Marked(t, l) <=> Marked(s, l)
      BY <3>1 DEF Marked, LetsGo
    <3> QED  BY <1>3, <2>1, <3>1, <3>2 DEF PlayerStays, SameFor
  <2>2. CASE ~Has(new, x, l)
    <3>1. x \in {l[1], l[2]} => (Owns(s, l) => Has(ends, x, l))
      BY <1>1 DEF LinkOK, Spoken, EndOwned
    <3> QED  BY <1>2, <2>2, <3>1 DEF PlayerStays, Owns
  <2> QED  BY <2>1, <2>2
<1>5. Quiet(ends, new, l) /\ Silent(ends, new, l) /\ t.id = s.id
  BY DEF Quiet, LetsGo
<1> HIDE DEF s
<1>6. \A z \in {l[1], l[2]} : z # x /\ Has(ends, z, l) => Has(new, z, l)
  OBVIOUS
<1> QED  BY <1>1, <1>4, <1>5, <1>6, StepLink DEF s

\* The lobby sends its list: whoever is sent it has the number of the link.
LEMMA HostUpdateKeepsLinks ==
  ASSUME NEW nodes, NEW ends, EndsOK(ends), LinksOK(nodes, ends),
         NEW s \in State, nodes[Lobby] = s, Attentive(Lobby, s), Consistent(Lobby, s),
         NEW count \in 0..MaxPlayers, NEW new, new = HostUpdatePlayerList(ends, s, count),
         \A y \in Clients : \A i, j \in Slots :
            Claimed(nodes, new, y, i) /\ Claimed(nodes, new, y, j) => i = j
  PROVE  LinksOK(nodes, new)
<1> DEFINE list == [type |-> "list", players |-> s.players, count |-> count]
           ports == [type |-> "ports", ports |-> s.ports]
           cmds == <<list, ports>>
<1>1. /\ list \in Message /\ ports \in Message
      /\ list.type = "list" /\ list.players = s.players /\ ports.type = "ports"
  <2>1. s.players \in [Slots -> Player] /\ s.ports \in Ports
    BY DEF State
  <2> QED  BY <2>1 DEF Message
<1>2. new = Sent(ends, Lobby, Links, cmds)
  BY DEF HostUpdatePlayerList, Broadcast
<1> HIDE DEF list, ports
<1>3. cmds \in Seq(Message) /\ \A n \in DOMAIN cmds : cmds[n] \in {list, ports}
  <2>1. cmds \in Seq(Message) /\ DOMAIN cmds = 1..2 /\ cmds[1] = list /\ cmds[2] = ports
    BY <1>1
  <2>2. \A n \in 1..2 : n = 1 \/ n = 2
    OBVIOUS
  <2> QED  BY <2>1, <2>2
<1> HIDE DEF cmds
<1>4. \A n \in DOMAIN cmds : cmds[n].type \notin Words \cup {"init"}
  BY <1>1, <1>3 DEF Words
<1> SUFFICES ASSUME NEW l \in Links
             PROVE  LinkOK(nodes, new, l)
  BY DEF LinksOK
<1>5. LinkOK(nodes, ends, l)
  BY DEF LinksOK
<1>6. Silent(ends, new, l)
  BY <1>2, <1>3, <1>4, SentIsQuiet
<1>7. ASSUME NEW z
      PROVE  /\ Has(new, z, l) <=> Has(ends, z, l)
             /\ Has(ends, z, l) => new[<<z, l>>].state = ends[<<z, l>>].state
             /\ Reached(ends, Lobby, Links, z, l) /\ Has(ends, z, l) =>
                   new[<<z, l>>].inbox = ends[<<z, l>>].inbox \o cmds
             /\ ~Reached(ends, Lobby, Links, z, l) => SameEnd(ends, new, z, l)
  BY <1>2, SentEnds, Zenon
<1>8. Spoken(nodes, new, l)
  <2>1. \A z \in {l[1], l[2]} : PlayerStays(nodes[z], nodes[z], new, z, l)
    BY <1>5, <1>7 DEF PlayerStays, SameFor, LinkOK, Spoken, EndOwned
  <2> QED  BY <1>5, <1>6, <2>1, SpokenKept DEF LinkOK
<1>9. ListsFit(nodes, new, l)
  <2> DEFINE y == l[1]
             box == ends[<<y, l>>].inbox
             whole == new[<<y, l>>].inbox
  <2> SUFFICES ASSUME l[2] = Lobby, Has(new, y, l), NEW n \in DOMAIN whole, whole[n].type = "list",
                      NEW i \in Slots, Given(nodes, new, l, i)
               PROVE  whole[n].players[i].machine = Machine[y]
    BY DEF ListsFit
  <2>1. y \in Clients /\ y # Lobby /\ Other(Lobby, l) = y /\ Has(ends, y, l) /\ l # NoLink
    BY <1>7, LinkFacts
  <2>2. box \in Seq(Message)
    BY <2>1 DEF EndsOK, Has, LinkEnd
  <2>3. CASE ~IsOpen(ends, Lobby, l)
    <3>1. whole = box
      BY <1>7, <2>1, <2>3 DEF Reached, SameEnd
    <3>2. Given(nodes, ends, l, i)
      BY <3>1 DEF Given
    <3> QED  BY <1>5, <2>1, <3>1, <3>2 DEF LinkOK, ListsFit
  <2>4. CASE IsOpen(ends, Lobby, l)
    <3>1. whole = box \o cmds
      BY <1>7, <2>1, <2>4 DEF Reached
    <3> HIDE DEF box, whole
    <3>2. \A k \in DOMAIN whole : \/ k \in DOMAIN box /\ whole[k] = box[k]
                                  \/ k - Len(box) \in DOMAIN cmds /\ whole[k] = cmds[k - Len(box)]
      BY <1>3, <2>2, <3>1, AppendedFacts
    <3>3. Given(nodes, ends, l, i)
      BY <1>4, <3>2 DEF Given, box, whole
    <3>4. CASE n \in DOMAIN box /\ whole[n] = box[n]
      BY <1>5, <2>1, <3>3, <3>4 DEF LinkOK, ListsFit, box
    <3>5. CASE n - Len(box) \in DOMAIN cmds /\ whole[n] = cmds[n - Len(box)]
      <4>1. whole[n].players = s.players
        BY <1>1, <1>3, <3>5
      <4>2. PICK j \in Ids : s.remote[j] = l
        BY <1>5, <2>4 DEF LinkOK, Spoken, EndOwned, Owns, OwnerOf
      <4>3. j \in Slots /\ s.players[j].status # "none" /\ s.ports[j] = y
        BY <2>1, <4>2 DEF Consistent, Slots
      <4>4. s.players[j].machine = Machine[y]
        BY <4>3 DEF Attentive
      <4>5. Lobby \in Nodes /\ y \in Clients
        BY <2>1 DEF Nodes
      <4>6. Claimed(nodes, new, y, j)
        BY <4>3, <4>5 DEF Claimed
      <4>7. Claimed(nodes, new, y, i)
        <5>1. CASE nodes[y].id = i
          BY <5>1 DEF Claimed
        <5>2. CASE s.remote[i] = l
          <6>1. s.ports[i] = y
            BY <2>1, <5>2 DEF Consistent
          <6> QED  BY <4>5, <6>1 DEF Claimed
        <5>3. CASE \E k \in DOMAIN whole : whole[k].type = "init" /\ whole[k].id = i
          <6>1. <<y, l>> \in DOMAIN new
            BY DEF Has
          <6> QED  BY <5>3, <6>1 DEF Claimed, Gives, whole
        <5> QED  BY <5>1, <5>2, <5>3 DEF Given, whole
      <4>8. i = j
        BY <2>1, <4>3, <4>6, <4>7
      <4> QED  BY <4>1, <4>4, <4>8
    <3> QED  BY <3>2, <3>4, <3>5
  <2> QED  BY <2>3, <2>4
<1> QED  BY <1>8, <1>9 DEF LinkOK

LEMMA DisconnectKeepsReady ==
  ASSUME SessionInv, ReadyInv, MeshInv', NEW x, NEW l, Disconnect(x, l)
  PROVE  ReadyInv'
<1> USE DEF SessionInv
<1> DEFINE s == node[x]
           owner == OwnerOf(s, l)
           rest == Closed(net, x, {l})
           cleared == ClearPeers(s, owner)
<1>1. Has(net, x, l)
  BY DEF Disconnect
<1>2. /\ x \in Nodes /\ s \in State /\ Consistent(x, s) /\ InSession(s) /\ Running(x)
      /\ EndsOK(net) /\ l \in Links
  BY <1>1, EndFacts
<1>3. Attentive(x, s) /\ LinksOK(node, net) /\ s.id \notin owner
  <2>1. Attentive(x, s) /\ LinksOK(node, net)
    BY <1>2 DEF ReadyInv
  <2>2. l # NoLink
    BY <1>2, LinkFacts
  <2> QED  BY <2>1, <2>2 DEF Attentive, OwnerOf
<1>4. ASSUME NEW t, LetsGo(s, t, owner), Moves(node, node', x, t)
      PROVE  LinksOK(node', rest)
  <2> SUFFICES ASSUME NEW m \in Links
               PROVE  /\ Quiet(net, rest, m)
                      /\ \A z : z # x /\ Has(net, z, m) => Has(rest, z, m)
                      /\ IF Has(rest, x, m) THEN OwnerOf(s, m) \cap owner = {}
                         ELSE Has(net, x, m) => OwnerOf(s, m) \subseteq owner
    BY <1>3, <1>4, LetGoLinks
  <2>1. /\ Quiet(net, rest, m)
        /\ \A z : Has(rest, z, m) <=> Has(net, z, m) /\ ~(z = x /\ m \in {l})
    BY ClosedEnds
  <2>2. m # l => OwnerOf(s, m) \cap owner = {}
    BY DEF OwnerOf
  <2> QED  BY <2>1, <2>2
<1>5. CASE owner = {}
  <2>1. Become(x, s, rest)
    BY <1>5 DEF Disconnect
  <2>2. Moves(node, node', x, s) /\ net' = rest
    BY <1>2, <2>1, BecomeMoves
  <2>3. LetsGo(s, s, owner)
    BY <1>5 DEF LetsGo
  <2> HIDE DEF s, owner, rest
  <2> QED  BY <1>2, <1>3, <1>4, <2>2, <2>3, ReadyNow
<1>6. CASE owner # {} /\ x # Lobby /\ l = s.remote[0]
  BY <1>2, <1>6, EndSessionKeepsReady DEF Disconnect
<1>7. ASSUME owner # {}, x = Lobby \/ l # s.remote[0]
      PROVE  /\ owner \subseteq Slots /\ cleared \in State /\ Consistent(x, cleared)
             /\ LetsGo(s, cleared, owner)
             /\ cleared.phase = s.phase /\ cleared.listed = s.listed
             /\ cleared.players = s.players /\ cleared.ports = s.ports
  <2>1. owner \subseteq Slots
    BY <1>1, <1>7, OwnerFacts
  <2> HIDE DEF s, owner
  <2>2. /\ cleared \in State /\ Consistent(x, cleared)
        /\ cleared.phase = s.phase /\ cleared.id = s.id /\ cleared.players = s.players
        /\ cleared.ports = s.ports
        /\ \A i \in Ids : cleared.remote[i] = IF i \in owner THEN NoLink ELSE s.remote[i]
    BY <1>2, <2>1, ClearedFacts
  <2>3. cleared.ready = s.ready \ owner /\ cleared.listed = s.listed
    BY <1>2 DEF ClearPeers, State
  <2> HIDE DEF cleared
  <2> QED  BY <1>3, <2>1, <2>2, <2>3 DEF LetsGo
<1>8. CASE owner # {} /\ x # Lobby /\ l # s.remote[0]
  <2>1. Become(x, cleared, rest)
    BY <1>8 DEF Disconnect
  <2>2. Moves(node, node', x, cleared) /\ net' = rest
    BY <1>2, <2>1, BecomeMoves
  <2>3. /\ owner \subseteq Slots /\ LetsGo(s, cleared, owner)
        /\ cleared.phase = s.phase /\ cleared.listed = s.listed /\ cleared.players = s.players
    BY <1>7, <1>8
  <2> HIDE DEF s, owner, rest, cleared
  <2>4. Attentive(x, cleared)
    <3>1. \A i \in Slots : i \in Ids
      BY DEF Slots
    <3>2. s.ready \subseteq Ids
      BY <1>2 DEF State
    <3>3. Vocal(cleared) => Vocal(s)
      BY <2>3 DEF LetsGo, Vocal
    <3> QED  BY <1>3, <1>8, <2>3, <3>1, <3>2, <3>3 DEF Attentive, LetsGo
  <2> QED  BY <1>2, <1>4, <2>2, <2>3, <2>4, ReadyNow
<1>9. CASE owner # {} /\ x = Lobby
  <2> DEFINE players == [i \in Slots |-> IF i \in owner THEN Empty ELSE cleared.players[i]]
             ports == [i \in Slots |-> IF i \in owner THEN NoPort ELSE cleared.ports[i]]
             left == [cleared EXCEPT !.players = players, !.ports = ports]
             new == HostUpdatePlayerList(rest, left, numPlayers - 1)
  <2>1. Become(x, left, new)
    BY <1>9 DEF Disconnect
  <2>2. numPlayers - 1 \in 0..MaxPlayers
    <3>1. numPlayers = 1 + Cardinality(Taken(s)) /\ numPlayers \in 0..MaxPlayers
      BY <1>2, <1>9 DEF SeatsAreCounted, Taken, TypeOK
    <3> QED  BY <3>1, TakenIsFinite, LANAssumption
  <2>3. /\ owner \subseteq Slots /\ cleared \in State /\ Consistent(x, cleared)
        /\ LetsGo(s, cleared, owner)
        /\ cleared.phase = s.phase /\ cleared.listed = s.listed
        /\ cleared.players = s.players /\ cleared.ports = s.ports
    BY <1>7, <1>9
  <2> HIDE DEF s, owner, rest, cleared
  <2>4. players \in [Slots -> Player] /\ ports \in Ports
    <3>1. cleared.players \in [Slots -> Player] /\ cleared.ports \in Ports
      BY <2>3 DEF State
    <3> QED  BY <3>1 DEF Player, Ports, Empty
  <2>5. \A i \in Slots : IF i \in owner THEN players[i].status = "none"
                         ELSE players[i] = s.players[i] /\ ports[i] = s.ports[i]
    BY <2>3 DEF Empty
  <2> HIDE DEF players, ports
  <2>6. /\ left.players = players /\ left.ports = ports
        /\ left.id = cleared.id /\ left.phase = cleared.phase /\ left.remote = cleared.remote
        /\ left.ready = cleared.ready
    BY <2>3 DEF State
  <2> HIDE DEF left
  <2>7. Attentive(x, left)
    <3>1. s.ready \subseteq Ids
      BY <1>2 DEF State
    <3>2. Vocal(left) => Vocal(s)
      BY <2>3, <2>6 DEF LetsGo, Vocal
    <3>3. \A i \in Slots : left.players[i].status # "none" =>
             left.ports[i] \in Clients /\ left.players[i].machine = Machine[left.ports[i]]
      BY <1>3, <1>9, <2>5, <2>6 DEF Attentive
    <3> QED  BY <1>3, <1>9, <2>3, <2>6, <3>1, <3>2, <3>3 DEF Attentive, LetsGo
  <2> HIDE DEF new
  <2>8. Moves(node, node', x, left) /\ net' = new /\ node'[Lobby] = left
    BY <1>2, <1>9, <2>1, BecomeMoves DEF Moves
  <2>9. left \in State /\ Consistent(Lobby, left) /\ OneNumber'
    BY <1>2, <1>9, <2>8 DEF MeshInv
  <2>10. LinksOK(node', rest)
    <3>1. LetsGo(s, left, owner)
      BY <2>3, <2>6 DEF LetsGo
    <3> QED  BY <1>4, <2>8, <3>1
  <2>11. EndsOK(rest)
    BY <1>2, MildClosed DEF Mild, rest
  <2>12. LinksOK(node', new)
    <3>1. \A y \in Clients : \A i, j \in Slots :
             Claimed(node', new, y, i) /\ Claimed(node', new, y, j) => i = j
      BY <2>8, <2>9 DEF OneNumber
    <3> QED  BY <1>9, <2>2, <2>7, <2>8, <2>9, <2>10, <2>11, <3>1, HostUpdateKeepsLinks DEF new
  <2> QED  BY <1>2, <2>7, <2>8, <2>12, ReadyNow
<1> QED  BY <1>5, <1>6, <1>8, <1>9

LEMMA PlayerInfoKeepsReady ==
  ASSUME SessionInv, ReadyInv, MeshInv', NEW l, PlayerInfo(l)
  PROVE  ReadyInv'
<1> USE DEF SessionInv
<1> DEFINE s == node[Lobby]
           id == Command(Lobby, l).id
           p == [status |-> "client", machine |-> Machine[l[1]]]
           t == [s EXCEPT !.players[id] = p, !.ports[id] = l[1]]
           eaten == Consumed(Lobby, l)
<1>1. Arrives(Lobby, l, "info") /\ Has(net, Lobby, l)
  BY DEF PlayerInfo, Arrives, IsOpen
<1>2. /\ s \in State /\ Consistent(Lobby, s) /\ InSession(s) /\ EndsOK(net) /\ l \in Links
      /\ Lobby \in Nodes /\ Lobby \in {l[1], l[2]} /\ <<Lobby, l>> \in DOMAIN net
  BY <1>1, EndFacts
<1>3. l[1] \in Clients /\ l[2] = Lobby
  BY <1>2, LinkFacts, LANAssumption
<1>4. /\ EndsOK(eaten)
      /\ Command(Lobby, l) \in Message /\ Command(Lobby, l).type = "info"
  BY <1>1, <1>2, MildConsumed DEF Mild
<1>5. id \in Slots
  BY <1>4, MessageKinds
<1>6. ASSUME NEW m \in Links
      PROVE  Quiet(net, eaten, m) /\ \A z : Has(eaten, z, m) <=> Has(net, z, m)
  <2>1. "info" \notin Words
    BY DEF Words
  <2> HIDE DEF s, id
  <2>2. Quiet(net, eaten, m)
    BY <1>1, <1>2, <2>1, ConsumedEnds
  <2>3. \A z : Has(eaten, z, m) <=> Has(net, z, m)
    BY <1>1, <1>2, ConsumedEnds, Zenon
  <2> QED  BY <2>2, <2>3
<1>7. Attentive(Lobby, s) /\ LinksOK(node, net)
  BY <1>2 DEF ReadyInv
<1>8. CASE id \in OwnerOf(s, l)
  <2> DEFINE new == HostUpdatePlayerList(eaten, t, numPlayers)
  <2>1. Become(Lobby, t, new)
    BY <1>8 DEF PlayerInfo
  <2>2. /\ t.id = s.id /\ t.remote = s.remote /\ t.ready = s.ready /\ t.phase = s.phase
        /\ \A i \in Slots : /\ t.players[i] = IF i = id THEN p ELSE s.players[i]
                            /\ t.ports[i] = IF i = id THEN l[1] ELSE s.ports[i]
    <3>1. s.players \in [Slots -> Player] /\ s.ports \in Ports
      BY <1>2 DEF State
    <3> HIDE DEF s, id, p
    <3> QED  BY <1>2, <1>5, <3>1 DEF State, Ports
  <2> HIDE DEF t, eaten
  <2>3. Attentive(Lobby, t)
    <3>1. p.machine = Machine[l[1]]
      OBVIOUS
    <3> HIDE DEF s, p
    <3> QED  BY <1>3, <1>7, <2>2, <3>1 DEF Attentive, Vocal
  <2> HIDE DEF new
  <2>4. Moves(node, node', Lobby, t) /\ net' = new /\ node'[Lobby] = t
    BY <1>2, <2>1, BecomeMoves DEF Moves
  <2>5. t \in State /\ Consistent(Lobby, t) /\ OneNumber'
    BY <1>2, <2>4 DEF MeshInv
  <2>6. LinksOK(node', eaten)
    <3>1. LetsGo(s, t, {})
      BY <2>2 DEF LetsGo
    <3>2. \A m \in Links :
             /\ Quiet(net, eaten, m)
             /\ \A z : z # Lobby /\ Has(net, z, m) => Has(eaten, z, m)
             /\ IF Has(eaten, Lobby, m) THEN OwnerOf(node[Lobby], m) \cap {} = {}
                ELSE Has(net, Lobby, m) => OwnerOf(node[Lobby], m) \subseteq {}
      BY <1>6
    <3> QED  BY <1>7, <2>4, <3>1, <3>2, LetGoLinks
  <2>7. LinksOK(node', new)
    <3>1. \A y \in Clients : \A i, j \in Slots :
             Claimed(node', new, y, i) /\ Claimed(node', new, y, j) => i = j
      BY <2>4, <2>5 DEF OneNumber
    <3>2. numPlayers \in 0..MaxPlayers
      BY DEF TypeOK
    <3> QED  BY <1>4, <2>3, <2>4, <2>5, <2>6, <3>1, <3>2, HostUpdateKeepsLinks DEF new
  <2> QED  BY <1>2, <2>3, <2>4, <2>7, ReadyNow
<1>9. CASE id \notin OwnerOf(s, l)
  <2> DEFINE new == [eaten EXCEPT ![<<Lobby, l>>].state = "closing"]
  <2>1. Become(Lobby, s, new)
    BY <1>9 DEF PlayerInfo
  <2>2. <<Lobby, l>> \in DOMAIN eaten
    BY <1>2 DEF Consumed
  <2> HIDE DEF eaten
  <2>3. ASSUME NEW m \in Links
        PROVE  Quiet(net, new, m) /\ \A z : Has(new, z, m) <=> Has(net, z, m)
    <3>1. Quiet(eaten, new, m) /\ \A z : Has(new, z, m) <=> Has(eaten, z, m)
      BY <1>4, <2>2, MarkIsQuiet
    <3> HIDE DEF new
    <3> QED  BY <1>6, <3>1, QuietTrans DEF Quiet
  <2>4. SameMind(s, s)
    BY DEF SameMind
  <2> HIDE DEF new
  <2> QED  BY <1>2, <2>1, <2>3, <2>4, SameMindKeeps
<1> QED  BY <1>8, <1>9

\* A player takes a link for number i.
Takes(s, t, i, l) ==
    /\ t.id = s.id /\ t.ready = s.ready
    /\ \A j \in Ids : t.remote[j] = IF j = i THEN l ELSE s.remote[j]
    /\ s.remote[i] \in {NoLink, l}

LEMMA TakenLink ==
  ASSUME NEW x, NEW s, Attentive(x, s), NEW i \in Ids, NEW l \in Links, NEW t, Takes(s, t, i, l),
         i # s.id
  PROVE  /\ Owns(t, l) /\ (Marked(t, l) <=> Marked(s, l)) /\ (Vocal(t) <=> Vocal(s))
         /\ \A m \in Links : m # l => SameFor(s, t, m)
<1>1. OwnerOf(t, l) = OwnerOf(s, l) \cup {i}
  BY DEF Takes, OwnerOf
<1>2. i \in s.ready => i \in OwnerOf(s, l)
  BY DEF Attentive, Takes, OwnerOf
<1>3. Marked(t, l) <=> Marked(s, l)
  BY <1>1, <1>2 DEF Marked, Takes
<1>4. Vocal(t) <=> Vocal(s)
  BY DEF Vocal, Takes
<1>5. ASSUME NEW m \in Links, m # l
      PROVE  SameFor(s, t, m)
  <2>1. OwnerOf(t, m) = OwnerOf(s, m)
    BY <1>5, LinkFacts DEF OwnerOf, Takes
  <2>2. Marked(t, m) <=> Marked(s, m)
    BY <2>1 DEF Marked, Takes
  <2> QED  BY <1>4, <2>1, <2>2 DEF SameFor
<1> QED  BY <1>1, <1>3, <1>4, <1>5 DEF Owns

\* Whoever heard nothing over a link yet hears now what x is.
LEMMA LocalReadySaid ==
  ASSUME NEW ends, EndsOK(ends), NEW t, NEW x, NEW l \in Links, IsOpen(ends, x, l),
         NEW new, new = SendLocalReady(ends, t, x, l)
  PROVE  /\ \A z : /\ Has(new, z, l) <=> Has(ends, z, l)
                   /\ Has(ends, z, l) => new[<<z, l>>].state = ends[<<z, l>>].state
         /\ SameEnd(ends, new, x, l)
         /\ \A z, m : m # l => SameEnd(ends, new, z, m)
         /\ \A z \in {l[1], l[2]} : NoNews(ends, new, z, l)
         /\ \A z, s : /\ z # x /\ Has(ends, z, l)
                      /\ Said(ends[<<z, l>>].inbox) = {} /\ ~Marked(s, l)
                      => (Hears(s, new[<<z, l>>].inbox, l) <=> Vocal(t))
<1>1. CASE ~Vocal(t)
  <2>1. new = ends
    BY <1>1 DEF SendLocalReady, Vocal
  <2>2. \A z : NoNews(ends, ends, z, l)
    BY SameIsKept DEF SameEnd
  <2> QED  BY <1>1, <2>1, <2>2 DEF SameEnd, Hears
<1>2. CASE Vocal(t)
  <2> DEFINE ls == {l}
  <2>1. PICK type \in Words : type = "ready" /\ new = Sent(ends, x, ls, <<[type |-> type]>>)
    BY <1>2 DEF SendLocalReady, Vocal, Words
  <2> DEFINE cmds == <<[type |-> type]>>
  <2>2. /\ \A z : /\ Has(new, z, l) <=> Has(ends, z, l)
                  /\ Has(ends, z, l) => new[<<z, l>>].state = ends[<<z, l>>].state
                  /\ ~Reached(ends, x, ls, z, l) => SameEnd(ends, new, z, l)
                  /\ Reached(ends, x, ls, z, l) /\ Has(ends, z, l) =>
                        /\ Said(new[<<z, l>>].inbox) # {}
                        /\ LastSays(new[<<z, l>>].inbox)
        /\ \A z \in {l[1], l[2]} : NoNews(ends, new, z, l)
    <3> DEFINE said == Sent(ends, x, ls, <<[type |-> type]>>)
    <3>1. /\ \A z : /\ Has(said, z, l) <=> Has(ends, z, l)
                    /\ Has(ends, z, l) => said[<<z, l>>].state = ends[<<z, l>>].state
                    /\ ~Reached(ends, x, ls, z, l) => SameEnd(ends, said, z, l)
                    /\ Reached(ends, x, ls, z, l) /\ Has(ends, z, l) =>
                          /\ Said(said[<<z, l>>].inbox) # {}
                          /\ LastSays(said[<<z, l>>].inbox) <=> type = "ready"
          /\ \A z \in {l[1], l[2]} : NoNews(ends, said, z, l)
      <4> HIDE DEF ls
      <4> QED  BY WordSent
    <3>2. new = said /\ type = "ready"
      BY <2>1
    <3> HIDE DEF said
    <3> QED  BY <3>1, <3>2
  <2>3. ASSUME NEW z, NEW m, m # l
        PROVE  SameEnd(ends, new, z, m)
    <3>1. ~Reached(ends, x, ls, z, m)
      BY <2>3 DEF Reached
    <3> HIDE DEF cmds
    <3> QED  BY <2>1, <3>1, SentEnds, Zenon
  <2>4. \A z : Reached(ends, x, ls, z, l) <=> z # x
    BY DEF Reached
  <2> HIDE DEF cmds
  <2>5. \A z, s : z # x /\ Has(ends, z, l) => Hears(s, new[<<z, l>>].inbox, l)
    BY <2>1, <2>2, <2>4 DEF Hears
  <2> QED  BY <1>2, <2>2, <2>3, <2>4, <2>5
<1> QED  BY <1>1, <1>2

\* The end of x opens, for a number x has, or takes now; x says what it is to
\* the other end, which is there since now, or since before and heard nothing.
LEMMA MetLink ==
  ASSUME NEW nodes, NEW moved, NEW x \in Nodes, NEW t, Moves(nodes, moved, x, t),
         NEW l \in Links, x \in {l[1], l[2]},
         Owns(t, l), Marked(t, l) <=> Marked(nodes[x], l),
         NEW ends, LinkOK(nodes, ends, l), IsOpening(ends, x, l),
         NEW mid, EndsOK(mid), IsOpen(mid, x, l), mid[<<x, l>>].inbox = ends[<<x, l>>].inbox,
         LET o == Other(x, l) IN
         IF x = l[1]
         THEN Has(mid, o, l) /\ mid[<<o, l>>].state = "opening" /\ mid[<<o, l>>].inbox = <<>>
         ELSE /\ Has(mid, o, l) <=> Has(ends, o, l)
              /\ Has(mid, o, l) => /\ mid[<<o, l>>].state = ends[<<o, l>>].state
                                   /\ Said(mid[<<o, l>>].inbox) = {},
         NEW new, new = SendLocalReady(mid, t, x, l)
  PROVE  Spoken(moved, new, l)
<1> DEFINE o == Other(x, l)
           s == nodes[x]
<1>1. /\ o \in Nodes /\ o # x /\ {l[1], l[2]} = {x, o} /\ Other(o, l) = x
      /\ l[1] \in {x, o} /\ l[2] \in {x, o} /\ l[1] # l[2]
  BY LinkFacts
<1>2. moved[x] = t /\ moved[o] = nodes[o]
  BY <1>1 DEF Moves
<1>3. /\ \A z : /\ Has(new, z, l) <=> Has(mid, z, l)
                /\ Has(mid, z, l) => new[<<z, l>>].state = mid[<<z, l>>].state
      /\ SameEnd(mid, new, x, l)
      /\ \A n : /\ Has(mid, o, l)
                /\ Said(mid[<<o, l>>].inbox) = {} /\ ~Marked(n, l)
                => (Hears(n, new[<<o, l>>].inbox, l) <=> Vocal(t))
  BY <1>1, LocalReadySaid
<1>4. /\ Spoken(nodes, ends, l) /\ EndsInOrder(nodes, ends, l)
      /\ Has(ends, x, l) /\ EndOwned(nodes, ends, o, l)
  BY <1>1 DEF LinkOK, Spoken, IsOpening
<1>5. /\ Has(new, x, l) /\ IsOpen(new, x, l) /\ ~IsOpening(new, x, l)
      /\ new[<<x, l>>].inbox = ends[<<x, l>>].inbox
  BY <1>3 DEF IsOpen, IsOpening, SameEnd
<1>6. CASE x = l[1]
  <2>1. o = l[2]
    BY <1>1, <1>6
  <2>2. ~Has(ends, o, l) /\ ~Owns(nodes[o], l) /\ ~Marked(nodes[o], l)
    BY <1>4, <1>6, <2>1 DEF EndsInOrder, EndOwned, Owns, Marked
  <2>3. /\ Has(mid, o, l) /\ mid[<<o, l>>].state = "opening" /\ mid[<<o, l>>].inbox = <<>>
        /\ Said(mid[<<o, l>>].inbox) = {}
    BY <1>6 DEF Said
  <2>4. ends[<<x, l>>].inbox = <<>> /\ ~Marked(t, l)
    BY <1>4, <1>6 DEF EndsInOrder
  <2> HIDE DEF o, s
  <2>5. Has(new, o, l) /\ IsOpening(new, o, l) /\ ~IsOpen(new, o, l)
    BY <1>3, <2>3 DEF IsOpening, IsOpen
  <2>6. EndOwned(moved, new, x, l) /\ EndOwned(moved, new, o, l)
    BY <1>2, <1>5, <2>2, <2>5 DEF EndOwned
  <2>7. EndHears(moved, new, x, l)
    BY <1>1, <2>5 DEF EndHears, o
  <2>8. EndHears(moved, new, o, l)
    BY <1>1, <1>2, <1>3, <2>2, <2>3 DEF EndHears
  <2>9. EndsInOrder(moved, new, l)
    BY <1>2, <1>5, <1>6, <2>4 DEF EndsInOrder
  <2> QED  BY <1>1, <2>6, <2>7, <2>8, <2>9 DEF Spoken
<1>7. CASE x = l[2]
  <2>1. o = l[1] /\ x # l[1]
    BY <1>1, <1>7
  <2>2. Has(ends, o, l) => ~IsOpening(ends, o, l) /\ ~Marked(nodes[o], l)
    BY <1>4, <1>7, <2>1 DEF EndsInOrder
  <2>3. /\ Has(mid, o, l) <=> Has(ends, o, l)
        /\ Has(mid, o, l) => /\ mid[<<o, l>>].state = ends[<<o, l>>].state
                             /\ Said(mid[<<o, l>>].inbox) = {}
    BY <2>1
  <2>4. EndHears(nodes, ends, x, l)
    BY <1>1, <1>4 DEF Spoken
  <2> HIDE DEF o
  <2>5. /\ Has(new, o, l) <=> Has(ends, o, l)
        /\ IsOpen(new, o, l) <=> IsOpen(ends, o, l)
        /\ IsOpening(new, o, l) <=> IsOpening(ends, o, l)
    BY <1>3, <2>3 DEF IsOpening, IsOpen
  <2>6. EndOwned(moved, new, x, l) /\ EndOwned(moved, new, o, l)
    BY <1>2, <1>4, <1>5, <2>5 DEF EndOwned
  <2>7. EndHears(moved, new, x, l)
    BY <1>1, <1>2, <1>4, <1>5, <2>4, <2>5 DEF EndHears, Hears, o
  <2>8. EndHears(moved, new, o, l)
    BY <1>1, <1>2, <1>3, <2>2, <2>3 DEF EndHears
  <2>9. EndsInOrder(moved, new, l)
    <3>1. ~IsOpening(new, l[1], l) /\ ~IsOpening(new, l[2], l)
      BY <1>5, <1>7, <2>1, <2>2, <2>5 DEF IsOpening
    <3> QED  BY <3>1 DEF EndsInOrder
  <2> QED  BY <1>1, <2>6, <2>7, <2>8, <2>9 DEF Spoken
<1> QED  BY <1>6, <1>7

Opens(ends, new, x, m) ==
    /\ \A z, l : /\ Has(new, z, l) <=> Has(ends, z, l)
                 /\ z # x \/ l # m => SameEnd(ends, new, z, l)
    /\ new[<<x, m>>].state = "open" /\ new[<<x, m>>].inbox = ends[<<x, m>>].inbox

LEMMA OpensEnd ==
  ASSUME NEW ends, EndsOK(ends), NEW x, NEW m, <<x, m>> \in DOMAIN ends
  PROVE  Opens(ends, [ends EXCEPT ![<<x, m>>].state = "open"], x, m)
<1> DEFINE new == [ends EXCEPT ![<<x, m>>].state = "open"]
<1>1. ASSUME NEW z, NEW l
      PROVE  /\ Has(new, z, l) <=> Has(ends, z, l)
             /\ z # x \/ l # m => SameEnd(ends, new, z, l)
             /\ new[<<x, m>>].state = "open" /\ new[<<x, m>>].inbox = ends[<<x, m>>].inbox
  BY OpenedEnds
<1> HIDE DEF new
<1> QED  BY <1>1 DEF Opens, new

\* The lobby gives a number to a client, and says what it is itself.
LEMMA SeatKeepsReady ==
  ASSUME MeshInv, ReadyInv, NEW l, Seat(l)
  PROVE  ReadyInv'
<1> DEFINE s == node[Lobby]
           y == l[1]
           free == {i \in Slots : s.players[i].status = "none"}
           id == Least(free)
           seated == [s EXCEPT !.players[id] = [status |-> "connecting",
                                                machine |-> Machine[l[1]]],
                               !.ports[id] = l[1],
                               !.remote[id] = l]
           up == [net EXCEPT ![<<Lobby, l>>].state = "open"]
           init == [type |-> "init", id |-> id]
           told == Sent(up, Lobby, {l}, <<init>>)
           new == SendLocalReady(told, seated, Lobby, l)
           shut == [net EXCEPT ![<<Lobby, l>>].state = "closing"]
<1>1. Has(net, Lobby, l) /\ IsOpening(net, Lobby, l)
  BY DEF Seat, IsOpening
<1>2. /\ l \in Links /\ <<Lobby, l>> \in DOMAIN net /\ EndsOK(net)
      /\ s \in State /\ Consistent(Lobby, s) /\ Lobby \in Nodes
      /\ Lobby \in {l[1], l[2]}
  BY <1>1, EndFacts
<1>3. /\ y \in Clients /\ y \in Nodes /\ l[2] = Lobby /\ y # Lobby /\ l # NoLink
      /\ Other(Lobby, l) = y
  BY <1>2, LinkFacts, LANAssumption DEF Nodes
<1>4. Attentive(Lobby, s) /\ LinksOK(node, net)
  BY <1>2 DEF ReadyInv
<1>5. CASE numPlayers >= MaxPlayers \/ free = {}
  <2>1. Become(Lobby, s, shut)
    BY <1>5 DEF Seat
  <2>2. \A m \in Links : Quiet(net, shut, m) /\ \A z : Has(shut, z, m) <=> Has(net, z, m)
    BY <1>2, MarkIsQuiet
  <2>3. SameMind(s, s)
    BY DEF SameMind
  <2> HIDE DEF s, shut
  <2> QED  BY <1>2, <2>1, <2>2, <2>3, SameMindKeeps DEF s
<1>6. CASE ~(numPlayers >= MaxPlayers \/ free = {})
  <2>1. Become(Lobby, seated, new)
    BY <1>6 DEF Seat
  <2>2. id \in Slots /\ id \in Ids /\ s.players[id].status = "none"
    <3>1. id \in Slots /\ s.players[id].status = "none"
      BY <1>6, LeastIs
    <3> QED  BY <3>1 DEF Slots
  <2> HIDE DEF id, s
  <2>3. /\ seated.id = s.id /\ seated.phase = s.phase /\ seated.ready = s.ready
        /\ \A i \in Slots : seated.ports[i] = IF i = id THEN y ELSE s.ports[i]
        /\ \A i \in Slots : i # id => seated.players[i] = s.players[i]
        /\ seated.players[id].machine = Machine[y]
        /\ \A i \in Ids : seated.remote[i] = IF i = id THEN l ELSE s.remote[i]
    <3>1. s.players \in [Slots -> Player] /\ s.ports \in Ports /\ s.remote \in [Ids -> Links \cup {NoLink}]
      BY <1>2 DEF State
    <3> DEFINE p == [status |-> "connecting", machine |-> Machine[y]]
    <3>2. seated = [s EXCEPT !.players = [s.players EXCEPT ![id] = p],
                             !.ports = [s.ports EXCEPT ![id] = y],
                             !.remote = [s.remote EXCEPT ![id] = l]]
      BY Zenon
    <3>3. p.machine = Machine[y]
      OBVIOUS
    <3> HIDE DEF seated, p, y
    <3> QED  BY <1>2, <2>2, <3>1, <3>2, <3>3 DEF State, Ports
  <2> HIDE DEF seated
  <2>4. s.remote[id] = NoLink /\ Takes(s, seated, id, l) /\ id # s.id
    BY <1>2, <1>4, <2>2, <2>3 DEF Consistent, Takes, Attentive
  <2>5. /\ Owns(seated, l) /\ (Marked(seated, l) <=> Marked(s, l)) /\ (Vocal(seated) <=> Vocal(s))
        /\ \A m \in Links : m # l => SameFor(s, seated, m)
    BY <1>2, <1>4, <2>2, <2>4, TakenLink
  <2>6. Attentive(Lobby, seated)
    <3>1. s.ready \subseteq Ids
      BY <1>2 DEF State
    <3>2. \A i \in Slots : seated.players[i].status # "none" =>
             seated.ports[i] \in Clients /\ seated.players[i].machine = Machine[seated.ports[i]]
      BY <1>3, <1>4, <2>3 DEF Attentive
    <3>3. \A i \in seated.ready : i = seated.id \/ seated.remote[i] # NoLink
      BY <1>3, <1>4, <2>3, <3>1 DEF Attentive
    <3>4. seated.id \in Ids => seated.remote[seated.id] = NoLink
      BY <1>4, <2>3, <2>4 DEF Attentive
    <3> QED  BY <1>4, <2>3, <2>5, <3>2, <3>3, <3>4 DEF Attentive
  <2>7. /\ \A z, m : /\ Has(up, z, m) <=> Has(net, z, m)
                     /\ z # Lobby \/ m # l => SameEnd(net, up, z, m)
        /\ up[<<Lobby, l>>].state = "open" /\ up[<<Lobby, l>>].inbox = net[<<Lobby, l>>].inbox
        /\ EndsOK(up)
    <3>1. EndsOK(up)
      BY <1>2, MildMarked DEF Mild
    <3>2. EndsOK(net) /\ <<Lobby, l>> \in DOMAIN net
      BY <1>2
    <3>3. Opens(net, up, Lobby, l)
      BY <3>2, OpensEnd
    <3> HIDE DEF up
    <3> QED  BY <3>1, <3>3 DEF Opens
  <2> HIDE DEF up
  <2> DEFINE cmds == <<init>>
  <2>8. init \in Message /\ init.type = "init"
    BY <2>2 DEF Message
  <2> HIDE DEF init
  <2>9. cmds \in Seq(Message) /\ \A n \in DOMAIN cmds : cmds[n] = init
    BY <2>8
  <2>10. told = Sent(up, Lobby, {l}, cmds)
    OBVIOUS
  <2>11. EndsOK(told)
    <3>1. \A n \in DOMAIN cmds : cmds[n].type \notin {"ports"}
      BY <2>8, <2>9
    <3>2. Conveys(up, Sent(up, Lobby, {l}, cmds), Lobby, {l}, {cmds[k] : k \in DOMAIN cmds})
      BY <2>7, <2>9, SentConveys
    <3> HIDE DEF cmds, told
    <3> QED  BY <2>7, <2>10, <3>2 DEF Conveys, EndsOK
  <2> HIDE DEF told, cmds
  <2>12. ASSUME NEW z, NEW m
         PROVE  /\ Has(told, z, m) <=> Has(up, z, m)
                /\ Has(up, z, m) => told[<<z, m>>].state = up[<<z, m>>].state
                /\ Reached(up, Lobby, {l}, z, m) /\ Has(up, z, m) =>
                      told[<<z, m>>].inbox = up[<<z, m>>].inbox \o cmds
                /\ ~Reached(up, Lobby, {l}, z, m) => SameEnd(up, told, z, m)
    <3>1. EndsOK(up)
      BY <2>7
    <3> DEFINE said == Sent(up, Lobby, {l}, cmds)
    <3>2. /\ Has(said, z, m) <=> Has(up, z, m)
          /\ Has(up, z, m) => said[<<z, m>>].state = up[<<z, m>>].state
          /\ Reached(up, Lobby, {l}, z, m) /\ Has(up, z, m) =>
                said[<<z, m>>].inbox = up[<<z, m>>].inbox \o cmds
          /\ ~Reached(up, Lobby, {l}, z, m) => SameEnd(up, said, z, m)
      BY <3>1, SentEnds
    <3>3. told = said
      BY <2>10
    <3> HIDE DEF said
    <3> QED  BY <3>2, <3>3
  <2>13. /\ \A z, m : m # l => SameEnd(net, told, z, m)
         /\ SameEnd(up, told, Lobby, l)
    BY <2>7, <2>12 DEF Reached, SameEnd
  <2>14. IsOpen(told, Lobby, l) /\ told[<<Lobby, l>>].inbox = net[<<Lobby, l>>].inbox
    BY <1>1, <2>7, <2>13 DEF SameEnd, IsOpen
  <2>15. /\ Has(told, y, l) <=> Has(net, y, l)
         /\ Has(told, y, l) =>
               /\ told[<<y, l>>].state = net[<<y, l>>].state
               /\ told[<<y, l>>].inbox = <<>> \o cmds
    <3>1. (Has(told, y, l) <=> Has(up, y, l)) /\ (Has(up, y, l) <=> Has(net, y, l))
      BY <2>7, <2>12
    <3>2. ASSUME Has(net, y, l)
          PROVE  /\ told[<<y, l>>].state = net[<<y, l>>].state
                 /\ told[<<y, l>>].inbox = <<>> \o cmds
      <4>1. net[<<y, l>>].inbox = <<>>
        BY <1>1, <1>2, <1>3, <1>4, <3>2 DEF LinksOK, LinkOK, Spoken, EndsInOrder
      <4>2. up[<<y, l>>] = net[<<y, l>>] /\ Has(up, y, l)
        BY <1>3, <2>7, <3>2 DEF SameEnd
      <4>3. Reached(up, Lobby, {l}, y, l)
        BY <1>1, <1>3, <2>7 DEF Reached, IsOpen
      <4>4. /\ told[<<y, l>>].state = up[<<y, l>>].state
            /\ told[<<y, l>>].inbox = up[<<y, l>>].inbox \o cmds
        BY <2>12, <4>2, <4>3, Zenon
      <4> QED  BY <4>1, <4>2, <4>4
    <3> QED  BY <3>1, <3>2
  <2>16. <<>> \o cmds = cmds /\ Said(cmds) = {}
    <3>1. <<>> \o cmds = cmds
      BY <2>9
    <3>2. Said(cmds) = {}
      BY <2>8, <2>9 DEF Said, Words
    <3> QED  BY <3>1, <3>2
  <2> HIDE DEF new
  <2>17. Moves(node, node', Lobby, seated) /\ net' = new
    BY <1>2, <2>1, BecomeMoves
  <2>18. /\ \A z, m : m # l => SameEnd(told, new, z, m)
         /\ \A z : Has(new, z, l) <=> Has(told, z, l)
         /\ \A z \in {l[1], l[2]} : NoNews(told, new, z, l)
    BY <1>2, <2>11, <2>14, LocalReadySaid DEF new
  <2>19. LinkOK(node', new, l)
    <3>1. Spoken(node', new, l)
      <4>1. LET o == Other(Lobby, l) IN
            IF Lobby = l[1]
            THEN Has(told, o, l) /\ told[<<o, l>>].state = "opening" /\ told[<<o, l>>].inbox = <<>>
            ELSE /\ Has(told, o, l) <=> Has(net, o, l)
                 /\ Has(told, o, l) => /\ told[<<o, l>>].state = net[<<o, l>>].state
                                       /\ Said(told[<<o, l>>].inbox) = {}
        BY <1>3, <2>15, <2>16
      <4>2. LinkOK(node, net, l)
        BY <1>2, <1>4 DEF LinksOK
      <4>3. Marked(seated, l) <=> Marked(node[Lobby], l)
        BY <2>5 DEF s
      <4> HIDE DEF y
      <4> QED  BY <1>1, <1>2, <2>5, <2>11, <2>14, <2>17, <4>1, <4>2, <4>3, MetLink DEF new
    <3>2. ListsFit(node', new, l)
      <4> SUFFICES ASSUME Has(new, y, l), NEW n \in DOMAIN new[<<y, l>>].inbox,
                          new[<<y, l>>].inbox[n].type = "list"
                   PROVE  FALSE
        BY DEF ListsFit
      <4>1. Carries(told, <<y, l>>, new[<<y, l>>].inbox[n])
        BY <2>18 DEF NoNews
      <4>2. told[<<y, l>>].inbox = cmds
        BY <2>15, <2>16, <2>18
      <4> QED  BY <2>8, <2>9, <4>1, <4>2 DEF Carries
    <3> QED  BY <3>1, <3>2 DEF LinkOK
  <2>20. ASSUME NEW m \in Links, m # l
         PROVE  LinkOK(node', new, m)
    <3>1. LinkOK(node, net, m) /\ SameFor(s, seated, m)
      BY <1>4, <2>5, <2>20 DEF LinksOK
    <3>2. Apart(net, new, m)
      BY <2>13, <2>18, <2>20 DEF Apart, SameEnd
    <3>3. Quiet(net, new, m) /\ Silent(net, new, m)
      BY <3>2, ApartIsQuiet DEF Quiet
    <3>4. Lobby \in {m[1], m[2]} => PlayerStays(s, seated, new, Lobby, m)
      BY <3>1, <3>2 DEF PlayerStays, SameFor, LinkOK, Spoken, EndOwned, Owns, Apart, SameEnd, s
    <3>5. \A z \in {m[1], m[2]} : z # Lobby /\ Has(net, z, m) => Has(new, z, m)
      BY <3>2 DEF Apart, SameEnd
    <3>6. seated.id = node[Lobby].id
      BY <2>3 DEF s
    <3> QED  BY <2>17, <3>1, <3>3, <3>4, <3>5, <3>6, StepLink DEF s
  <2>21. LinksOK(node', net')
    BY <2>17, <2>19, <2>20 DEF LinksOK
  <2> QED  BY <1>2, <2>6, <2>17, <2>21, ReadyNow
<1> QED  BY <1>5, <1>6

\* One end of a link opens, and every other link stays as it is.
LEMMA MetLinks ==
  ASSUME NEW nodes, NEW moved, NEW x \in Nodes, NEW t, Moves(nodes, moved, x, t),
         NEW l \in Links, x \in {l[1], l[2]},
         Owns(t, l), Marked(t, l) <=> Marked(nodes[x], l), t.id = nodes[x].id,
         \A m \in Links : m # l => SameFor(nodes[x], t, m),
         NEW ends, LinksOK(nodes, ends), IsOpening(ends, x, l), l[2] = Lobby => x = l[1],
         NEW mid, EndsOK(mid), IsOpen(mid, x, l), mid[<<x, l>>].inbox = ends[<<x, l>>].inbox,
         LET o == Other(x, l) IN
         IF x = l[1]
         THEN Has(mid, o, l) /\ mid[<<o, l>>].state = "opening" /\ mid[<<o, l>>].inbox = <<>>
         ELSE /\ Has(mid, o, l) <=> Has(ends, o, l)
              /\ Has(mid, o, l) => /\ mid[<<o, l>>].state = ends[<<o, l>>].state
                                   /\ Said(mid[<<o, l>>].inbox) = {},
         \A z, m : m # l => SameEnd(ends, mid, z, m),
         NEW new, new = SendLocalReady(mid, t, x, l)
  PROVE  LinksOK(moved, new)
<1>1. /\ \A z, m : m # l => SameEnd(mid, new, z, m)
      /\ SameEnd(mid, new, x, l)
  BY LocalReadySaid
<1>2. LinkOK(nodes, ends, l)
  BY DEF LinksOK
<1>3. Spoken(moved, new, l)
  BY <1>2, MetLink
<1>4. ListsFit(moved, new, l)
  <2>1. ASSUME l[2] = Lobby
        PROVE  new[<<x, l>>].inbox = <<>> /\ x = l[1]
    BY <1>1, <1>2, <2>1 DEF LinkOK, Spoken, EndsInOrder, SameEnd, IsOpen, IsOpening
  <2> QED  BY <2>1 DEF ListsFit
<1>5. ASSUME NEW m \in Links, m # l
      PROVE  LinkOK(moved, new, m)
  <2>1. LinkOK(nodes, ends, m) /\ SameFor(nodes[x], t, m)
    BY <1>5 DEF LinksOK
  <2>2. Apart(ends, new, m)
    BY <1>1, <1>5 DEF Apart, SameEnd
  <2>3. Quiet(ends, new, m) /\ Silent(ends, new, m)
    BY <2>2, ApartIsQuiet DEF Quiet
  <2>4. x \in {m[1], m[2]} => PlayerStays(nodes[x], t, new, x, m)
    BY <2>1, <2>2 DEF PlayerStays, SameFor, LinkOK, Spoken, EndOwned, Owns, Apart, SameEnd
  <2>5. \A z \in {m[1], m[2]} : z # x /\ Has(ends, z, m) => Has(new, z, m)
    BY <2>2 DEF Apart, SameEnd
  <2> QED  BY <2>1, <2>3, <2>4, <2>5, StepLink
<1> QED  BY <1>3, <1>4, <1>5 DEF LinksOK, LinkOK

\* The dialling end is open, and the other one is there.
LEMMA DialledUp ==
  ASSUME EndsOK(net), NEW c \in Nodes, NEW l \in Links, Has(net, c, l), l[1] = c,
         NEW up, up = [WithEnds(net, {<<l[2], l>>}) EXCEPT ![<<c, l>>].state = "open"]
  PROVE  /\ EndsOK(up)
         /\ IsOpen(up, c, l) /\ up[<<c, l>>].inbox = net[<<c, l>>].inbox
         /\ Has(up, l[2], l) /\ up[<<l[2], l>>].state = "opening" /\ up[<<l[2], l>>].inbox = <<>>
         /\ \A z, m : m # l => SameEnd(net, up, z, m)
<1> DEFINE made == {<<l[2], l>>}
           wide == WithEnds(net, made)
<1>1. l[2] \in Nodes /\ l[2] # c
  BY LinkFacts
<1>2. Opening \in LinkEnd
  BY DEF Opening, LinkEnd
<1>3. EndsOK(wide) /\ <<c, l>> \in DOMAIN wide
  BY <1>1, <1>2 DEF EndsOK, WithEnds, Has
<1>4. \A z, m : m # l => <<z, m>> \notin made
  OBVIOUS
<1>5. <<l[2], l>> \in made /\ <<c, l>> \notin made
  BY <1>1
<1> HIDE DEF made
<1>6. ASSUME NEW z, NEW m
      PROVE  /\ Has(wide, z, m) <=> Has(net, z, m) \/ <<z, m>> \in made
             /\ <<z, m>> \in made => /\ wide[<<z, m>>].state = "opening"
                                     /\ wide[<<z, m>>].inbox = <<>>
             /\ <<z, m>> \notin made => SameEnd(net, wide, z, m)
  BY WithEndsEnds
<1> DEFINE opened == [wide EXCEPT ![<<c, l>>].state = "open"]
<1>7. up = opened
  BY DEF made
<1> HIDE DEF wide
<1>8. EndsOK(opened)
  BY <1>3, MildMarked DEF Mild
<1>9. Opens(wide, opened, c, l)
  BY <1>3, OpensEnd
<1> HIDE DEF opened
<1>10. ASSUME NEW z, NEW m, m # l
       PROVE  SameEnd(net, opened, z, m)
  <2>1. SameEnd(net, wide, z, m)
    BY <1>4, <1>6, <1>10
  <2>2. SameEnd(wide, opened, z, m)
    BY <1>9, <1>10 DEF Opens
  <2> QED  BY <2>1, <2>2 DEF SameEnd
<1>11. SameEnd(wide, opened, l[2], l) /\ SameEnd(net, wide, c, l)
  BY <1>1, <1>5, <1>6, <1>9 DEF Opens
<1>12. /\ IsOpen(opened, c, l) /\ opened[<<c, l>>].inbox = net[<<c, l>>].inbox
  BY <1>9, <1>11 DEF Opens, SameEnd, IsOpen
<1>13. /\ Has(opened, l[2], l) /\ opened[<<l[2], l>>].state = "opening"
       /\ opened[<<l[2], l>>].inbox = <<>>
  BY <1>5, <1>6, <1>11 DEF SameEnd
<1>14. ASSUME NEW z, NEW m, m # l
       PROVE  SameEnd(net, up, z, m)
  <2>1. SameEnd(net, opened, z, m)
    BY <1>10, <1>14
  <2> QED  BY <1>7, <2>1 DEF SameEnd
<1>15. EndsOK(up) /\ IsOpen(up, c, l) /\ up[<<c, l>>].inbox = net[<<c, l>>].inbox
  BY <1>7, <1>8, <1>12
<1>16. Has(up, l[2], l) /\ up[<<l[2], l>>].state = "opening" /\ up[<<l[2], l>>].inbox = <<>>
  BY <1>7, <1>13
<1> QED  BY <1>14, <1>15, <1>16

\* A player nobody knows has no number here.
LEMMA UnknownIsNobody ==
  ASSUME NEW c \in Clients, NEW s \in State, Consistent(c, s), Attentive(c, s),
         s.phase \in {"connecting", "connected"},
         NEW l \in Links, l[2] # Lobby, NEW from, KnownAs(s, l, from) = {}
  PROVE  ~Owns(s, l)
<1> SUFFICES ASSUME NEW i \in Ids, s.remote[i] = l
             PROVE  FALSE
  BY DEF Owns, OwnerOf
<1>1. c # Lobby /\ s.remote[0] = LobbyLink(c) /\ LobbyLink(c)[2] = Lobby /\ l # NoLink
  BY LobbyLinkFacts, LinkFacts DEF Consistent
<1>2. i \in Slots
  BY <1>1 DEF Slots
<1>3. i # s.id /\ s.players[i].status = "client"
  BY <1>1, <1>2 DEF Attentive
<1>4. i \in KnownAs(s, l, from)
  BY <1>2, <1>3 DEF KnownAs
<1> QED  BY <1>4

\* A link between clients comes up at one of them, who knows the other.
LEMMA MetKeepsReady ==
  ASSUME MeshInv, ReadyInv, NEW c \in Clients, NEW l \in Links, IsOpening(net, c, l), l[2] # Lobby,
         c \in {l[1], l[2]},
         NEW up, EndsOK(up), IsOpen(up, c, l), up[<<c, l>>].inbox = net[<<c, l>>].inbox,
         LET o == Other(c, l) IN
         IF c = l[1]
         THEN Has(up, o, l) /\ up[<<o, l>>].state = "opening" /\ up[<<o, l>>].inbox = <<>>
         ELSE /\ Has(up, o, l) <=> Has(net, o, l)
              /\ Has(up, o, l) => /\ up[<<o, l>>].state = net[<<o, l>>].state
                                  /\ Said(up[<<o, l>>].inbox) = {},
         \A z, m : m # l => SameEnd(net, up, z, m),
         NEW known, known = KnownAs(node[c], l, Other(c, l)), known # {},
         BecomeConnecting(c, [node[c] EXCEPT !.remote[Least(known)] = l],
                             SendLocalReady(up, node[c], c, l))
  PROVE  ReadyInv'
<1> DEFINE s == node[c]
           i == Least(known)
           t == [s EXCEPT !.remote[i] = l]
           mid == SendLocalReady(up, s, c, l)
           nodes == [node EXCEPT ![c] = t]
<1>1. /\ c \in Nodes /\ s \in State /\ Consistent(c, s) /\ Attentive(c, s) /\ LinksOK(node, net)
      /\ l # NoLink /\ c # Lobby /\ node \in [Nodes -> State]
  BY EndFacts, LinkFacts, LANAssumption DEF IsOpening, ReadyInv, MeshInv, Nodes
<1>2. BecomeConnecting(c, t, mid)
  OBVIOUS
<1> HIDE DEF s, mid
<1>3. known = KnownAs(s, l, Other(c, l))
  BY DEF s
<1>4. /\ i \in Slots /\ s.players[i].status = "client" /\ s.ports[i] = Other(c, l)
      /\ s.remote[i] \in {l, NoLink}
  BY <1>1, <1>3, KnownFacts
<1>5. i # s.id
  <2>1. known \subseteq Slots /\ s.id \notin known
    BY <1>3 DEF KnownAs
  <2>2. i \in known
    BY <2>1, LeastIs
  <2> QED  BY <2>1, <2>2
<1> HIDE DEF i
<1>6. t \in State /\ Consistent(c, t) /\ t.ports = s.ports /\ t.id = s.id /\ t.phase = s.phase
  BY <1>1, <1>4, LinkedIsConsistent
<1>7. /\ t.ready = s.ready /\ t.players = s.players /\ t.listed = s.listed
      /\ \A j \in Ids : t.remote[j] = IF j = i THEN l ELSE s.remote[j]
  BY <1>1 DEF State
<1> HIDE DEF t
<1>8. i \in Ids /\ Takes(s, t, i, l)
  BY <1>4, <1>6, <1>7 DEF Takes, Slots
<1>9. /\ Owns(t, l) /\ (Marked(t, l) <=> Marked(s, l)) /\ (Vocal(t) <=> Vocal(s))
      /\ \A m \in Links : m # l => SameFor(s, t, m)
  BY <1>1, <1>5, <1>8, TakenLink
<1>10. Attentive(c, t)
  <2>1. s.ready \subseteq Ids /\ Slots \subseteq Ids
    BY <1>1 DEF State, Slots
  <2>2. t.id \in Ids => t.remote[t.id] = NoLink
    BY <1>1, <1>5, <1>6, <1>7 DEF Attentive
  <2>3. \A j \in t.ready : j = t.id \/ t.remote[j] # NoLink
    BY <1>1, <1>6, <1>7, <2>1 DEF Attentive
  <2>4. \A j \in Slots : t.remote[j] # NoLink => t.players[j].status = "client"
    BY <1>1, <1>4, <1>7, <2>1 DEF Attentive
  <2> QED  BY <1>1, <1>6, <1>7, <1>9, <2>2, <2>3, <2>4 DEF Attentive
<1>11. mid = SendLocalReady(up, t, c, l)
  BY <1>6, <1>7 DEF SendLocalReady, mid
<1>12. Moves(node, nodes, c, t)
  BY <1>1 DEF Moves
<1> HIDE DEF nodes
<1>13. LinksOK(nodes, mid)
  <2>1. Marked(t, l) <=> Marked(node[c], l)
    BY <1>9 DEF s
  <2>2. t.id = node[c].id /\ \A m \in Links : m # l => SameFor(node[c], t, m)
    BY <1>6, <1>9 DEF s
  <2> QED  BY <1>1, <1>9, <1>11, <1>12, <2>1, <2>2, MetLinks
<1>14. Backed(c, t)
  BY <1>1, <1>6, OwnIsBacked DEF s
<1>15. PICK again \in SUBSET t.dialled :
         LET done == ConnectPeers(t, mid, c, again) IN Become(c, done.s, done.ends)
  BY <1>2 DEF BecomeConnecting
<1> QED  BY <1>6, <1>10, <1>13, <1>14, <1>15, ConnectingKeepsReady DEF nodes

\* Nobody is known at the other end: the end closes, and nobody had it.
LEMMA RefusedKeepsReady ==
  ASSUME MeshInv, ReadyInv, NEW c \in Nodes, NEW l \in Links, ~Owns(node[c], l), l[2] # Lobby,
         NEW up, \A z, m : m # l => SameEnd(net, up, z, m),
         \/ Apart(net, up, l)
         \/ /\ c = l[1] /\ IsOpening(net, c, l)
            /\ Has(up, l[2], l) /\ up[<<l[2], l>>].state = "opening" /\ up[<<l[2], l>>].inbox = <<>>,
         c \in {l[1], l[2]}, Become(c, node[c], Closed(up, c, {l}))
  PROVE  ReadyInv'
<1> DEFINE s == node[c]
           ls == {l}
           new == Closed(up, c, ls)
<1>1. Moves(node, node', c, s) /\ net' = new
  BY BecomeMoves
<1>2. \A z, m : /\ Has(new, z, m) <=> Has(up, z, m) /\ ~(z = c /\ m \in ls)
                /\ Has(new, z, m) => new[<<z, m>>] = up[<<z, m>>]
  <2> HIDE DEF ls
  <2> QED  BY DEF Closed, Restricted, Has
<1>3. LinksOK(node, net) /\ Attentive(c, s) /\ ~Owns(s, l)
  BY DEF ReadyInv
<1>4. ~Has(new, c, l) /\ \A m : m # l => m \notin ls
  BY <1>2
<1> HIDE DEF s, new, ls
<1>5. ASSUME NEW m \in Links, m # l
      PROVE  LinkOK(node', new, m)
  <2>1. LinkOK(node, net, m) /\ SameFor(s, s, m)
    BY <1>3 DEF LinksOK, SameFor
  <2>2. Apart(net, new, m)
    BY <1>2, <1>4, <1>5 DEF Apart, SameEnd
  <2>3. Quiet(net, new, m) /\ Silent(net, new, m)
    BY <2>2, ApartIsQuiet DEF Quiet
  <2>4. c \in {m[1], m[2]} => PlayerStays(node[c], s, new, c, m)
    BY <2>1, <2>2 DEF PlayerStays, SameFor, LinkOK, Spoken, EndOwned, Owns, Apart, SameEnd, s
  <2>5. \A z \in {m[1], m[2]} : z # c /\ Has(net, z, m) => Has(new, z, m)
    BY <2>2 DEF Apart, SameEnd
  <2> QED  BY <1>1, <2>1, <2>3, <2>4, <2>5, StepLink DEF s
<1>6. LinkOK(node', new, l)
  <2>1. LinkOK(node, net, l)
    BY <1>3 DEF LinksOK
  <2>2. CASE Apart(net, up, l)
    <3>1. Quiet(net, new, l) /\ Silent(net, new, l)
      <4>1. Quiet(net, up, l)
        BY <2>2, ApartIsQuiet
      <4>2. Quiet(up, new, l)
        BY ClosedEnds DEF new
      <4> QED  BY <4>1, <4>2, QuietTrans DEF Quiet
    <3>2. PlayerStays(node[c], s, new, c, l)
      BY <1>3, <1>4 DEF PlayerStays
    <3>3. \A z \in {l[1], l[2]} : z # c /\ Has(net, z, l) => Has(new, z, l)
      BY <1>2, <2>2 DEF Apart, SameEnd
    <3> QED  BY <1>1, <2>1, <3>1, <3>2, <3>3, StepLink DEF s
  <2>3. CASE /\ c = l[1] /\ IsOpening(net, c, l)
             /\ Has(up, l[2], l) /\ up[<<l[2], l>>].state = "opening" /\ up[<<l[2], l>>].inbox = <<>>
    <3> DEFINE o == l[2]
    <3>1. o \in Nodes /\ o # c /\ Other(o, l) = c /\ Other(c, l) = o
      BY <2>3, LinkFacts
    <3>2. ~Owns(node[o], l)
      BY <2>1, <2>3 DEF LinkOK, Spoken, EndOwned, EndsInOrder
    <3>3. node'[c] = s /\ node'[o] = node[o]
      BY <1>1, <3>1 DEF Moves
    <3>4. /\ ~Has(new, c, l) /\ ~IsOpen(new, c, l) /\ ~IsOpening(new, c, l)
          /\ ~IsOpen(new, o, l)
      BY <1>2, <1>4, <2>3, <3>1 DEF IsOpen, IsOpening
    <3> HIDE DEF o
    <3>5. \A z \in {c, o} : EndOwned(node', new, z, l) /\ EndHears(node', new, z, l)
      BY <1>3, <3>1, <3>2, <3>3, <3>4 DEF EndOwned, EndHears
    <3>6. EndsInOrder(node', new, l) /\ ListsFit(node', new, l)
      BY <2>3, <3>4 DEF EndsInOrder, ListsFit
    <3>7. {l[1], l[2]} = {c, o}
      BY <2>3 DEF o
    <3> QED  BY <3>5, <3>6, <3>7 DEF LinkOK, Spoken
  <2> QED  BY <2>2, <2>3
<1>7. LinksOK(node', net')
  BY <1>1, <1>5, <1>6 DEF LinksOK
<1> QED  BY <1>1, <1>3, <1>7, ReadyNow

LEMMA AcceptKeepsReady ==
  ASSUME MeshInv, ReadyInv, NEW c \in Clients, NEW l \in Links, Accept(c, l)
  PROVE  ReadyInv'
<1> DEFINE up == [net EXCEPT ![<<c, l>>].state = "open"]
           s == node[c]
           o == Other(c, l)
           known == KnownAs(s, l, o)
<1>1. Has(net, c, l) /\ l[2] = c /\ IsOpening(net, c, l)
  BY DEF Accept, IsOpening
<1>2. /\ <<c, l>> \in DOMAIN net /\ EndsOK(net) /\ c \in Nodes /\ Running(c)
      /\ s \in State /\ Consistent(c, s) /\ Attentive(c, s) /\ LinkOK(node, net, l)
  BY <1>1, EndFacts DEF ReadyInv, LinksOK
<1>3. o = l[1] /\ o # c /\ l[2] # Lobby
  BY <1>1, <1>2, LinkFacts, LANAssumption
<1>4. IF known = {} THEN Become(c, s, Closed(net, c, {l}))
      ELSE BecomeConnecting(c, [s EXCEPT !.remote[Least(known)] = l], SendLocalReady(up, s, c, l))
  BY <1>3 DEF Accept
<1>5. CASE known = {}
  <2>1. ~Owns(s, l)
    BY <1>2, <1>3, <1>5, UnknownIsNobody DEF Running
  <2>2. Apart(net, net, l) /\ \A z, m : m # l => SameEnd(net, net, z, m)
    BY DEF Apart, SameEnd
  <2> QED  BY <1>1, <1>2, <1>3, <1>4, <1>5, <2>1, <2>2, RefusedKeepsReady
<1>6. CASE known # {}
  <2>1. EndsOK(up)
    BY <1>2, MildMarked DEF Mild
  <2>2. Opens(net, up, c, l)
    BY <1>2, OpensEnd
  <2>3. BecomeConnecting(c, [node[c] EXCEPT !.remote[Least(known)] = l],
                            SendLocalReady(up, node[c], c, l))
    BY <1>4, <1>6
  <2> HIDE DEF up, known
  <2>4. IsOpen(up, c, l) /\ up[<<c, l>>].inbox = net[<<c, l>>].inbox
        /\ \A z, m : m # l => SameEnd(net, up, z, m)
    BY <1>1, <2>2 DEF Opens, IsOpen, IsOpening
  <2>5. SameEnd(net, up, o, l)
    BY <1>3, <2>2 DEF Opens
  <2>6. /\ Has(up, o, l) <=> Has(net, o, l)
        /\ Has(up, o, l) => /\ up[<<o, l>>].state = net[<<o, l>>].state
                            /\ Said(up[<<o, l>>].inbox) = {}
    <3>1. Has(net, o, l) => net[<<o, l>>].inbox = <<>>
      BY <1>1, <1>2, <1>3 DEF LinkOK, Spoken, EndsInOrder
    <3>2. Said(<<>>) = {}
      BY DEF Said
    <3> QED  BY <2>5, <3>1, <3>2 DEF SameEnd
  <2>7. c # l[1]
    BY <1>3
  <2>8. known = KnownAs(node[c], l, Other(c, l))
    BY DEF known
  <2> QED  BY <1>1, <1>3, <1>6, <2>1, <2>3, <2>4, <2>6, <2>7, <2>8, MetKeepsReady
<1> QED  BY <1>5, <1>6

LEMMA DialledClientKeepsReady ==
  ASSUME MeshInv, ReadyInv, NEW c \in Clients, NEW l \in Links, Dialled(c, l), l[2] # Lobby
  PROVE  ReadyInv'
<1> DEFINE up == [WithEnds(net, {<<l[2], l>>}) EXCEPT ![<<c, l>>].state = "open"]
           s == node[c]
           o == Other(c, l)
           known == KnownAs(s, l, o)
<1>1. Has(net, c, l) /\ l[1] = c /\ IsOpening(net, c, l)
  BY DEF Dialled, IsOpening
<1>2. /\ EndsOK(net) /\ c \in Nodes /\ Running(c)
      /\ s \in State /\ Consistent(c, s) /\ Attentive(c, s)
  BY <1>1, EndFacts DEF ReadyInv
<1>3. o = l[2] /\ c \in {l[1], l[2]}
  BY <1>1, LinkFacts
<1>4. s.remote[0] # l
  <2>1. s.remote[0] = LobbyLink(c)
    BY <1>2, LobbyLinkFacts DEF Consistent, Running
  <2> QED  BY <2>1, LobbyLinkFacts
<1>5. IF known = {} THEN Become(c, s, Closed(up, c, {l}))
      ELSE BecomeConnecting(c, [s EXCEPT !.remote[Least(known)] = l], SendLocalReady(up, s, c, l))
  BY <1>3, <1>4 DEF Dialled
<1>6. /\ EndsOK(up)
      /\ IsOpen(up, c, l) /\ up[<<c, l>>].inbox = net[<<c, l>>].inbox
      /\ Has(up, l[2], l) /\ up[<<l[2], l>>].state = "opening" /\ up[<<l[2], l>>].inbox = <<>>
      /\ \A z, m : m # l => SameEnd(net, up, z, m)
  BY <1>1, <1>2, DialledUp
<1> HIDE DEF up
<1>7. CASE known = {}
  <2>1. ~Owns(s, l)
    BY <1>2, <1>7, UnknownIsNobody DEF Running
  <2> QED  BY <1>1, <1>2, <1>3, <1>5, <1>6, <1>7, <2>1, RefusedKeepsReady
<1>8. CASE known # {}
  <2>1. BecomeConnecting(c, [node[c] EXCEPT !.remote[Least(known)] = l],
                            SendLocalReady(up, node[c], c, l))
    BY <1>5, <1>8
  <2>2. known = KnownAs(node[c], l, Other(c, l))
    OBVIOUS
  <2> HIDE DEF known
  <2> QED  BY <1>1, <1>3, <1>6, <1>8, <2>1, <2>2, MetKeepsReady
<1> QED  BY <1>7, <1>8

\* The lobby's end appears; the client has no number yet, and says nothing.
LEMMA DialledLobbyKeepsReady ==
  ASSUME MeshInv, ReadyInv, NEW c \in Clients, NEW l \in Links, Dialled(c, l), l[2] = Lobby
  PROVE  ReadyInv'
<1> DEFINE up == [WithEnds(net, {<<l[2], l>>}) EXCEPT ![<<c, l>>].state = "open"]
           s == node[c]
           o == Other(c, l)
<1>1. Has(net, c, l) /\ l[1] = c /\ IsOpening(net, c, l)
  BY DEF Dialled, IsOpening
<1>2. /\ EndsOK(net) /\ c \in Nodes /\ Running(c)
      /\ s \in State /\ Consistent(c, s) /\ Attentive(c, s) /\ LinksOK(node, net)
  BY <1>1, EndFacts DEF ReadyInv
<1>3. o = l[2] /\ c \in {l[1], l[2]} /\ l = LobbyLink(c) /\ c # Lobby
  BY <1>1, LinkFacts, LobbyLinkFacts
<1>4. s.remote[0] = l
  BY <1>2, <1>3 DEF Consistent, Running
<1>5. Become(c, s, up)
  BY <1>4 DEF Dialled
<1>6. /\ EndsOK(up)
      /\ IsOpen(up, c, l) /\ up[<<c, l>>].inbox = net[<<c, l>>].inbox
      /\ Has(up, l[2], l) /\ up[<<l[2], l>>].state = "opening" /\ up[<<l[2], l>>].inbox = <<>>
      /\ \A z, m : m # l => SameEnd(net, up, z, m)
  BY <1>1, <1>2, DialledUp
<1> HIDE DEF up
<1>7. Moves(node, node', c, s) /\ net' = up
  BY <1>2, <1>5, BecomeMoves
<1>8. ~Vocal(s)
  <2>1. Unseated(node, net, c)
    BY <1>1, <1>3 DEF Unseated
  <2>2. s.id \notin Slots
    BY <2>1 DEF MeshInv, NoneBefore, Claimed
  <2>3. s.id # 0
    BY <1>2, <1>3 DEF Consistent
  <2>4. s.id \notin Ids
    BY <2>2, <2>3 DEF Slots
  <2> QED  BY <1>2, <2>4 DEF Vocal, State
<1>9. up = SendLocalReady(up, s, c, l)
  BY <1>8 DEF SendLocalReady, Vocal
<1>10. Owns(s, l) /\ \A m \in Links : SameFor(s, s, m)
  BY <1>4, LANAssumption DEF Owns, OwnerOf, Ids, SameFor
<1>11. LinksOK(node', up)
  <2>1. /\ Owns(s, l) /\ (Marked(s, l) <=> Marked(node[c], l)) /\ s.id = node[c].id
        /\ \A m \in Links : m # l => SameFor(node[c], s, m)
    BY <1>10
  <2>2. Has(up, o, l) /\ up[<<o, l>>].state = "opening" /\ up[<<o, l>>].inbox = <<>>
    BY <1>3, <1>6
  <2>3. l[2] = Lobby => c = l[1]
    BY <1>1
  <2> HIDE DEF s
  <2> QED  BY <1>1, <1>2, <1>3, <1>6, <1>7, <1>9, <2>1, <2>2, <2>3, MetLinks
<1> QED  BY <1>2, <1>7, <1>11, ReadyNow

\* A link of a running player belongs to one number only.
LEMMA SoleOwner ==
  ASSUME MeshInv, NEW x \in Nodes, Running(x), NEW i \in Ids, NEW j \in Ids,
         node[x].remote[i] # NoLink, node[x].remote[j] = node[x].remote[i]
  PROVE  i = j
<1> DEFINE s == node[x]
           l == s.remote[i]
<1>1. s \in State /\ Consistent(x, s) /\ s.phase \in {"connecting", "connected"} /\ OneNumber
  BY DEF MeshInv, Running
<1>2. l \in Links
  BY <1>1 DEF State
<1>3. Other(x, l) \in Nodes
  BY <1>2, LinkFacts
<1>4. ASSUME NEW k \in Ids, s.remote[k] = l, k # 0
      PROVE  k \in Slots /\ Other(x, l) \in Clients /\ Claimed(node, net, Other(x, l), k)
  <2>1. k \in Slots /\ s.remote[k] # NoLink
    BY <1>4 DEF Slots
  <2>2. s.ports[k] = Other(x, l)
    BY <1>1, <1>4, <2>1 DEF Consistent
  <2>3. s.ports[k] \in Clients \cup {NoPort}
    BY <1>1, <2>1 DEF State, Ports
  <2>4. Other(x, l) \in Clients
    BY <1>3, <2>2, <2>3, LANAssumption DEF Nodes
  <2> QED  BY <2>1, <2>2, <2>4 DEF Claimed
<1>5. ASSUME NEW k \in Ids, s.remote[k] = l, k # 0
      PROVE  s.remote[0] # l
  <2>1. CASE x = Lobby
    BY <1>1, <2>1 DEF Consistent
  <2>2. CASE x # Lobby
    <3>1. s.remote[0] = LobbyLink(x) /\ x \in Clients
      BY <1>1, <2>2 DEF Consistent, Nodes
    <3>2. Other(x, LobbyLink(x)) = Lobby
      BY <3>1, LobbyLinkFacts, LinkFacts
    <3> QED  BY <1>4, <1>5, <3>1, <3>2, LANAssumption
  <2> QED  BY <2>1, <2>2
<1> HIDE DEF l
<1>6. s.remote[i] = l /\ s.remote[j] = l
  BY DEF l
<1>7. CASE i # 0 /\ j # 0
  BY <1>1, <1>4, <1>6, <1>7 DEF OneNumber
<1> QED  BY <1>5, <1>6, <1>7

\* What a list or its ports leaves of readiness
LEMMA ReplacedFields ==
  ASSUME NEW x, NEW s \in State, Consistent(x, s), NEW is, is \subseteq Slots,
         NEW players, NEW ports, NEW type, Replaceable(s, is, players, ports, type),
         NEW t, t = Replaced(s, is, players, ports, type)
  PROVE  /\ t.id = s.id /\ t.ready = s.ready \ is /\ t.phase = s.phase
         /\ \A i \in Ids : t.remote[i] = IF i \in is THEN NoLink ELSE s.remote[i]
         /\ t.players = players /\ (s.listed => t.listed)
<1> DEFINE cleared == ClearPeers(s, is)
<1>1. /\ cleared \in State /\ cleared.phase = s.phase /\ cleared.id = s.id
      /\ cleared.players = s.players
      /\ \A i \in Ids : cleared.remote[i] = IF i \in is THEN NoLink ELSE s.remote[i]
  BY ClearedFacts
<1>2. cleared.ready = s.ready \ is /\ cleared.listed = s.listed
  BY DEF ClearPeers, State
<1> HIDE DEF cleared
<1>3. CASE type = "list"
  <2>1. t = [cleared EXCEPT !.players = players, !.ports = ports, !.dialled = @ \ is,
                            !.listed = TRUE, !.endpoints = FALSE]
    BY <1>3, Zenon DEF Replaced, cleared
  <2> QED  BY <1>1, <1>2, <1>3, <2>1 DEF State
<1>4. CASE type # "list"
  <2>1. t = [cleared EXCEPT !.ports = ports, !.dialled = @ \ is, !.endpoints = TRUE]
    BY <1>4, Zenon DEF Replaced, cleared
  <2> QED  BY <1>1, <1>2, <1>4, <2>1 DEF State, Replaceable
<1> QED  BY <1>3, <1>4

\* A list or its ports makes a client let go of the numbers in is.
LEMMA ReplacedKeepsReady ==
  ASSUME MeshInv, ReadyInv, NEW c \in Clients, NEW l \in Links, NEW type, Arrives(c, l, type),
         type \notin Words, NEW is, is \subseteq Slots,
         NEW t \in State, Consistent(c, t), Backed(c, t), Attentive(c, t), LetsGo(node[c], t, is),
         NEW mid, mid = Closed(Consumed(c, l), c, {node[c].remote[i] : i \in is}),
         BecomeConnecting(c, t, mid)
  PROVE  ReadyInv'
<1> DEFINE s == node[c]
           ls == {s.remote[i] : i \in is}
           eaten == Consumed(c, l)
           nodes == [node EXCEPT ![c] = t]
<1>1. Has(net, c, l) /\ EndsOK(net)
  BY DEF Arrives, IsOpen, MeshInv
<1>2. c \in Nodes /\ Running(c) /\ s \in State /\ LinksOK(node, net) /\ is \subseteq Ids
  BY <1>1, EndFacts DEF ReadyInv, Slots
<1>3. nodes[c] = t /\ Moves(node, nodes, c, t)
  BY <1>2 DEF Moves, MeshInv
<1>4. mid = Closed(eaten, c, ls)
  OBVIOUS
<1>5. ASSUME NEW m \in Links
      PROVE  /\ Quiet(net, mid, m)
             /\ \A z : z # c /\ Has(net, z, m) => Has(mid, z, m)
             /\ IF Has(mid, c, m) THEN OwnerOf(s, m) \cap is = {}
                ELSE Has(net, c, m) => OwnerOf(s, m) \subseteq is
  <2>1. Quiet(net, eaten, m) /\ \A z : Has(eaten, z, m) <=> Has(net, z, m)
    BY <1>1, ConsumedEnds
  <2> HIDE DEF eaten, ls
  <2> DEFINE shut == Closed(eaten, c, ls)
  <2>2. /\ Quiet(eaten, shut, m)
        /\ \A z : Has(shut, z, m) <=> Has(eaten, z, m) /\ ~(z = c /\ m \in ls)
    BY ClosedEnds
  <2> HIDE DEF shut
  <2>3. Quiet(net, shut, m)
    BY <2>1, <2>2, QuietTrans DEF Quiet
  <2>4. mid = shut
    BY <1>4 DEF shut
  <2>5. m \notin ls => OwnerOf(s, m) \cap is = {}
    BY DEF OwnerOf, ls
  <2>6. m \in ls => OwnerOf(s, m) \subseteq is
    <3> SUFFICES ASSUME m \in ls, NEW j \in Ids, s.remote[j] = m
                 PROVE  j \in is
      BY DEF OwnerOf
    <3>1. PICK i \in is : s.remote[i] = m
      BY DEF ls
    <3>2. m # NoLink
      BY LinkFacts
    <3> QED  BY <1>2, <3>1, <3>2, SoleOwner
  <2>7. Quiet(net, mid, m) /\ \A z : Has(mid, z, m) <=> Has(net, z, m) /\ ~(z = c /\ m \in ls)
    BY <2>1, <2>2, <2>3, <2>4
  <2> QED  BY <2>5, <2>6, <2>7
<1> HIDE DEF nodes
<1>6. LinksOK(nodes, mid)
  BY <1>2, <1>3, <1>5, LetGoLinks
<1>7. PICK again \in SUBSET t.dialled :
         LET done == ConnectPeers(t, mid, c, again) IN Become(c, done.s, done.ends)
  BY DEF BecomeConnecting
<1> QED  BY <1>6, <1>7, ConnectingKeepsReady DEF nodes

\* A command that is not about readiness is eaten, and nothing comes of it.
LEMMA IgnoredKeepsReady ==
  ASSUME MeshInv, ReadyInv, NEW c \in Nodes, NEW l \in Links, NEW type, Arrives(c, l, type),
         type \notin Words, Become(c, node[c], Consumed(c, l))
  PROVE  ReadyInv'
<1>1. EndsOK(net) /\ SameMind(node[c], node[c])
  BY DEF MeshInv, SameMind
<1>2. \A m \in Links : /\ Quiet(net, Consumed(c, l), m)
                       /\ \A z : Has(Consumed(c, l), z, m) <=> Has(net, z, m)
  BY <1>1, ConsumedEnds
<1> QED  BY <1>1, <1>2, SameMindKeeps

LEMMA ReadPlayerListKeepsReady ==
  ASSUME MeshInv, ReadyInv, NEW c \in Clients, NEW l \in Links, ReadPlayerList(c, l)
  PROVE  ReadyInv'
<1> DEFINE s == node[c]
           box == net[<<c, l>>].inbox
           m == Command(c, l)
           changed == {i \in Slots : ~(/\ m.players[i].status = "client"
                                       /\ m.players[i].machine = s.players[i].machine)}
           cleared == ClearPeers(s, changed)
           ports == [i \in Slots |-> IF i \in changed THEN NoPort ELSE cleared.ports[i]]
           next == [cleared EXCEPT !.players = m.players, !.ports = ports,
                                   !.dialled = @ \ changed, !.listed = TRUE, !.endpoints = FALSE]
           eaten == Consumed(c, l)
           mid == Closed(eaten, c, {s.remote[i] : i \in changed})
<1>1. Arrives(c, l, "list") /\ Has(net, c, l)
  BY DEF ReadPlayerList, Arrives, IsOpen
<1>2. /\ c \in Nodes /\ s \in State /\ Consistent(c, s) /\ InSession(s) /\ EndsOK(net)
      /\ Running(c) /\ Attentive(c, s) /\ LinkOK(node, net, l) /\ net[<<c, l>>] \in LinkEnd
      /\ c \in {l[1], l[2]} /\ c # Lobby
  BY <1>1, EndFacts, LANAssumption DEF ReadyInv, LinksOK
<1>3. m \in Message /\ m.type = "list"
  BY <1>1, <1>2, MildConsumed
<1>4. "list" \notin Words
  BY DEF Words
<1>5. \/ Become(c, s, eaten)
      \/ /\ BecomeConnecting(c, next, mid)
         /\ l = s.remote[0] /\ s.id # NoId /\ m.players[s.id].status = "client"
  BY DEF ReadPlayerList
<1>6. CASE Become(c, s, eaten)
  BY <1>1, <1>2, <1>4, <1>6, IgnoredKeepsReady
<1>7. CASE /\ BecomeConnecting(c, next, mid)
           /\ l = s.remote[0] /\ s.id # NoId /\ m.players[s.id].status = "client"
  <2>1. m.players \in [Slots -> Player]
    BY <1>3, MessageKinds
  <2>2. /\ changed \subseteq Slots
        /\ \A i \in Slots \ changed : /\ m.players[i].status = "client"
                                      /\ m.players[i].machine = s.players[i].machine
        /\ \A i \in changed : m.players[i].status = "client" =>
              m.players[i].machine # s.players[i].machine
    OBVIOUS
  <2>3. m.players[s.id].machine = Machine[c] /\ s.id \in Slots
    <3>1. l = LobbyLink(c) /\ l[1] = c /\ l[2] = Lobby
      BY <1>2, <1>7, LobbyLinkFacts DEF Consistent, Running
    <3>2. s.id \in Slots
      BY <1>2, <1>7 DEF State, Consistent, Slots
    <3>3. Given(node, net, l, s.id)
      BY <3>1 DEF Given
    <3>4. 1 \in DOMAIN box /\ box[1] = m
      <4>1. box \in Seq(Message) /\ box # <<>> /\ m = Head(box)
        BY <1>1, <1>2 DEF LinkEnd, Arrives, Command
      <4> HIDE DEF box, m
      <4> QED  BY <4>1, TailFacts
    <3>5. ListsFit(node, net, l)
      BY <1>2 DEF LinkOK
    <3> HIDE DEF s, m
    <3> QED  BY <1>1, <1>3, <3>1, <3>2, <3>3, <3>4, <3>5 DEF ListsFit
  <2> HIDE DEF s, m, changed
  <2>4. cleared.ports = s.ports
    BY <1>2, <2>2, ClearedFacts
  <2>5. /\ ports \in Ports
        /\ \A i \in Slots : ports[i] = IF i \in changed THEN NoPort ELSE s.ports[i]
    <3>1. s.ports \in Ports
      BY <1>2 DEF State
    <3> QED  BY <2>4, <3>1 DEF Ports
  <2>6. next = Replaced(s, changed, m.players, ports, "list")
    BY Zenon DEF Replaced
  <2> HIDE DEF next, ports
  <2>7. /\ next \in State /\ Consistent(c, next) /\ next.ports = ports
        /\ Replaceable(s, changed, m.players, ports, "list")
    <3>1. \A i \in Slots \ changed : m.players[i].status # "none" /\ ports[i] = s.ports[i]
      BY <2>2, <2>5
    <3>2. Replaceable(s, changed, m.players, ports, "list")
      BY <2>1, <2>2, <2>5, <3>1 DEF Replaceable
    <3> QED  BY <1>2, <2>6, <3>2, ReplacedIsConsistent
  <2>8. /\ next.id = s.id /\ next.ready = s.ready \ changed /\ next.phase = s.phase
        /\ \A i \in Ids : next.remote[i] = IF i \in changed THEN NoLink ELSE s.remote[i]
        /\ next.players = m.players /\ (s.listed => next.listed)
    BY <1>2, <2>2, <2>6, <2>7, ReplacedFields
  <2>9. s.id \in changed => ~Vocal(s)
    BY <1>2, <1>7, <2>2, <2>3 DEF Attentive
  <2>10. LetsGo(s, next, changed)
    BY <2>8, <2>9 DEF LetsGo
  <2>11. Attentive(c, next)
    <3>1. s.ready \subseteq Ids /\ Slots \subseteq Ids
      BY <1>2 DEF State, Slots
    <3>2. next.id \in Ids => next.remote[next.id] = NoLink
      BY <1>2, <2>8 DEF Attentive
    <3>3. \A j \in next.ready : j = next.id \/ next.remote[j] # NoLink
      BY <1>2, <2>8, <3>1 DEF Attentive
    <3>4. \A j \in Slots : next.remote[j] # NoLink => next.players[j].status = "client"
      BY <2>2, <2>8, <3>1
    <3>5. Vocal(next) => next.phase = "connected"
      BY <1>2, <2>8 DEF Attentive, Vocal
    <3> QED  BY <1>2, <1>7, <2>3, <2>8, <3>2, <3>3, <3>4, <3>5 DEF Attentive
  <2> HIDE DEF eaten
  <2>12. Backed(c, next)
    BY <1>2, <2>5, <2>7, <2>8, OwnIsBacked DEF s
  <2>13. /\ mid = Closed(Consumed(c, l), c, {node[c].remote[i] : i \in changed})
         /\ LetsGo(node[c], next, changed)
    BY <2>10 DEF s, eaten
  <2> HIDE DEF mid
  <2> QED  BY <1>1, <1>4, <1>7, <2>2, <2>7, <2>11, <2>12, <2>13, ReplacedKeepsReady
<1> QED  BY <1>5, <1>6, <1>7

LEMMA ReadPeerPortsKeepsReady ==
  ASSUME MeshInv, ReadyInv, NEW c \in Clients, NEW l \in Links, ReadPeerPorts(c, l)
  PROVE  ReadyInv'
<1> DEFINE s == node[c]
           m == Command(c, l)
           changed == {i \in Slots : s.remote[i] # NoLink /\ s.ports[i] # m.ports[i]}
           cleared == ClearPeers(s, changed)
           next == [cleared EXCEPT !.ports = m.ports, !.dialled = @ \ changed, !.endpoints = TRUE]
           eaten == Consumed(c, l)
           mid == Closed(eaten, c, {s.remote[i] : i \in changed})
<1>1. Arrives(c, l, "ports") /\ Has(net, c, l)
  BY DEF ReadPeerPorts, Arrives, IsOpen
<1>2. /\ c \in Nodes /\ s \in State /\ Consistent(c, s) /\ InSession(s) /\ EndsOK(net)
      /\ Attentive(c, s) /\ c # Lobby
  BY <1>1, EndFacts, LANAssumption DEF ReadyInv
<1>3. m \in Message /\ m.type = "ports" /\ Carries(net, <<c, l>>, m)
  BY <1>1, <1>2, MildConsumed
<1>4. "ports" \notin Words
  BY DEF Words
<1>5. \/ Become(c, s, eaten)
      \/ /\ BecomeConnecting(c, next, mid) /\ s.listed
         /\ \A i \in Slots : s.players[i].status # "none" => m.ports[i] # NoPort
  BY DEF ReadPeerPorts
<1>6. CASE Become(c, s, eaten)
  BY <1>1, <1>2, <1>4, <1>6, IgnoredKeepsReady
<1>7. CASE /\ BecomeConnecting(c, next, mid) /\ s.listed
           /\ \A i \in Slots : s.players[i].status # "none" => m.ports[i] # NoPort
  <2>1. m.ports \in Ports /\ s.players \in [Slots -> Player]
    BY <1>2, <1>3, MessageKinds DEF State
  <2>2. /\ changed \subseteq Slots
        /\ \A i \in Slots \ changed : s.remote[i] # NoLink =>
              s.players[i].status # "none" /\ m.ports[i] = s.ports[i]
        /\ s.id \notin changed
    BY <1>2 DEF Consistent, Attentive, Slots
  <2> HIDE DEF s, changed
  <2>3. cleared \in State /\ cleared.players = s.players
    BY <1>2, <2>2, ClearedFacts
  <2>4. \A y \in Clients : \A i \in Slots : m.ports[i] = y => Claimed(node, net, y, i)
    BY <1>3 DEF Carries, Claimed, Gives
  <2> HIDE DEF m
  <2>5. next = Replaced(s, changed, s.players, m.ports, "ports")
    BY Zenon DEF Replaced
  <2> HIDE DEF next, cleared
  <2>6. /\ next \in State /\ Consistent(c, next) /\ next.ports = m.ports
        /\ Replaceable(s, changed, s.players, m.ports, "ports")
    <3>1. \A i \in Slots : s.players[i].status # "none" => m.ports[i] # NoPort
      BY <1>7
    <3>2. Replaceable(s, changed, s.players, m.ports, "ports")
      BY <2>1, <2>2, <3>1 DEF Replaceable
    <3> QED  BY <1>2, <2>5, <3>2, ReplacedIsConsistent
  <2>7. /\ next.id = s.id /\ next.ready = s.ready \ changed /\ next.phase = s.phase
        /\ \A i \in Ids : next.remote[i] = IF i \in changed THEN NoLink ELSE s.remote[i]
        /\ next.players = s.players /\ (s.listed => next.listed)
    BY <1>2, <2>2, <2>5, <2>6, ReplacedFields
  <2>8. LetsGo(s, next, changed)
    BY <2>2, <2>7 DEF LetsGo
  <2>9. Attentive(c, next)
    <3>1. s.ready \subseteq Ids /\ Slots \subseteq Ids
      BY <1>2 DEF State, Slots
    <3>2. next.id \in Ids => next.remote[next.id] = NoLink
      BY <1>2, <2>7 DEF Attentive
    <3>3. \A j \in next.ready : j = next.id \/ next.remote[j] # NoLink
      BY <1>2, <2>7, <3>1 DEF Attentive
    <3>4. \A j \in Slots : next.remote[j] # NoLink => next.players[j].status = "client"
      BY <1>2, <2>7, <3>1 DEF Attentive
    <3>5. Vocal(next) => next.phase = "connected"
      BY <1>2, <2>7 DEF Attentive, Vocal
    <3> QED  BY <1>2, <1>7, <2>7, <3>2, <3>3, <3>4, <3>5 DEF Attentive
  <2>10. Backed(c, next)
    BY <2>4, <2>6, <2>7 DEF Backed, Claimed, s
  <2>11. /\ mid = Closed(Consumed(c, l), c, {node[c].remote[i] : i \in changed})
         /\ LetsGo(node[c], next, changed)
    BY <2>8 DEF s
  <2> HIDE DEF mid
  <2> QED  BY <1>1, <1>4, <1>7, <2>2, <2>6, <2>9, <2>10, <2>11, ReplacedKeepsReady
<1> QED  BY <1>5, <1>6, <1>7

-----------------------------------------------------------------------------
(* Every step keeps what is known of readiness                               *)

LEMMA InitReady == Init => ReadyInv
<1> SUFFICES ASSUME Init PROVE ReadyInv
  OBVIOUS
<1> DEFINE hosting == [Idle EXCEPT !.phase = "connected", !.id = 0]
<1>1. /\ node = [x \in Nodes |-> IF x = Lobby THEN hosting ELSE Idle]
      /\ net = [e \in {} |-> Opening]
  BY DEF Init
<1>2. 0 \in Ids /\ NoId \notin Ids /\ Lobby \in Nodes /\ Slots \subseteq Ids /\ 0 \notin Slots
  BY LANAssumption DEF Ids, Nodes, NoId, Slots
<1>3. /\ Idle.phase = "idle" /\ Idle.id = NoId /\ Idle.listed = FALSE /\ Idle.ready = {}
      /\ \A i \in Slots : Idle.players[i].status = "none"
      /\ \A i \in Ids : Idle.remote[i] = NoLink
  BY DEF Idle, Empty
<1>4. /\ hosting.phase = "connected" /\ hosting.id = 0 /\ hosting.ready = {}
      /\ hosting.players = Idle.players /\ hosting.remote = Idle.remote
  BY DEF Idle
<1> HIDE DEF Idle, hosting
<1>5. \A x \in Nodes : /\ node[x] = IF x = Lobby THEN hosting ELSE Idle
                       /\ node[x].ready = {} /\ \A i \in Ids : node[x].remote[i] = NoLink
  BY <1>1, <1>3, <1>4
<1>6. \A z, l : ~Has(net, z, l)
  BY <1>1 DEF Has
<1>7. ASSUME NEW l \in Links
      PROVE  LinkOK(node, net, l)
  <2>1. l # NoLink /\ l[1] \in Nodes /\ l[2] \in Nodes
    BY LinkFacts DEF Nodes
  <2>2. \A z \in {l[1], l[2]} : ~Owns(node[z], l)
    BY <1>5, <2>1 DEF Owns, OwnerOf
  <2> QED  BY <1>6, <2>2
           DEF LinkOK, Spoken, EndOwned, EndHears, EndsInOrder, ListsFit, IsOpen
<1>8. ASSUME NEW x \in Nodes
      PROVE  Attentive(x, node[x])
  <2>1. ~Vocal(node[x])
    BY <1>5 DEF Vocal
  <2>2. CASE x = Lobby
    BY <1>2, <1>3, <1>4, <1>5, <2>1, <2>2 DEF Attentive
  <2>3. CASE x # Lobby
    BY <1>2, <1>3, <1>5, <2>1, <2>3 DEF Attentive
  <2> QED  BY <2>2, <2>3
<1> QED  BY <1>7, <1>8 DEF ReadyInv, LinksOK

LEMMA EventKeepsReady ==
  ASSUME SessionInv, ReadyInv, MeshInv', NEW x \in Nodes, NEW l \in Links, Event(x, l)
  PROVE  ReadyInv'
<1>0. MeshInv
  BY DEF SessionInv
<1>1. CASE x \in Clients /\ Dialled(x, l)
  BY <1>0, <1>1, DialledClientKeepsReady, DialledLobbyKeepsReady
<1>2. CASE x \in Clients /\ Accept(x, l)
  BY <1>0, <1>2, AcceptKeepsReady
<1>3. CASE x \in Clients /\ ClientInit(x, l)
  BY <1>0, <1>3, ClientInitKeepsReady
<1>4. CASE x \in Clients /\ ReadPlayerList(x, l)
  BY <1>0, <1>4, ReadPlayerListKeepsReady
<1>5. CASE x \in Clients /\ ReadPeerPorts(x, l)
  BY <1>0, <1>5, ReadPeerPortsKeepsReady
<1>6. CASE Seat(l)
  BY <1>0, <1>6, SeatKeepsReady
<1>7. CASE PlayerInfo(l)
  BY <1>7, PlayerInfoKeepsReady
<1>8. CASE PeerReady(x, l) \/ PeerNotReady(x, l)
  BY <1>0, <1>8, HeardKeepsReady
<1>9. CASE Disconnect(x, l)
  BY <1>9, DisconnectKeepsReady
<1> QED  BY <1>1, <1>2, <1>3, <1>4, <1>5, <1>6, <1>7, <1>8, <1>9 DEF Event

LEMMA NextKeepsReady ==
  ASSUME SessionInv, ReadyInv, [Next]_vars
  PROVE  ReadyInv'
<1>0. MeshInv /\ MeshInv'
  BY NextKeeps DEF SessionInv
<1>1. CASE \E x \in Nodes, l \in Links : Event(x, l)
  BY <1>0, <1>1, EventKeepsReady
<1>2. CASE \E x \in Nodes, l \in Links : FrameArrives(x, l)
  BY <1>0, <1>2, FrameArrivesKeepsReady
<1>3. CASE \E c \in Clients : StartClient(c) \/ Process(c)
  BY <1>0, <1>3, StartKeepsReady, ProcessKeepsReady
<1>4. CASE \E x \in Nodes : Leave(x)
  BY <1>0, <1>4, EndSessionKeepsReady DEF Leave
<1>5. CASE \E x \in Nodes : Begin(x) \/ End(x)
  BY <1>0, <1>5, TurnKeepsReady
<1>6. CASE \E x \in Nodes, type \in {"command", "reply"} : Send(x, type)
  BY <1>0, <1>6, SendKeepsReady
<1>7. CASE \E x \in Nodes : Receive(x) \/ Discard(x)
  BY <1>0, <1>7, ReceiveKeepsReady
<1>8. CASE UNCHANGED vars
  <2>1. node' = node /\ net' = net
    BY <1>8 DEF vars
  <2> QED  BY <2>1 DEF ReadyInv
<1> QED  BY <1>1, <1>2, <1>3, <1>4, <1>5, <1>6, <1>7, <1>8 DEF Next

LEMMA ReadyAlways == Spec => []ReadyInv
<1>1. SessionInv /\ ReadyInv /\ [Next]_vars => ReadyInv'
  BY NextKeepsReady
<1> QED  BY InitReady, <1>1, SessionAlways, PTL DEF Spec

\* The last word said is the one with the greatest place.
LEMMA LastSaid ==
  ASSUME NEW box \in Seq(Message), Said(box) # {},
         NEW last, last = CHOOSE n \in Said(box) : \A m \in Said(box) : m <= n
  PROVE  LastSays(box) <=> box[last].type = "ready"
<1> DEFINE said == Said(box)
           S == {Len(box) - n : n \in said}
<1>1. said \subseteq 1..Len(box) /\ Len(box) \in Nat /\ \A n \in said : n \in Int
  BY DEF Said
<1> HIDE DEF said
<1>2. S \subseteq Nat /\ S # {}
  BY <1>1 DEF said
<1> HIDE DEF S
<1>3. PICK t \in S : \A u \in S : <<u, t>> \notin OpToRel(<, Nat)
  BY <1>2, WFMin, NatLessThanWellFounded, Zenon
<1>4. \A u \in S : u \in Nat /\ t \in Nat /\ ~(u < t)
  BY <1>2, <1>3, Zenon DEF OpToRel
<1>5. PICK n \in said : t = Len(box) - n
  BY DEF S
<1>6. \A m \in said : m <= n
  <2> SUFFICES ASSUME NEW m \in said
               PROVE  m <= n
    OBVIOUS
  <2>1. Len(box) - m \in S
    BY DEF S
  <2>2. ~(Len(box) - m < Len(box) - n)
    BY <1>4, <1>5, <2>1
  <2> QED  BY <1>1, <2>2
<1>7. last = CHOOSE k \in said : \A m \in said : m <= k
  BY DEF said
<1>8. last \in said /\ \A m \in said : m <= last
  BY <1>6, <1>7, Zenon
<1>9. \A k \in said : (\A m \in said : m <= k) => k = last
  <2> SUFFICES ASSUME NEW k \in said, \A m \in said : m <= k
               PROVE  k = last
    OBVIOUS
  <2>1. k <= last /\ last <= k
    BY <1>8
  <2>2. k \in Int /\ last \in Int
    BY <1>1, <1>8, Zenon
  <2> QED  BY <2>1, <2>2
<1> QED  BY <1>8, <1>9 DEF LastSays, said

-----------------------------------------------------------------------------
(* What the session promises                                                 *)

\* Every player, end of a link and command under way is of its kind, however
\* many players join, however their commands interleave and whoever is lost.
THEOREM SessionTypes == Spec => []TypeOK
BY SessionAlways, PTL DEF SessionInv

\* A reply goes to, and a frame is taken from, only a peer who still has the
\* number it came under: ClearPeer forgets the host, and drops the frames, of
\* everyone whose link goes (ClearPeer, RecvPacketGeneric, SendReply).
THEOREM NothingInherited == Spec => []NothingIsInherited
<1>1. SessionInv => NothingIsInherited
  BY DEF SessionInv, MeshInv, Consistent, NothingIsInherited
<1> QED  BY <1>1, SessionAlways, PTL

\* The player behind link i of anybody is the one its list names under i, and
\* that player itself has no other number, whatever was dialled, accepted,
\* lost or taken over by a later session before (ProcessClientEvent,
\* ReadPlayerList, ReadPeerPorts, ConnectPeers).
THEOREM TruthfulNumbers == Spec => []NumbersAreTruthful
<1>1. SessionInv => NumbersAreTruthful
  <2> SUFFICES ASSUME SessionInv, NEW x \in Nodes, NEW i \in Slots, node[x].remote[i] # NoLink
               PROVE  LET y == Other(x, node[x].remote[i]) IN
                      /\ node[x].players[i].status # "none"
                      /\ node[x].ports[i] = y
                      /\ Running(y) /\ node[y].id # NoId => node[y].id = i
    BY DEF NumbersAreTruthful
  <2> DEFINE y == Other(x, node[x].remote[i])
  <2>1. node[x].players[i].status # "none" /\ node[x].ports[i] = y
    BY DEF SessionInv, MeshInv, Consistent
  <2>2. node \in [Nodes -> State] /\ OneNumber /\ \A z \in Nodes : Consistent(z, node[z])
    BY DEF SessionInv, MeshInv
  <2>3. node[x].remote[i] \in Links
    BY <2>2 DEF State, Slots
  <2>4. y \in Nodes
    BY <2>3, LinkFacts
  <2> HIDE DEF y
  <2>5. node[x].ports[i] \in Clients \cup {NoPort}
    BY <2>2 DEF State, Ports
  <2>6. y \in Clients
    BY <2>1, <2>4, <2>5, LANAssumption DEF Nodes
  <2>7. ASSUME node[y].id # NoId
        PROVE  node[y].id = i
    <3>1. node[y].id \in Ids \cup {NoId} /\ node[y].id # 0
      BY <2>2, <2>4, <2>6, LANAssumption DEF State, Consistent
    <3>2. node[y].id \in Slots
      BY <2>7, <3>1 DEF Slots
    <3>3. Claimed(node, net, y, i) /\ Claimed(node, net, y, node[y].id)
      BY <2>1 DEF Claimed
    <3> QED  BY <2>2, <2>6, <3>2, <3>3 DEF OneNumber
  <2> QED  BY <2>1, <2>7 DEF y
<1> QED  BY <1>1, SessionAlways, PTL

\* While the lobby runs it counts exactly the seats it gave: a player turned
\* away, one who leaves before it said who it is, and one who leaves later
\* each change the count with the list, or not at all (ProcessHostEvent).
THEOREM CountedSeats == Spec => []SeatsAreCounted
BY SessionAlways, PTL DEF SessionInv

\* Over a link that is open at both ends a player will have heard exactly what
\* the other is, once what is under way has arrived: no Begin and no End is
\* missed, neither one called before the link was made, nor while it was, nor
\* one of somebody who had the number before (SendLocalReady, ClearPeer,
\* ProcessClientEvent).
THEOREM ReadinessCorrect == Spec => []ReadinessArrives
<1>1. SessionInv /\ ReadyInv => ReadinessArrives
  <2> SUFFICES ASSUME SessionInv, ReadyInv, NEW x \in Nodes, NEW i \in Ids, NEW l, NEW y,
                      l = node[x].remote[i], y = Other(x, l), l # NoLink,
                      IsOpen(net, x, l), IsOpen(net, y, l)
               PROVE  ReadyAfter(x, i, l) = (node[y].id \in node[y].ready)
    BY DEF ReadinessArrives
  <2> DEFINE box == net[<<x, l>>].inbox
             s == node[x]
  <2>1. MeshInv /\ Has(net, x, l)
    BY DEF SessionInv, IsOpen
  <2>2. /\ l \in Links /\ x \in {l[1], l[2]} /\ box \in Seq(Message) /\ Running(x)
        /\ LinkOK(node, net, l)
    BY <2>1, EndFacts DEF LinkEnd, ReadyInv, LinksOK
  <2>3. Hears(s, box, l) <=> Vocal(node[y])
    BY <2>1, <2>2 DEF LinkOK, Spoken, EndHears
  <2>4. Said(box) = {n \in DOMAIN box : box[n].type \in {"ready", "not ready"}}
    BY DEF Said, Words
  <2>5. CASE Said(box) = {}
    <3>1. OwnerOf(s, l) = {i}
      BY <2>1, <2>2, SoleOwner DEF OwnerOf
    <3>2. Marked(s, l) <=> i \in s.ready
      BY <3>1 DEF Marked
    <3>3. ReadyAfter(x, i, l) = (i \in s.ready)
      BY <2>4, <2>5 DEF ReadyAfter
    <3> QED  BY <2>3, <2>5, <3>2, <3>3 DEF Hears, Vocal
  <2>6. CASE Said(box) # {}
    <3> DEFINE last == CHOOSE n \in Said(box) : \A m \in Said(box) : m <= n
    <3>1. ReadyAfter(x, i, l) = (box[last].type = "ready")
      BY <2>4, <2>6 DEF ReadyAfter
    <3> HIDE DEF box
    <3>2. LastSays(box) <=> box[last].type = "ready"
      BY <2>2, <2>6, LastSaid
    <3> QED  BY <2>3, <2>6, <3>1, <3>2 DEF Hears, Vocal
  <2> QED  BY <2>5, <2>6
<1> QED  BY <1>1, SessionAlways, ReadyAlways, PTL

=============================================================================

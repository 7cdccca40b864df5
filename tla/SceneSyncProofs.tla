----------------------------- MODULE SceneSyncProofs -----------------------------
(* Proofs about SceneSync, for any players, games and bounds: its types and    *)
(* the two containers of a grid, that the server knows what it is told of,     *)
(* that the owner of a ship is ahead of every copy, and that no copy goes      *)
(* back.                                                                       *)
EXTENDS SceneSync, TLAPS

(* A motion that the ship of o has now or had before.                          *)
Behind(o, m) == m.n <= Own(o).n /\ (m.n = Own(o).n => m = Own(o))

(* An update of the ship o.                                                    *)
Tells(m, o) == m.type = "Update" /\ m.of = o

(* A client has no messages before it joins, and gets none when it is down;    *)
(* the games of a process are played one after the other.                      *)
LinkInv ==
  \A c \in Clients :
    /\ link[c] = "off" <=> stage[c] = "away"
    /\ link[c] # "off" => \A d \in Earlier(c) : link[d] = "down"
    /\ link[c] = "off" => toServer[c] = <<>>
    /\ link[c] # "on" => toClient[c] = <<>>

(* A ship is in the grid of its owner if it is anywhere, and in that of the    *)
(* server if it is with another player.                                        *)
PlaceInv ==
  \A o \in Clients :
    /\ stage[o] = "in" => o \in DOMAIN things[Process[o]]
    /\ \A n \in Nodes : o \in DOMAIN things[n] =>
         stage[o] = "in" /\ (n = Process[o] \/ o \in DOMAIN things[Server])

Waits(c, type) == \E j \in DOMAIN toServer[c] : toServer[c][j].type = type
Before(c, i, type) == \E j \in DOMAIN toServer[c] : j < i /\ toServer[c][j].type = type

(* A client tells the server of its own ship only, and asks for it never: once *)
(* of its post, after it has asked for the grid, and then of updates.          *)
ToldInv(c) ==
  /\ \A i \in DOMAIN toServer[c] :
       /\ toServer[c][i].type \in {"Post", "Update"} =>
            toServer[c][i].of = c /\ stage[c] = "in" /\ (grid[Server] \/ Before(c, i, "GridRequest"))
       /\ toServer[c][i].type = "RequestById" => toServer[c][i].of # c
       /\ toServer[c][i].type = "Post" => c \notin DOMAIN things[Server] /\ ~Before(c, i, "Post")
       /\ toServer[c][i].type = "Update" => c \in DOMAIN things[Server] \/ Before(c, i, "Post")
  /\ link[c] = "on" => grid[Server] \/ Waits(c, "GridRequest")
  /\ link[c] = "on" /\ stage[c] = "in" => c \in DOMAIN things[Server] \/ Waits(c, "Post")

(* A client is told of the ships of others, which the server has.              *)
SentInv(c) ==
  \A i \in DOMAIN toClient[c] :
    toClient[c][i].type \in {"Post", "Update"} =>
      toClient[c][i].of # c /\ toClient[c][i].of \in DOMAIN things[Server]

(* The motions of a ship only grow along its way to the server, *)
UpInv(c) ==
  \A i \in DOMAIN toServer[c] : toServer[c][i].type = "Update" =>
    /\ c \in DOMAIN things[Server] => things[Server][c].n <= toServer[c][i].motion.n
    /\ link[c] = "on" => Behind(c, toServer[c][i].motion)
    /\ \A j \in DOMAIN toServer[c] : i < j /\ toServer[c][j].type = "Update" =>
         toServer[c][i].motion.n <= toServer[c][j].motion.n

(* and from there to each of the other players.                                *)
DownInv(c) ==
  \A i \in DOMAIN toClient[c] : \A o \in Clients : Tells(toClient[c][i], o) =>
    /\ toClient[c][i].motion.n <= things[Server][o].n
    /\ link[o] = "on" => Behind(o, toClient[c][i].motion)
    /\ o \in DOMAIN things[Process[c]] /\ Process[c] # Process[o] =>
         things[Process[c]][o].n <= toClient[c][i].motion.n
    /\ \A j \in DOMAIN toClient[c] : i < j /\ Tells(toClient[c][j], o) =>
         toClient[c][i].motion.n <= toClient[c][j].motion.n

(* So does what the copies show, which is never ahead of the owner.            *)
CopyInv(o) ==
  /\ \A p \in Processes : o \in DOMAIN things[p] /\ p # Process[o] =>
       things[p][o].n <= things[Server][o].n
  /\ link[o] = "on" => \A n \in Nodes : o \in DOMAIN things[n] => Behind(o, things[n][o])
  /\ link[o] = "on" /\ stage[o] = "in" => Behind(o, Still)

(* Each node has a grid of its own, a map from ships to what they are doing.    *)
Shaped ==
  /\ things = [n \in Nodes |-> things[n]]
  /\ \A n \in Nodes : DOMAIN things[n] \subseteq Clients /\ things[n] \in [DOMAIN things[n] -> Motions]

Typed == TypeOK /\ Shaped

Told == \A c \in Clients : ToldInv(c)
Sent == \A c \in Clients : SentInv(c)
Up == \A c \in Clients : UpInv(c)
Down == \A c \in Clients : DownInv(c)
Copies == \A o \in Clients : CopyInv(o)

(* The inductive invariant.                                                    *)
SceneIInv ==
  Typed /\ Indexed /\ LinkInv /\ PlaceInv /\ Told /\ Sent /\ Up /\ Down /\ Copies

--------------------------------------------------------------------------------
(* What the messages are made of.                                              *)
LEMMA ToServerMessages ==
  ASSUME NEW m \in ServerMessages
  PROVE  /\ m.type \in {"GridRequest", "GridById", "Ping", "Post", "RequestById", "Update"}
         /\ m.type \in {"Post", "RequestById", "Update"} => m.of \in Clients
         /\ m.type = "Post" => m = Post(m.of)
         /\ m.type = "Update" => m.motion \in Motions /\ m = Update(m.of, m.motion)
  BY DEF ServerMessages, GridRequest, GridById, Untyped, Post, Update

(* and what the server sends.                                                  *)
LEMMA ToClientMessages ==
  ASSUME NEW m \in ClientMessages
  PROVE  /\ m.type \in {"GridPost", "Post", "Update"}
         /\ m.type \in {"Post", "Update"} => m.of \in Clients
         /\ m.type = "Post" => m = Post(m.of)
         /\ m.type = "Update" => m.motion \in Motions /\ m = Update(m.of, m.motion)
  BY DEF ClientMessages, GridPost, Post, Update

(* The messages that are made are messages.                                    *)
LEMMA MessageMade ==
  /\ GridRequest \in ServerMessages /\ GridById \in ServerMessages /\ Untyped \in ServerMessages
  /\ GridPost \in ClientMessages
  /\ \A o \in Clients : /\ Post(o) \in ServerMessages /\ RequestById(o) \in ServerMessages
                        /\ Post(o) \in ClientMessages
  /\ \A o \in Clients, m \in Motions : /\ Update(o, m) \in ServerMessages
                                       /\ Update(o, m) \in ClientMessages
  BY DEF ServerMessages, ClientMessages, GridRequest, GridById, Untyped, GridPost, Post, Update,
         RequestById

(* What taking the front of a queue gives and leaves,                          *)
LEMMA FrontOfQueue ==
  ASSUME NEW S, NEW s \in Seq(S), s # <<>>
  PROVE  /\ Head(s) \in S /\ Head(s) = s[1] /\ 1 \in DOMAIN s
         /\ Tail(s) \in Seq(S)
         /\ \A i \in DOMAIN Tail(s) : i + 1 \in DOMAIN s /\ Tail(s)[i] = s[i + 1]
         /\ \A i \in DOMAIN s : i # 1 => i - 1 \in DOMAIN Tail(s) /\ Tail(s)[i - 1] = s[i]
  OBVIOUS

(* and what putting a message at its back does.                                *)
LEMMA BackOfQueue ==
  ASSUME NEW S, NEW s \in Seq(S), NEW m \in S
  PROVE  /\ Append(s, m) \in Seq(S)
         /\ DOMAIN Append(s, m) = DOMAIN s \cup {Len(s) + 1}
         /\ Len(s) + 1 \in DOMAIN Append(s, m) /\ Append(s, m)[Len(s) + 1] = m
         /\ \A i \in DOMAIN s : i \in DOMAIN Append(s, m) /\ Append(s, m)[i] = s[i] /\ i < Len(s) + 1
  OBVIOUS

(* A node gets a ship, which is still, in its grid.                            *)
Added(n, o) ==
  /\ \A k \in Nodes : DOMAIN things'[k] = IF k = n THEN DOMAIN things[k] \cup {o}
                                                   ELSE DOMAIN things[k]
  /\ \A k \in Nodes : \A x \in DOMAIN things'[k] :
       things'[k][x] = IF k = n /\ x = o THEN Still ELSE things[k][x]

(* What it has of a ship becomes m.                                            *)
Moved(n, o, m) ==
  /\ \A k \in Nodes : DOMAIN things'[k] = DOMAIN things[k]
  /\ \A k \in Nodes : \A x \in DOMAIN things[k] :
       things'[k][x] = IF k = n /\ x = o THEN m ELSE things[k][x]

(* A map keeps its shape when it gets a ship,                                  *)
LEMMA AddShip ==
  ASSUME Shaped, NEW n \in Nodes, NEW o \in Clients, things' = [things EXCEPT ![n] = Put(@, o, Still)]
  PROVE  Added(n, o) /\ Shaped'
<1>1. Still \in Motions
  BY DEF Still, Motions
<1>2. things' = [k \in Nodes |-> IF k = n THEN Put(things[n], o, Still) ELSE things[k]]
  BY DEF Shaped
<1>3. /\ DOMAIN Put(things[n], o, Still) = DOMAIN things[n] \cup {o}
      /\ \A x \in DOMAIN things[n] \cup {o} :
           Put(things[n], o, Still)[x] = IF x = o THEN Still ELSE things[n][x]
  BY DEF Put
<1>4. Put(things[n], o, Still) \in [DOMAIN things[n] \cup {o} -> Motions]
  BY <1>1 DEF Put, Shaped
<1>5. Added(n, o)
  BY <1>2, <1>3 DEF Added
<1>6. Shaped'
  <2>1. things' = [k \in Nodes |-> things'[k]]
    BY <1>2
  <2>2. ASSUME NEW k \in Nodes
        PROVE  DOMAIN things'[k] \subseteq Clients /\ things'[k] \in [DOMAIN things'[k] -> Motions]
    BY <1>2, <1>3, <1>4 DEF Shaped
  <2> QED BY <2>1, <2>2 DEF Shaped
<1> QED BY <1>5, <1>6

(* and when what it has of a ship changes.                                     *)
LEMMA MoveShip ==
  ASSUME Shaped, NEW n \in Nodes, NEW o \in DOMAIN things[n], NEW m \in Motions,
         things' = [things EXCEPT ![n][o] = m]
  PROVE  Moved(n, o, m) /\ Shaped'
<1>1. things' = [k \in Nodes |-> IF k = n THEN [things[n] EXCEPT ![o] = m] ELSE things[k]]
  BY DEF Shaped
<1>2. [things[n] EXCEPT ![o] = m] \in [DOMAIN things[n] -> Motions]
  BY DEF Shaped
<1>3. Moved(n, o, m)
  BY <1>1, <1>2 DEF Moved
<1>4. Shaped'
  <2>1. things' = [k \in Nodes |-> things'[k]]
    BY <1>1
  <2>2. ASSUME NEW k \in Nodes
        PROVE  DOMAIN things'[k] \subseteq Clients /\ things'[k] \in [DOMAIN things'[k] -> Motions]
    BY <1>1, <1>2 DEF Shaped
  <2> QED BY <2>1, <2>2 DEF Shaped
<1> QED BY <1>3, <1>4

--------------------------------------------------------------------------------
(* Types.                                                                      *)
LEMMA TypeInit == Init => Typed
<1> SUFFICES ASSUME Init PROVE Typed
  OBVIOUS
<1>1. Shaped
  BY DEF Init, Shaped
<1>2. TypeOK
  BY DEF Init, TypeOK
<1> QED BY <1>1, <1>2 DEF Typed

(* The queues of c when one message is taken or added.                         *)
LEMMA QueueTypes ==
  ASSUME Typed, NEW c \in Clients
  PROVE  /\ toServer[c] # <<>> => /\ Head(toServer[c]) \in ServerMessages
                                  /\ Head(toServer[c]) = toServer[c][1] /\ 1 \in DOMAIN toServer[c]
                                  /\ [toServer EXCEPT ![c] = Tail(@)] \in [Clients -> Seq(ServerMessages)]
         /\ toClient[c] # <<>> => /\ Head(toClient[c]) \in ClientMessages
                                  /\ Head(toClient[c]) = toClient[c][1] /\ 1 \in DOMAIN toClient[c]
                                  /\ [toClient EXCEPT ![c] = Tail(@)] \in [Clients -> Seq(ClientMessages)]
         /\ \A m \in ServerMessages :
              [toServer EXCEPT ![c] = Append(@, m)] \in [Clients -> Seq(ServerMessages)]
         /\ \A m \in ClientMessages :
              /\ Answer(c, m) \in [Clients -> Seq(ClientMessages)]
              /\ Relay(c, m) \in [Clients -> Seq(ClientMessages)]
<1>1. toServer \in [Clients -> Seq(ServerMessages)] /\ toClient \in [Clients -> Seq(ClientMessages)]
  BY DEF Typed, TypeOK
<1> HIDE DEF ServerMessages, ClientMessages
<1>2. toServer[c] \in Seq(ServerMessages) /\ toClient[c] \in Seq(ClientMessages)
  BY <1>1
<1>3. toServer[c] # <<>> => /\ Head(toServer[c]) \in ServerMessages
                            /\ Head(toServer[c]) = toServer[c][1] /\ 1 \in DOMAIN toServer[c]
                            /\ Tail(toServer[c]) \in Seq(ServerMessages)
  BY <1>2, FrontOfQueue
<1>4. toClient[c] # <<>> => /\ Head(toClient[c]) \in ClientMessages
                            /\ Head(toClient[c]) = toClient[c][1] /\ 1 \in DOMAIN toClient[c]
                            /\ Tail(toClient[c]) \in Seq(ClientMessages)
  BY <1>2, FrontOfQueue
<1>5. \A m \in ServerMessages : Append(toServer[c], m) \in Seq(ServerMessages)
  BY <1>2
<1>6. \A d \in Clients, m \in ClientMessages : Append(toClient[d], m) \in Seq(ClientMessages)
  BY <1>1
<1> QED BY <1>1, <1>3, <1>4, <1>5, <1>6 DEF Answer, Relay

(* No step takes a variable out of its type.                                   *)
LEMMA TypeStep == SceneIInv /\ [Next]_vars => Typed'
<1> SUFFICES ASSUME SceneIInv, [Next]_vars PROVE Typed'
  OBVIOUS
<1>1. /\ Typed /\ Shaped /\ TypeOK
  BY DEF SceneIInv, Typed
<1>2. /\ link \in [Clients -> {"off", "on", "down"}]
      /\ stage \in [Clients -> {"away", "asked", "in"}]
      /\ toServer \in [Clients -> Seq(ServerMessages)]
      /\ toClient \in [Clients -> Seq(ClientMessages)]
      /\ grid \in [Nodes -> BOOLEAN] /\ vec \in [Nodes -> Seq(Clients)]
  BY <1>1 DEF TypeOK
<1>3. \A c \in Clients : Process[c] \in Nodes
  BY NodesAssumption DEF Nodes
<1>4. Server \in Nodes
  BY DEF Nodes
<1>5. ASSUME Shaped',
             link' \in [Clients -> {"off", "on", "down"}],
             stage' \in [Clients -> {"away", "asked", "in"}],
             toServer' \in [Clients -> Seq(ServerMessages)],
             toClient' \in [Clients -> Seq(ClientMessages)],
             grid' \in [Nodes -> BOOLEAN], vec' \in [Nodes -> Seq(Clients)]
      PROVE  Typed'
  BY <1>5 DEF Typed, TypeOK, Shaped
<1>6. things' = things => Shaped'
  BY <1>1 DEF Shaped
<1>7. \A n \in Nodes, o \in Clients :
         [vec EXCEPT ![n] = Append(@, o)] \in [Nodes -> Seq(Clients)]
  BY <1>2
<1> HIDE DEF TypeOK
<1>8. ASSUME NEW c \in Clients, Acts(c) PROVE Typed'
  <2>1. CASE Join(c)
    BY <1>2, <1>5, <1>6, <1>1, <2>1, QueueTypes, MessageMade DEF Join
  <2>2. CASE Enter(c)
    <3>1. Shaped'
      BY <1>1, <1>3, <2>2, AddShip DEF Enter
    <3> QED BY <1>1, <1>2, <1>3, <1>5, <1>7, <2>2, <3>1, QueueTypes, MessageMade DEF Enter
  <2>3. CASE Steer(c)
    <3>1. c \in DOMAIN things[Process[c]] /\ things[Process[c]] \in [DOMAIN things[Process[c]] -> Motions]
      BY <1>1, <1>3, <2>3 DEF Steer, SceneIInv, PlaceInv, Shaped
    <3>2. PICK moving \in BOOLEAN :
            things' = [things EXCEPT ![Process[c]][c] = [n |-> Own(c).n + 1, moving |-> moving]]
      BY <2>3 DEF Steer, Own
    <3>3. [n |-> Own(c).n + 1, moving |-> moving] \in Motions
      BY <3>1 DEF Motions, Own
    <3>4. Shaped'
      BY <1>1, <1>3, <3>1, <3>2, <3>3, MoveShip
    <3> QED BY <1>2, <1>5, <2>3, <3>4 DEF Steer
  <2>4. CASE FixedUpdate(c)
    <3>1. Own(c) \in Motions
      BY <1>1, <1>3, <2>4 DEF FixedUpdate, SceneIInv, PlaceInv, Shaped, Own
    <3>2. Update(c, Own(c)) \in ServerMessages
      BY <3>1, MessageMade
    <3>3. toServer' = [toServer EXCEPT ![c] = Append(@, Update(c, Own(c)))]
      BY <2>4 DEF FixedUpdate, Own
    <3>4. toServer' \in [Clients -> Seq(ServerMessages)]
      BY <1>1, <3>2, <3>3, QueueTypes
    <3> QED BY <1>2, <1>5, <1>6, <2>4, <3>4 DEF FixedUpdate
  <2>5. CASE Leave(c)
    <3>1. PICK k \in 0..Len(toServer[c]) : toServer' = [toServer EXCEPT ![c] = SubSeq(@, 1, k)]
      BY <2>5 DEF Leave
    <3>2. SubSeq(toServer[c], 1, k) \in Seq(ServerMessages)
      <4>1. toServer[c] \in Seq(ServerMessages)
        BY <1>2
      <4> QED BY <4>1
    <3>3. toServer' \in [Clients -> Seq(ServerMessages)]
      BY <1>2, <3>1, <3>2
    <3> QED BY <1>2, <1>5, <1>6, <2>5, <3>3 DEF Leave
  <2> QED BY <1>8, <2>1, <2>2, <2>3, <2>4, <2>5 DEF Acts
<1>9. ASSUME NEW c \in Clients, Serves(c) PROVE Typed'
  <2> DEFINE m == Head(toServer[c])
  <2>1. m \in ServerMessages /\ toServer' = [toServer EXCEPT ![c] = Tail(@)]
        /\ toServer' \in [Clients -> Seq(ServerMessages)]
    <3>1. toServer[c] # <<>> /\ toServer' = [toServer EXCEPT ![c] = Tail(@)]
      BY <1>9 DEF Serves, ServeGridRequest, ServePost, ServeUpdate, ServeRequest, ServePing, From
    <3> QED BY <1>1, <3>1, QueueTypes
  <2>2. CASE ServeGridRequest(c)
    BY <1>1, <1>2, <1>4, <1>5, <1>6, <2>1, <2>2, QueueTypes, MessageMade DEF ServeGridRequest
  <2>3. CASE ServePost(c)
    <3>1. m.of \in Clients /\ m = Post(m.of)
      BY <2>1, <2>3, ToServerMessages DEF ServePost, From
    <3>2. m \in ClientMessages
      BY <3>1, MessageMade
    <3>3. Shaped'
      BY <1>1, <1>4, <2>3, <3>1, AddShip DEF ServePost
    <3> QED BY <1>1, <1>2, <1>4, <1>5, <1>7, <2>1, <2>3, <3>1, <3>2, <3>3, QueueTypes DEF ServePost
  <2>4. CASE ServeUpdate(c)
    <3>1. m.of \in Clients /\ m = Update(m.of, m.motion) /\ m.motion \in Motions
      BY <2>1, <2>4, ToServerMessages DEF ServeUpdate, From
    <3>2. m \in ClientMessages
      BY <3>1, MessageMade
    <3>3. Shaped'
      BY <1>1, <1>4, <2>4, <3>1, MoveShip DEF ServeUpdate
    <3> QED BY <1>1, <1>2, <1>5, <2>1, <2>4, <3>2, <3>3, QueueTypes DEF ServeUpdate
  <2>5. CASE ServeRequest(c)
    <3>1. m.type \in {"RequestById", "GridById"}
      BY <2>5 DEF ServeRequest, From
    <3>2. m.type = "RequestById" => m.of \in Clients
      BY <2>1, ToServerMessages
    <3>3. toClient' \in [Clients -> Seq(ClientMessages)]
      <4>1. toClient' = Answer(c, GridPost) \/ toClient' = toClient
            \/ (m.type = "RequestById" /\ toClient' = Answer(c, Post(m.of)))
        BY <2>5, <3>1 DEF ServeRequest
      <4> QED BY <1>1, <1>2, <3>2, <4>1, QueueTypes, MessageMade
    <3> QED BY <1>2, <1>5, <1>6, <2>1, <2>5, <3>3 DEF ServeRequest
  <2>6. CASE ServePing(c)
    BY <1>2, <1>5, <1>6, <2>1, <2>6 DEF ServePing
  <2> QED BY <1>9, <2>2, <2>3, <2>4, <2>5, <2>6 DEF Serves
<1>10. ASSUME NEW c \in Clients, Takes(c) PROVE Typed'
  <2> DEFINE m == Head(toClient[c])
  <2>1. m \in ClientMessages /\ toClient' = [toClient EXCEPT ![c] = Tail(@)]
        /\ toClient' \in [Clients -> Seq(ClientMessages)]
    <3>1. toClient[c] # <<>> /\ toClient' = [toClient EXCEPT ![c] = Tail(@)]
      BY <1>10 DEF Takes, TakeGrid, TakePost, DropPost, TakeUpdate, AskForShip, AskForGrid, Gets
    <3> QED BY <1>1, <3>1, QueueTypes
  <2>2. CASE TakeGrid(c)
    BY <1>2, <1>3, <1>5, <1>6, <2>1, <2>2 DEF TakeGrid
  <2>3. CASE TakePost(c)
    <3>1. m.of \in Clients
      BY <2>1, <2>3, ToClientMessages DEF TakePost, Gets
    <3>2. Shaped'
      <4>1. \/ things' = things
            \/ things' = [things EXCEPT ![Process[c]] = Put(@, m.of, Still)]
        BY <2>3 DEF TakePost
      <4> QED BY <1>1, <1>3, <1>6, <3>1, <4>1, AddShip
    <3>3. vec' = [vec EXCEPT ![Process[c]] = Append(@, m.of)]
      BY <2>3 DEF TakePost
    <3> QED BY <1>2, <1>3, <1>5, <1>7, <2>1, <2>3, <3>1, <3>2, <3>3 DEF TakePost
  <2>4. CASE DropPost(c)
    BY <1>1, <1>2, <1>5, <1>6, <2>1, <2>4, QueueTypes, MessageMade DEF DropPost
  <2>5. CASE TakeUpdate(c)
    <3>1. m.motion \in Motions
      BY <2>1, <2>5, ToClientMessages DEF TakeUpdate, Gets
    <3>2. Shaped'
      BY <1>1, <1>3, <2>5, <3>1, MoveShip DEF TakeUpdate
    <3> QED BY <1>2, <1>5, <2>1, <2>5, <3>2 DEF TakeUpdate
  <2>6. CASE AskForShip(c)
    <3>1. m.of \in Clients
      BY <2>1, <2>6, ToClientMessages DEF AskForShip, Gets
    <3> QED BY <1>1, <1>2, <1>5, <1>6, <2>1, <2>6, <3>1, QueueTypes, MessageMade DEF AskForShip
  <2>7. CASE AskForGrid(c)
    <3>1. toServer' = toServer \/ toServer' = [toServer EXCEPT ![c] = Append(@, GridById)]
      BY <2>7 DEF AskForGrid
    <3>2. toServer' \in [Clients -> Seq(ServerMessages)]
      <4>1. CASE toServer' = toServer
        BY <1>2, <4>1
      <4>2. CASE toServer' = [toServer EXCEPT ![c] = Append(@, GridById)]
        <5>1. GridById \in ServerMessages
          BY MessageMade
        <5> QED BY <1>1, <4>2, <5>1, QueueTypes
      <4> QED BY <3>1, <4>1, <4>2
    <3> QED BY <1>2, <1>5, <1>6, <2>1, <2>7, <3>2 DEF AskForGrid
  <2> QED BY <1>10, <2>2, <2>3, <2>4, <2>5, <2>6, <2>7 DEF Takes
<1>11. CASE UNCHANGED vars
  BY <1>2, <1>5, <1>6, <1>11 DEF vars
<1> QED BY <1>8, <1>9, <1>10, <1>11 DEF Next

--------------------------------------------------------------------------------
(* What each action does to the maps.                                          *)
LEMMA NodesOfPlayers == Server \in Nodes /\ \A c \in Clients : Process[c] \in Nodes /\ Process[c] # Server
  BY NodesAssumption DEF Nodes

(* The ship of a client that enters is nowhere yet.                            *)
LEMMA EnterAdds ==
  ASSUME SceneIInv, NEW c \in Clients, Enter(c)
  PROVE  Added(Process[c], c) /\ \A n \in Nodes : c \notin DOMAIN things[n]
<1>1. Added(Process[c], c)
  BY AddShip, NodesOfPlayers DEF Enter, SceneIInv, Typed
<1>2. \A n \in Nodes : c \notin DOMAIN things[n]
  BY DEF Enter, SceneIInv, PlaceInv
<1> QED BY <1>1, <1>2

(* Steering changes the course of the own ship.                                *)
LEMMA SteerMoves ==
  ASSUME SceneIInv, NEW c \in Clients, Steer(c)
  PROVE  \E m \in Motions : /\ Moved(Process[c], c, m) /\ m.n = Own(c).n + 1
                            /\ c \in DOMAIN things[Process[c]] /\ Own(c) \in Motions
<1>1. /\ c \in DOMAIN things[Process[c]] /\ things[Process[c]] \in [DOMAIN things[Process[c]] -> Motions]
      /\ Shaped
  BY NodesOfPlayers DEF Steer, SceneIInv, PlaceInv, Shaped, Typed
<1>2. PICK moving \in BOOLEAN :
        things' = [things EXCEPT ![Process[c]][c] = [n |-> Own(c).n + 1, moving |-> moving]]
  BY DEF Steer, Own
<1>3. Own(c) \in Motions
  BY <1>1 DEF Own
<1>4. [n |-> Own(c).n + 1, moving |-> moving] \in Motions
  BY <1>3 DEF Motions
<1>5. Moved(Process[c], c, [n |-> Own(c).n + 1, moving |-> moving])
  BY <1>1, <1>2, <1>4, MoveShip, NodesOfPlayers
<1> QED BY <1>1, <1>3, <1>4, <1>5

(* The client tells of its own ship, which is new when it is posted.           *)
LEMMA FrontIsOwn ==
  ASSUME SceneIInv, NEW c \in Clients
  PROVE  /\ From(c, "Post") => /\ Head(toServer[c]) = Post(c)
                               /\ stage[c] = "in" /\ grid[Server] /\ c \notin DOMAIN things[Server]
         /\ From(c, "Update") => /\ Head(toServer[c]) = Update(c, Head(toServer[c]).motion)
                                 /\ Head(toServer[c]).motion \in Motions
                                 /\ stage[c] = "in" /\ grid[Server] /\ c \in DOMAIN things[Server]
<1> DEFINE m == toServer[c][1]
<1>1. SUFFICES ASSUME toServer[c] # <<>>, Head(toServer[c]).type \in {"Post", "Update"}
               PROVE  /\ m.of = c /\ stage[c] = "in" /\ grid[Server]
                      /\ m.type = "Post" => c \notin DOMAIN things[Server] /\ m = Post(c)
                      /\ m.type = "Update" => /\ c \in DOMAIN things[Server]
                                              /\ m = Update(c, m.motion) /\ m.motion \in Motions
  BY QueueTypes DEF From, SceneIInv
<1>2. m = Head(toServer[c]) /\ 1 \in DOMAIN toServer[c] /\ m \in ServerMessages
  BY <1>1, QueueTypes DEF SceneIInv
<1>3. \A type : ~Before(c, 1, type)
  <2>1. toServer[c] \in Seq(ServerMessages)
    BY DEF SceneIInv, Typed, TypeOK
  <2>2. \A j \in DOMAIN toServer[c] : ~(j < 1)
    BY <2>1
  <2> QED BY <2>2 DEF Before
<1>4. ToldInv(c)
  BY DEF SceneIInv, Told
<1>5. m.of = c /\ stage[c] = "in" /\ grid[Server]
  BY <1>1, <1>2, <1>3, <1>4 DEF ToldInv
<1>6. /\ m.type = "Post" => c \notin DOMAIN things[Server]
      /\ m.type = "Update" => c \in DOMAIN things[Server]
  BY <1>2, <1>3, <1>4 DEF ToldInv
<1> QED BY <1>2, <1>5, <1>6, ToServerMessages

(* The server gets a ship that it does not have,                               *)
LEMMA ServePostAdds ==
  ASSUME SceneIInv, NEW c \in Clients, ServePost(c)
  PROVE  Added(Server, c) /\ c \notin DOMAIN things[Server] /\ stage[c] = "in" /\ Head(toServer[c]) = Post(c)
<1>1. Head(toServer[c]) = Post(c) /\ Head(toServer[c]).of = c
  BY FrontIsOwn DEF ServePost, Post
<1>2. Added(Server, c)
  BY <1>1, AddShip, NodesOfPlayers DEF ServePost, SceneIInv, Typed
<1> QED BY <1>1, <1>2, FrontIsOwn DEF ServePost

(* or what the ship of the client is doing now.                                *)
LEMMA ServeUpdateMoves ==
  ASSUME SceneIInv, NEW c \in Clients, ServeUpdate(c)
  PROVE  /\ Moved(Server, c, Head(toServer[c]).motion) /\ c \in DOMAIN things[Server]
         /\ stage[c] = "in" /\ Head(toServer[c]).motion \in Motions
         /\ Head(toServer[c]) = Update(c, Head(toServer[c]).motion)
         /\ Tells(Head(toServer[c]), c)
<1>1. /\ Head(toServer[c]) = Update(c, Head(toServer[c]).motion) /\ Head(toServer[c]).of = c
      /\ c \in DOMAIN things[Server] /\ Head(toServer[c]).motion \in Motions
  BY FrontIsOwn DEF ServeUpdate, Update
<1>2. Moved(Server, c, Head(toServer[c]).motion)
  BY <1>1, MoveShip, NodesOfPlayers DEF ServeUpdate, SceneIInv, Typed
<1>3. Tells(Head(toServer[c]), c)
  BY <1>1 DEF ServeUpdate, From, Tells
<1> QED BY <1>1, <1>2, <1>3, FrontIsOwn DEF ServeUpdate

(* A client is told of the ship of another one.                                *)
LEMMA FrontIsOther ==
  ASSUME SceneIInv, NEW c \in Clients, Gets(c, "Post") \/ Gets(c, "Update")
  PROVE  /\ Head(toClient[c]) = toClient[c][1] /\ 1 \in DOMAIN toClient[c]
         /\ Head(toClient[c]).of \in Clients /\ Head(toClient[c]).of # c
         /\ Head(toClient[c]).of \in DOMAIN things[Server]
         /\ stage[Head(toClient[c]).of] = "in"
         /\ Gets(c, "Update") => /\ Head(toClient[c]).motion \in Motions
                                 /\ Tells(Head(toClient[c]), Head(toClient[c]).of)
<1> DEFINE m == Head(toClient[c])
<1>1. m = toClient[c][1] /\ 1 \in DOMAIN toClient[c] /\ m \in ClientMessages
  BY QueueTypes DEF SceneIInv, Gets
<1>2. m.type \in {"Post", "Update"}
  BY DEF Gets
<1>3. m.of # c /\ m.of \in DOMAIN things[Server]
  BY <1>1, <1>2 DEF SceneIInv, Sent, SentInv
<1>4. m.of \in Clients /\ (m.type = "Update" => m.motion \in Motions)
  BY <1>1, <1>2, ToClientMessages
<1>5. stage[m.of] = "in"
  BY <1>3, <1>4, NodesOfPlayers DEF SceneIInv, PlaceInv
<1> QED BY <1>1, <1>3, <1>4, <1>5 DEF Gets, Tells

(* A client gets a ship that it does not have,                                 *)
LEMMA TakePostAdds ==
  ASSUME SceneIInv, NEW c \in Clients, TakePost(c)
  PROVE  \/ things' = things /\ Head(toClient[c]).of \in DOMAIN things[Process[c]]
         \/ /\ Added(Process[c], Head(toClient[c]).of)
            /\ Head(toClient[c]).of \notin DOMAIN things[Process[c]]
<1>1. Head(toClient[c]).of \in Clients
  BY FrontIsOther DEF TakePost
<1> QED BY <1>1, AddShip, NodesOfPlayers DEF TakePost, SceneIInv, Typed

(* or what one that it has is doing now.                                       *)
LEMMA TakeUpdateMoves ==
  ASSUME SceneIInv, NEW c \in Clients, TakeUpdate(c)
  PROVE  /\ Moved(Process[c], Head(toClient[c]).of, Head(toClient[c]).motion)
         /\ Head(toClient[c]).of \in DOMAIN things[Process[c]]
<1>1. Head(toClient[c]).motion \in Motions
  BY FrontIsOther DEF TakeUpdate
<1> QED BY <1>1, MoveShip, NodesOfPlayers DEF TakeUpdate, SceneIInv, Typed

--------------------------------------------------------------------------------
(* The two containers.                                                         *)
LEMMA IndexedInit == Init => Indexed
  BY DEF Init, Indexed

(* A ship is added to both containers in one step.                             *)
LEMMA IndexedStep == SceneIInv /\ [Next]_vars => Indexed'
<1> SUFFICES ASSUME SceneIInv, [Next]_vars PROVE Indexed'
  OBVIOUS
<1>1. Indexed /\ vec \in [Nodes -> Seq(Clients)] /\ Shaped
  BY DEF SceneIInv, Typed, TypeOK
<1>2. ASSUME NEW n \in Nodes, NEW o \in Clients, Added(n, o) \/ (things' = things /\ o \in DOMAIN things[n]),
             vec' = [vec EXCEPT ![n] = Append(@, o)]
      PROVE  Indexed'
  <2>1. vec[n] \in Seq(Clients) /\ vec'[n] = Append(vec[n], o)
    BY <1>1, <1>2
  <2>2. {vec'[n][i] : i \in DOMAIN vec'[n]} = {vec[n][i] : i \in DOMAIN vec[n]} \cup {o}
    <3>1. /\ DOMAIN vec'[n] = DOMAIN vec[n] \cup {Len(vec[n]) + 1} /\ vec'[n][Len(vec[n]) + 1] = o
          /\ \A i \in DOMAIN vec[n] : vec'[n][i] = vec[n][i]
      BY <2>1
    <3> QED BY <3>1
  <2>3. \A k \in Nodes : k # n => vec'[k] = vec[k]
    BY <1>1, <1>2
  <2>4. \A k \in Nodes : DOMAIN things'[k] = IF k = n THEN DOMAIN things[k] \cup {o} ELSE DOMAIN things[k]
    BY <1>2 DEF Added
  <2>5. {vec'[n][i] : i \in DOMAIN vec'[n]} = DOMAIN things'[n]
    <3>1. {vec[n][i] : i \in DOMAIN vec[n]} = DOMAIN things[n]
      BY <1>1 DEF Indexed
    <3>2. DOMAIN things'[n] = DOMAIN things[n] \cup {o}
      BY <2>4
    <3> QED BY <2>2, <3>1, <3>2
  <2>6. ASSUME NEW k \in Nodes, k # n PROVE {vec'[k][i] : i \in DOMAIN vec'[k]} = DOMAIN things'[k]
    <3>1. vec'[k] = vec[k] /\ DOMAIN things'[k] = DOMAIN things[k]
      BY <2>3, <2>4, <2>6
    <3>2. {vec[k][i] : i \in DOMAIN vec[k]} = DOMAIN things[k]
      BY <1>1 DEF Indexed
    <3> QED BY <3>1, <3>2
  <2> QED BY <2>5, <2>6 DEF Indexed
<1>3. ASSUME vec' = vec, \A k \in Nodes : DOMAIN things'[k] = DOMAIN things[k]
      PROVE  Indexed'
  BY <1>1, <1>3 DEF Indexed
<1>4. ASSUME NEW c \in Clients, Enter(c) PROVE Indexed'
  BY <1>2, <1>4, EnterAdds, NodesOfPlayers DEF Enter
<1>5. ASSUME NEW c \in Clients, ServePost(c) PROVE Indexed'
  <2>1. Head(toServer[c]).of = c /\ Added(Server, c)
    <3>1. Post(c).of = c
      BY DEF Post
    <3> QED BY <1>5, <3>1, ServePostAdds
  <2> QED BY <1>2, <1>5, <2>1, NodesOfPlayers DEF ServePost
<1>6. ASSUME NEW c \in Clients, TakePost(c) PROVE Indexed'
  <2>1. /\ Head(toClient[c]).of \in Clients
        /\ vec' = [vec EXCEPT ![Process[c]] = Append(@, Head(toClient[c]).of)]
    BY <1>6, FrontIsOther DEF TakePost
  <2> QED BY <1>2, <1>6, <2>1, TakePostAdds, NodesOfPlayers
<1>7. ASSUME NEW c \in Clients, Steer(c) \/ ServeUpdate(c) \/ TakeUpdate(c) PROVE Indexed'
  <2>1. vec' = vec
    BY <1>7 DEF Steer, ServeUpdate, TakeUpdate
  <2>2. \A k \in Nodes : DOMAIN things'[k] = DOMAIN things[k]
    BY <1>7, SteerMoves, ServeUpdateMoves, TakeUpdateMoves DEF Moved
  <2> QED BY <1>3, <2>1, <2>2
<1>8. UNCHANGED <<vec, things>> => Indexed'
  BY <1>3
<1> QED BY <1>4, <1>5, <1>6, <1>7, <1>8
        DEF Next, Acts, Serves, Takes, Join, FixedUpdate, Leave, ServeGridRequest, ServeRequest,
            ServePing, TakeGrid, DropPost, AskForShip, AskForGrid, vars

--------------------------------------------------------------------------------
(* What happens to the queues of the clients that do not act, and to that of   *)
(* the one whose message is taken.                                             *)
LEMMA QueuesOfOthers ==
  ASSUME SceneIInv, NEW c \in Clients, Acts(c) \/ Serves(c) \/ Takes(c), NEW d \in Clients, d # c
  PROVE  toServer'[d] = toServer[d] /\ link'[d] = link[d] /\ stage'[d] = stage[d]
<1>1. /\ toServer \in [Clients -> Seq(ServerMessages)] /\ link \in [Clients -> {"off", "on", "down"}]
      /\ stage \in [Clients -> {"away", "asked", "in"}]
  BY DEF SceneIInv, Typed, TypeOK
<1>2. CASE Acts(c)
  BY <1>1, <1>2 DEF Acts, Join, Enter, Steer, FixedUpdate, Leave
<1>3. CASE Serves(c)
  BY <1>1, <1>3
     DEF Serves, ServeGridRequest, ServePost, ServeUpdate, ServeRequest, ServePing
<1>4. CASE Takes(c)
  <2>1. CASE DropPost(c) \/ AskForShip(c) \/ AskForGrid(c)
    BY <1>1, <2>1 DEF DropPost, AskForShip, AskForGrid
  <2>2. CASE TakeGrid(c) \/ TakePost(c) \/ TakeUpdate(c)
    BY <2>2 DEF TakeGrid, TakePost, TakeUpdate
  <2> QED BY <1>4, <2>1, <2>2 DEF Takes
<1> QED BY <1>2, <1>3, <1>4

(* The server takes the message at the front,                                  *)
LEMMA Served ==
  ASSUME SceneIInv, NEW c \in Clients, Serves(c)
  PROVE  /\ toServer[c] # <<>> /\ link' = link /\ stage' = stage
         /\ toServer' = [toServer EXCEPT ![c] = Tail(@)]
         /\ toServer'[c] = Tail(toServer[c])
<1>1. toServer \in [Clients -> Seq(ServerMessages)]
  BY DEF SceneIInv, Typed, TypeOK
<1> QED BY <1>1 DEF Serves, ServeGridRequest, ServePost, ServeUpdate, ServeRequest, ServePing, From

(* and so does a client.                                                       *)
LEMMA Taken ==
  ASSUME SceneIInv, NEW c \in Clients, Takes(c)
  PROVE  /\ toClient[c] # <<>> /\ link' = link /\ stage' = stage /\ link[c] = "on"
         /\ toClient'[c] = Tail(toClient[c])
         /\ \A d \in Clients : d # c => toClient'[d] = toClient[d]
<1>1. toClient \in [Clients -> Seq(ClientMessages)]
  BY DEF SceneIInv, Typed, TypeOK
<1>2. /\ toClient[c] # <<>> /\ link' = link /\ stage' = stage /\ link[c] = "on"
      /\ toClient' = [toClient EXCEPT ![c] = Tail(@)]
  BY DEF Takes, TakeGrid, TakePost, DropPost, TakeUpdate, AskForShip, AskForGrid, Gets
<1> QED BY <1>1, <1>2

(* What the server sends: the grid, ships that it has to others than their     *)
(* owners, and the updates that it takes over itself.                          *)
LEMMA Answered ==
  ASSUME SceneIInv, NEW c \in Clients, Serves(c), NEW d \in Clients, toClient'[d] # toClient[d]
  PROVE  /\ link[d] = "on"
         /\ \E m \in ClientMessages :
              /\ toClient'[d] = Append(toClient[d], m)
              /\ \/ m = GridPost
                 \/ \E o \in Clients : m = Post(o) /\ o # d /\ o \in DOMAIN things'[Server]
                 \/ ServeUpdate(c) /\ d # c /\ m = Head(toServer[c])
<1>1. ASSUME NEW m, toClient' = Answer(c, m) \/ toClient' = Relay(c, m)
      PROVE  /\ link[d] = "on" /\ toClient'[d] = Append(toClient[d], m)
             /\ toClient' = Answer(c, m) => d = c
             /\ toClient' = Relay(c, m) => d # c
  <2>1. toClient \in [Clients -> Seq(ClientMessages)]
    BY DEF SceneIInv, Typed, TypeOK
  <2> QED BY <1>1, <2>1 DEF Answer, Relay
<1>2. CASE ServeGridRequest(c)
  <2>1. toClient' = Answer(c, GridPost)
    BY <1>2 DEF ServeGridRequest
  <2> QED BY <1>1, <2>1, MessageMade
<1>3. CASE ServePost(c)
  <2>1. toClient' = Relay(c, Post(c)) /\ c \in DOMAIN things'[Server]
    <3>1. Added(Server, c) /\ Head(toServer[c]) = Post(c)
      BY <1>3, ServePostAdds
    <3>2. toClient' = Relay(c, Post(c))
      BY <1>3, <3>1 DEF ServePost
    <3>3. c \in DOMAIN things'[Server]
      BY <3>1, NodesOfPlayers DEF Added
    <3> QED BY <3>2, <3>3
  <2>2. link[d] = "on" /\ toClient'[d] = Append(toClient[d], Post(c)) /\ d # c
    BY <1>1, <2>1
  <2> QED BY <2>1, <2>2, MessageMade
<1>4. CASE ServeUpdate(c)
  <2>1. toClient' = Relay(c, Head(toServer[c])) /\ Head(toServer[c]) \in ClientMessages
    BY <1>4, ServeUpdateMoves, MessageMade DEF ServeUpdate
  <2>2. link[d] = "on" /\ toClient'[d] = Append(toClient[d], Head(toServer[c])) /\ d # c
    BY <1>1, <2>1
  <2> QED BY <1>4, <2>1, <2>2
<1>5. CASE ServeRequest(c)
  <2> DEFINE m == Head(toServer[c])
  <2>1. m = toServer[c][1] /\ 1 \in DOMAIN toServer[c] /\ m \in ServerMessages /\ things' = things
    BY <1>5, QueueTypes DEF ServeRequest, From, SceneIInv
  <2>2. CASE toClient' = Answer(c, GridPost)
    BY <1>1, <2>2, MessageMade
  <2>3. CASE /\ m.type = "RequestById" /\ m.of \in DOMAIN things[Server]
             /\ toClient' = Answer(c, Post(m.of))
    <3>1. m.of \in Clients /\ m.of # c
      BY <2>1, <2>3, ToServerMessages DEF SceneIInv, Told, ToldInv
    <3>2. link[d] = "on" /\ toClient'[d] = Append(toClient[d], Post(m.of)) /\ d = c
      BY <1>1, <2>3
    <3> QED BY <2>1, <2>3, <3>1, <3>2, MessageMade
  <2>4. toClient' # toClient
    OBVIOUS
  <2> QED BY <1>5, <2>2, <2>3, <2>4 DEF ServeRequest, From
<1>6. CASE ServePing(c)
  BY <1>6 DEF ServePing
<1> QED BY <1>2, <1>3, <1>4, <1>5, <1>6 DEF Serves

--------------------------------------------------------------------------------
(* The connections.                                                            *)
LEMMA LinkInit == Init => LinkInv
  BY DEF Init, LinkInv

(* A client joins with empty queues, after the games before it.                *)
LEMMA LinkStep == SceneIInv /\ [Next]_vars => LinkInv'
<1> SUFFICES ASSUME SceneIInv, [Next]_vars PROVE LinkInv'
  OBVIOUS
<1>1. /\ toServer \in [Clients -> Seq(ServerMessages)] /\ link \in [Clients -> {"off", "on", "down"}]
      /\ stage \in [Clients -> {"away", "asked", "in"}]
      /\ toClient \in [Clients -> Seq(ClientMessages)]
  BY DEF SceneIInv, Typed, TypeOK
<1>2. LinkInv
  BY DEF SceneIInv
<1>3. ASSUME UNCHANGED link, \A d \in Clients : stage'[d] = "away" <=> stage[d] = "away",
             \A d \in Clients : link[d] = "off" => toServer'[d] = toServer[d],
             \A d \in Clients : link[d] # "on" => toClient'[d] = toClient[d]
      PROVE  LinkInv'
  BY <1>2, <1>3 DEF LinkInv
<1>4. ASSUME NEW c \in Clients, Join(c) PROVE LinkInv'
  <2>1. /\ link' = [link EXCEPT ![c] = "on"] /\ stage' = [stage EXCEPT ![c] = "asked"]
        /\ toClient' = toClient /\ link[c] = "off" /\ \A d \in Earlier(c) : link[d] = "down"
    BY <1>4 DEF Join
  <2>2. \A d \in Clients : d # c => toServer'[d] = toServer[d]
    BY <1>4, QueuesOfOthers DEF Acts
  <2>3. \A d \in Clients : c \in Earlier(d) => link[d] = "off"
    BY <1>2, <2>1 DEF LinkInv
  <2>4. \A d \in Clients : d \in Earlier(c) => d # c
    BY NodesAssumption DEF Earlier
  <2>5. \A d \in Clients : Earlier(d) \subseteq Clients
    BY DEF Earlier
  <2> QED BY <1>1, <1>2, <2>1, <2>2, <2>3, <2>4, <2>5 DEF LinkInv
<1>5. ASSUME NEW c \in Clients, Leave(c) PROVE LinkInv'
  <2>1. /\ link' = [link EXCEPT ![c] = "down"] /\ stage' = stage /\ link[c] = "on"
        /\ toClient' = [toClient EXCEPT ![c] = <<>>]
    BY <1>5 DEF Leave
  <2>2. \A d \in Clients : d # c => toServer'[d] = toServer[d]
    BY <1>5, QueuesOfOthers DEF Acts
  <2>3. \A d \in Clients : Earlier(d) \subseteq Clients
    BY DEF Earlier
  <2> QED BY <1>1, <1>2, <2>1, <2>2, <2>3 DEF LinkInv
<1>6. ASSUME NEW c \in Clients, Enter(c) \/ Steer(c) \/ FixedUpdate(c) PROVE LinkInv'
  <2>1. /\ link' = link /\ link[c] = "on" /\ toClient' = toClient
        /\ \A d \in Clients : stage'[d] = "away" <=> stage[d] = "away"
    BY <1>1, <1>6 DEF Enter, Steer, FixedUpdate
  <2>2. \A d \in Clients : d # c => toServer'[d] = toServer[d]
    BY <1>6, QueuesOfOthers DEF Acts
  <2> QED BY <1>3, <2>1, <2>2
<1>7. ASSUME NEW c \in Clients, Serves(c) PROVE LinkInv'
  <2>1. link' = link /\ stage' = stage /\ link[c] # "off"
    BY <1>2, <1>7, Served DEF LinkInv
  <2>2. \A d \in Clients : d # c => toServer'[d] = toServer[d]
    BY <1>7, QueuesOfOthers
  <2>3. \A d \in Clients : link[d] # "on" => toClient'[d] = toClient[d]
    BY <1>7, Answered
  <2> QED BY <1>3, <2>1, <2>2, <2>3
<1>8. ASSUME NEW c \in Clients, Takes(c) PROVE LinkInv'
  <2>1. \A d \in Clients : d # c => toServer'[d] = toServer[d]
    BY <1>8, QueuesOfOthers
  <2> QED BY <1>3, <1>8, <2>1, Taken
<1>9. CASE UNCHANGED vars
  BY <1>3, <1>9 DEF vars
<1> QED BY <1>4, <1>5, <1>6, <1>7, <1>8, <1>9 DEF Next, Acts

--------------------------------------------------------------------------------
(* The places of the ships.                                                    *)
LEMMA PlaceInit == Init => PlaceInv
  BY DEF Init, PlaceInv

(* Every ship is put to its owner first, then to the server.                   *)
LEMMA PlaceStep == SceneIInv /\ [Next]_vars => PlaceInv'
<1> SUFFICES ASSUME SceneIInv, [Next]_vars PROVE PlaceInv'
  OBVIOUS
<1>1. PlaceInv /\ stage \in [Clients -> {"away", "asked", "in"}]
  BY DEF SceneIInv, Typed, TypeOK
<1>2. ASSUME \A o \in Clients : stage'[o] = "in" <=> stage[o] = "in",
             \A k \in Nodes : DOMAIN things'[k] = DOMAIN things[k]
      PROVE  PlaceInv'
  BY <1>1, <1>2, NodesOfPlayers DEF PlaceInv
<1>3. ASSUME NEW n \in Nodes, NEW o \in Clients, Added(n, o),
             \A x \in Clients : x # o => stage'[x] = stage[x],
             stage'[o] = "in", n = Process[o] \/ stage[o] = "in",
             n = Server \/ n = Process[o] \/ o \in DOMAIN things[Server]
      PROVE  PlaceInv'
  <2>1. \A k \in Nodes : DOMAIN things'[k] = IF k = n THEN DOMAIN things[k] \cup {o} ELSE DOMAIN things[k]
    BY <1>3 DEF Added
  <2>2. Process[o] # Server
    BY NodesOfPlayers
  <2>3. Server \in Nodes /\ \A x \in Clients : Process[x] \in Nodes
    BY NodesOfPlayers
  <2>4. ASSUME NEW x \in Clients, x # o
        PROVE  /\ stage'[x] = "in" => x \in DOMAIN things'[Process[x]]
               /\ \A k \in Nodes : x \in DOMAIN things'[k] =>
                    stage'[x] = "in" /\ (k = Process[x] \/ x \in DOMAIN things'[Server])
    <3>1. stage'[x] = stage[x] /\ \A k \in Nodes : x \in DOMAIN things'[k] <=> x \in DOMAIN things[k]
      BY <1>3, <2>1, <2>4
    <3> QED BY <1>1, <2>3, <3>1 DEF PlaceInv
  <2>5. o \in DOMAIN things'[Process[o]]
    BY <1>1, <1>3, <2>1, <2>3 DEF PlaceInv
  <2>6. ASSUME NEW k \in Nodes, o \in DOMAIN things'[k]
        PROVE  k = Process[o] \/ o \in DOMAIN things'[Server]
    BY <1>1, <1>3, <2>1, <2>2, <2>3, <2>6 DEF PlaceInv
  <2> QED BY <1>3, <2>4, <2>5, <2>6 DEF PlaceInv
<1>4. ASSUME NEW c \in Clients, Enter(c) PROVE PlaceInv'
  <2>1. stage' = [stage EXCEPT ![c] = "in"]
    BY <1>4 DEF Enter
  <2> QED BY <1>1, <1>3, <1>4, <2>1, EnterAdds, NodesOfPlayers
<1>5. ASSUME NEW c \in Clients, ServePost(c) PROVE PlaceInv'
  <2>1. stage' = stage
    BY <1>5 DEF ServePost
  <2> QED BY <1>3, <1>5, <2>1, ServePostAdds, NodesOfPlayers
<1>6. ASSUME NEW c \in Clients, TakePost(c) PROVE PlaceInv'
  <2> DEFINE o == Head(toClient[c]).of
  <2>1. stage' = stage /\ o \in Clients /\ o \in DOMAIN things[Server] /\ stage[o] = "in"
    BY <1>6, FrontIsOther DEF TakePost
  <2>2. CASE things' = things
    BY <1>2, <2>1, <2>2
  <2>3. CASE Added(Process[c], o)
    BY <1>3, <2>1, <2>3, NodesOfPlayers
  <2> QED BY <1>6, <2>2, <2>3, TakePostAdds
<1>7. ASSUME NEW c \in Clients, Steer(c) \/ ServeUpdate(c) \/ TakeUpdate(c) PROVE PlaceInv'
  <2>1. stage' = stage
    BY <1>7 DEF Steer, ServeUpdate, TakeUpdate
  <2>2. \A k \in Nodes : DOMAIN things'[k] = DOMAIN things[k]
    BY <1>7, SteerMoves, ServeUpdateMoves, TakeUpdateMoves DEF Moved
  <2> QED BY <1>2, <2>1, <2>2
<1>8. ASSUME NEW c \in Clients, Join(c) PROVE PlaceInv'
  <2>1. things' = things /\ stage' = [stage EXCEPT ![c] = "asked"] /\ stage[c] = "away"
    BY <1>8 DEF Join, SceneIInv, LinkInv
  <2> QED BY <1>1, <1>2, <2>1
<1>9. UNCHANGED <<stage, things>> => PlaceInv'
  BY <1>2
<1> QED BY <1>4, <1>5, <1>6, <1>7, <1>8, <1>9
        DEF Next, Acts, Serves, Takes, FixedUpdate, Leave, ServeGridRequest, ServeRequest,
            ServePing, TakeGrid, DropPost, AskForShip, AskForGrid, vars

--------------------------------------------------------------------------------
(* What the clients tell the server.                                           *)
LEMMA ToldInit == Init => Told
<1> SUFFICES ASSUME Init, NEW c \in Clients PROVE ToldInv(c)
  BY DEF Told
<1>1. link[c] = "off" /\ toServer[c] = <<>>
  BY DEF Init
<1> QED BY <1>1 DEF ToldInv

(* The server never forgets, and learns of a ship by its post only.            *)
LEMMA ServerLearns ==
  ASSUME SceneIInv, NEW c \in Clients, Acts(c) \/ Serves(c) \/ Takes(c)
  PROVE  /\ grid[Server] => grid'[Server]
         /\ \A o \in Clients : o # c \/ ~ServePost(c) =>
              (o \in DOMAIN things'[Server] <=> o \in DOMAIN things[Server])
<1>1. Server \in Nodes /\ Process[c] \in Nodes /\ Process[c] # Server /\ grid \in [Nodes -> BOOLEAN]
  BY NodesOfPlayers DEF SceneIInv, Typed, TypeOK
<1>2. grid[Server] => grid'[Server]
  <2>1. CASE ServeGridRequest(c) \/ TakeGrid(c)
    BY <1>1, <2>1 DEF ServeGridRequest, TakeGrid
  <2>2. CASE grid' = grid
    BY <2>2
  <2> QED BY <2>1, <2>2
          DEF Acts, Serves, Takes, Join, Enter, Steer, FixedUpdate, Leave, ServePost, ServeUpdate,
              ServeRequest, ServePing, TakePost, DropPost, TakeUpdate, AskForShip, AskForGrid
<1>3. CASE Enter(c)
  BY <1>1, <1>2, <1>3, EnterAdds DEF Added
<1>4. CASE TakePost(c)
  <2>1. CASE things' = things
    BY <1>2, <2>1
  <2>2. CASE Added(Process[c], Head(toClient[c]).of)
    BY <1>1, <1>2, <2>2 DEF Added
  <2> QED BY <1>4, <2>1, <2>2, TakePostAdds
<1>5. CASE ServePost(c)
  BY <1>1, <1>2, <1>5, ServePostAdds DEF Added
<1>6. CASE Steer(c) \/ ServeUpdate(c) \/ TakeUpdate(c)
  BY <1>1, <1>2, <1>6, SteerMoves, ServeUpdateMoves, TakeUpdateMoves DEF Moved
<1>7. CASE things' = things
  BY <1>2, <1>7
<1> QED BY <1>3, <1>4, <1>5, <1>6, <1>7
        DEF Acts, Serves, Takes, Join, FixedUpdate, Leave, ServeGridRequest, ServeRequest,
            ServePing, TakeGrid, DropPost, AskForShip, AskForGrid

(* A client that tells nothing and is not heard,                               *)
LEMMA ToldKept ==
  ASSUME NEW c \in Clients, ToldInv(c), toServer'[c] = toServer[c], link'[c] = link[c],
         stage'[c] = stage[c],
         grid[Server] => grid'[Server], c \in DOMAIN things'[Server] <=> c \in DOMAIN things[Server]
  PROVE  ToldInv(c)'
  BY DEF ToldInv, Waits, Before

(* one that tells something,                                                   *)
LEMMA ToldMore ==
  ASSUME SceneIInv, NEW c \in Clients, NEW m \in ServerMessages, link[c] = "on",
         toServer'[c] = Append(toServer[c], m),
         grid[Server] => grid'[Server], c \in DOMAIN things'[Server] <=> c \in DOMAIN things[Server],
         stage'[c] = IF m.type = "Post" THEN "in" ELSE stage[c],
         m.type = "Post" => m.of = c /\ stage[c] # "in",
         m.type = "Update" => m.of = c /\ stage[c] = "in",
         m.type = "RequestById" => m.of # c
  PROVE  ToldInv(c)'
<1>1. ToldInv(c)
  BY DEF SceneIInv, Told
<1>2. toServer[c] \in Seq(ServerMessages)
  BY DEF SceneIInv, Typed, TypeOK
<1>3. PICK n \in Nat : n = Len(toServer[c]) + 1
  BY <1>2
<1>4. /\ DOMAIN toServer'[c] = DOMAIN toServer[c] \cup {n} /\ toServer'[c][n] = m
      /\ \A i \in DOMAIN toServer[c] : toServer'[c][i] = toServer[c][i] /\ i < n /\ i \in Nat
  <2> HIDE DEF ServerMessages
  <2> QED BY <1>2, <1>3, BackOfQueue
<1>5. \A i \in DOMAIN toServer[c] : ~(n < i)
  BY <1>3, <1>4
<1>6. \A type : Before(c, n, type)' <=> Waits(c, type)
  BY <1>3, <1>4 DEF Before, Waits
<1>7. \A type : \A i \in DOMAIN toServer[c] : Before(c, i, type)' <=> Before(c, i, type)
  BY <1>4, <1>5 DEF Before
<1>8. \A type : Waits(c, type)' <=> Waits(c, type) \/ m.type = type
  BY <1>4 DEF Waits
<1>9. stage[c] # "in" => c \notin DOMAIN things[Server] /\ ~Waits(c, "Post")
  BY <1>1, NodesOfPlayers DEF SceneIInv, PlaceInv, ToldInv, Waits
<1>10. /\ grid[Server] \/ Waits(c, "GridRequest")
       /\ stage[c] = "in" => c \in DOMAIN things[Server] \/ Waits(c, "Post")
  BY <1>1 DEF ToldInv
<1>11. ASSUME NEW i \in DOMAIN toServer[c]
       PROVE  /\ toServer'[c][i].type \in {"Post", "Update"} =>
                   /\ toServer'[c][i].of = c /\ stage'[c] = "in"
                   /\ grid'[Server] \/ Before(c, i, "GridRequest")'
              /\ toServer'[c][i].type = "RequestById" => toServer'[c][i].of # c
              /\ toServer'[c][i].type = "Post" => c \notin DOMAIN things'[Server] /\ ~Before(c, i, "Post")'
              /\ toServer'[c][i].type = "Update" => c \in DOMAIN things'[Server] \/ Before(c, i, "Post")'
  BY <1>1, <1>4, <1>7 DEF ToldInv
<1>12. /\ m.type \in {"Post", "Update"} => grid'[Server] \/ Before(c, n, "GridRequest")'
       /\ m.type = "Post" => c \notin DOMAIN things'[Server] /\ ~Before(c, n, "Post")'
       /\ m.type = "Update" => c \in DOMAIN things'[Server] \/ Before(c, n, "Post")'
  BY <1>6, <1>9, <1>10
<1>13. /\ link'[c] = "on" => grid'[Server] \/ Waits(c, "GridRequest")'
       /\ link'[c] = "on" /\ stage'[c] = "in" => c \in DOMAIN things'[Server] \/ Waits(c, "Post")'
  BY <1>8, <1>10
<1> QED BY <1>4, <1>11, <1>12, <1>13 DEF ToldInv

(* one that is heard,                                                          *)
LEMMA ToldLess ==
  ASSUME SceneIInv, NEW c \in Clients, toServer[c] # <<>>, toServer'[c] = Tail(toServer[c]),
         link'[c] = link[c], stage'[c] = stage[c], grid[Server] => grid'[Server],
         Head(toServer[c]).type = "GridRequest" => grid'[Server],
         Head(toServer[c]).type = "Post" => c \in DOMAIN things'[Server],
         Head(toServer[c]).type # "Post" => (c \in DOMAIN things'[Server] <=> c \in DOMAIN things[Server])
  PROVE  ToldInv(c)'
<1>1. ToldInv(c)
  BY DEF SceneIInv, Told
<1>2. toServer[c] \in Seq(ServerMessages)
  BY DEF SceneIInv, Typed, TypeOK
<1>3. /\ Head(toServer[c]) = toServer[c][1] /\ 1 \in DOMAIN toServer[c]
      /\ \A i \in DOMAIN toServer'[c] : i + 1 \in DOMAIN toServer[c] /\ toServer'[c][i] = toServer[c][i + 1]
      /\ \A i \in DOMAIN toServer[c] : i # 1 => /\ i - 1 \in DOMAIN toServer'[c]
                                               /\ toServer'[c][i - 1] = toServer[c][i]
  <2> HIDE DEF ServerMessages
  <2> QED BY <1>2, FrontOfQueue
<1>4. /\ \A i \in DOMAIN toServer[c] : i \in Nat /\ i >= 1
      /\ \A i \in DOMAIN toServer'[c] : i \in Nat /\ i >= 1
  <2>1. toServer'[c] \in Seq(ServerMessages)
    <3> HIDE DEF ServerMessages
    <3> QED BY <1>2, FrontOfQueue
  <2> QED BY <1>2, <2>1
<1>5. ASSUME NEW type, Head(toServer[c]).type # type
      PROVE  /\ \A i \in DOMAIN toServer'[c] : Before(c, i, type)' <=> Before(c, i + 1, type)
             /\ Waits(c, type)' <=> Waits(c, type)
  <2>1. ASSUME NEW i \in DOMAIN toServer'[c], Before(c, i, type)' PROVE Before(c, i + 1, type)
    <3>1. PICK j \in DOMAIN toServer'[c] : j < i /\ toServer'[c][j].type = type
      BY <2>1 DEF Before
    <3>2. j + 1 \in DOMAIN toServer[c] /\ j + 1 < i + 1 /\ toServer[c][j + 1].type = type
      BY <1>3, <1>4, <3>1
    <3> QED BY <3>2 DEF Before
  <2>2. ASSUME NEW i \in DOMAIN toServer'[c], Before(c, i + 1, type) PROVE Before(c, i, type)'
    <3>1. PICK j \in DOMAIN toServer[c] : j < i + 1 /\ toServer[c][j].type = type
      BY <2>2 DEF Before
    <3>2. j # 1
      BY <1>3, <1>5, <3>1
    <3>3. j - 1 \in DOMAIN toServer'[c] /\ j - 1 < i /\ toServer'[c][j - 1].type = type
      BY <1>3, <1>4, <3>1, <3>2
    <3> QED BY <3>3 DEF Before
  <2>3. Waits(c, type)' <=> Waits(c, type)
    BY <1>3, <1>5 DEF Waits
  <2> QED BY <2>1, <2>2, <2>3
<1>6. Head(toServer[c]).type = "Post" => \A i \in DOMAIN toServer'[c] : toServer'[c][i].type # "Post"
  <2> SUFFICES ASSUME Head(toServer[c]).type = "Post", NEW i \in DOMAIN toServer'[c]
               PROVE  toServer'[c][i].type # "Post"
    OBVIOUS
  <2>1. i + 1 \in DOMAIN toServer[c] /\ 1 < i + 1 /\ toServer'[c][i] = toServer[c][i + 1]
    BY <1>3, <1>4
  <2>2. Before(c, i + 1, "Post")
    BY <1>3, <2>1 DEF Before
  <2> QED BY <1>1, <2>1, <2>2 DEF ToldInv
<1>7. ASSUME NEW i \in DOMAIN toServer'[c]
      PROVE  /\ toServer'[c][i].type \in {"Post", "Update"} =>
                   /\ toServer'[c][i].of = c /\ stage'[c] = "in"
                   /\ grid'[Server] \/ Before(c, i, "GridRequest")'
             /\ toServer'[c][i].type = "RequestById" => toServer'[c][i].of # c
             /\ toServer'[c][i].type = "Post" => c \notin DOMAIN things'[Server] /\ ~Before(c, i, "Post")'
             /\ toServer'[c][i].type = "Update" => c \in DOMAIN things'[Server] \/ Before(c, i, "Post")'
  <2>1. i + 1 \in DOMAIN toServer[c] /\ toServer'[c][i] = toServer[c][i + 1]
    BY <1>3
  <2>2. /\ toServer[c][i + 1].type \in {"Post", "Update"} =>
               /\ toServer[c][i + 1].of = c /\ stage[c] = "in"
               /\ grid[Server] \/ Before(c, i + 1, "GridRequest")
        /\ toServer[c][i + 1].type = "RequestById" => toServer[c][i + 1].of # c
        /\ toServer[c][i + 1].type = "Post" => c \notin DOMAIN things[Server] /\ ~Before(c, i + 1, "Post")
        /\ toServer[c][i + 1].type = "Update" => c \in DOMAIN things[Server] \/ Before(c, i + 1, "Post")
    BY <1>1, <2>1 DEF ToldInv
  <2>3. Head(toServer[c]).type # "GridRequest" =>
          (Before(c, i, "GridRequest")' <=> Before(c, i + 1, "GridRequest"))
    BY <1>5
  <2>4. Head(toServer[c]).type # "Post" => (Before(c, i, "Post")' <=> Before(c, i + 1, "Post"))
    BY <1>5
  <2> QED BY <1>6, <2>1, <2>2, <2>3, <2>4
<1>8. /\ link'[c] = "on" => grid'[Server] \/ Waits(c, "GridRequest")'
      /\ link'[c] = "on" /\ stage'[c] = "in" => c \in DOMAIN things'[Server] \/ Waits(c, "Post")'
  BY <1>1, <1>5 DEF ToldInv
<1> QED BY <1>7, <1>8 DEF ToldInv

(* and one that is gone, with the last of what it told.                        *)
LEMMA ToldLost ==
  ASSUME SceneIInv, NEW c \in Clients, NEW k \in 0..Len(toServer[c]),
         toServer'[c] = SubSeq(toServer[c], 1, k), link'[c] = "down", stage'[c] = stage[c],
         grid' = grid, things' = things
  PROVE  ToldInv(c)'
<1>1. ToldInv(c) /\ toServer[c] \in Seq(ServerMessages)
  BY DEF SceneIInv, Told, Typed, TypeOK
<1>2. /\ \A i \in DOMAIN toServer'[c] : i \in DOMAIN toServer[c] /\ toServer'[c][i] = toServer[c][i]
      /\ \A i \in DOMAIN toServer'[c] : \A j \in DOMAIN toServer[c] : j < i => j \in DOMAIN toServer'[c]
  <2> HIDE DEF ServerMessages
  <2> QED BY <1>1
<1>3. \A type : \A i \in DOMAIN toServer'[c] : Before(c, i, type)' <=> Before(c, i, type)
  BY <1>2 DEF Before
<1> QED BY <1>1, <1>2, <1>3 DEF ToldInv

(* The server hears of a ship when a message is taken from the queue.          *)
LEMMA NothingHeard ==
  ASSUME SceneIInv, NEW c \in Clients, toServer[c] \in Seq(ServerMessages), NEW m \in ServerMessages,
         toServer'[c] = toServer[c] \/ toServer'[c] = Append(toServer[c], m)
  PROVE  ~ServePost(c)
<1> HIDE DEF ServerMessages
<1> SUFFICES ASSUME ServePost(c) PROVE FALSE
  OBVIOUS
<1>1. toServer[c] # <<>> /\ toServer'[c] = Tail(toServer[c])
  BY Served DEF Serves
<1>2. Len(Tail(toServer[c])) = Len(toServer[c]) - 1 /\ Len(Append(toServer[c], m)) = Len(toServer[c]) + 1
  BY <1>1
<1>3. Len(toServer[c]) \in Nat
  OBVIOUS
<1>4. Len(toServer'[c]) = Len(toServer[c]) - 1
  BY <1>1, <1>2
<1>5. Len(toServer'[c]) = Len(toServer[c]) \/ Len(toServer'[c]) = Len(toServer[c]) + 1
  BY <1>2
<1> QED BY <1>3, <1>4, <1>5

(* Either way what is said above of the queue to the server is kept.           *)
LEMMA ToldStep == SceneIInv /\ [Next]_vars => Told'
<1> SUFFICES ASSUME SceneIInv, [Next]_vars, NEW d \in Clients PROVE ToldInv(d)'
  BY DEF Told
<1>1. ToldInv(d) /\ TypeOK
  BY DEF SceneIInv, Told, Typed
<1>2. CASE UNCHANGED vars
  BY <1>1, <1>2, ToldKept DEF vars
<1> SUFFICES ASSUME NEW c \in Clients, Acts(c) \/ Serves(c) \/ Takes(c) PROVE ToldInv(d)'
  BY <1>2 DEF Next
<1>3. CASE d # c
  <2>1. toServer'[d] = toServer[d] /\ link'[d] = link[d] /\ stage'[d] = stage[d]
    BY <1>3, QueuesOfOthers
  <2>2. /\ grid[Server] => grid'[Server]
        /\ d \in DOMAIN things'[Server] <=> d \in DOMAIN things[Server]
    BY <1>3, ServerLearns
  <2> QED BY <1>1, <2>1, <2>2, ToldKept
<1> SUFFICES ASSUME d = c PROVE ToldInv(c)'
  BY <1>3
<1> HIDE DEF ServerMessages, ClientMessages
<1>4. ToldInv(c)
  BY <1>1
<1>5. /\ grid[Server] => grid'[Server]
      /\ ~ServePost(c) => (c \in DOMAIN things'[Server] <=> c \in DOMAIN things[Server])
  BY ServerLearns
<1>6. /\ toServer \in [Clients -> Seq(ServerMessages)] /\ link \in [Clients -> {"off", "on", "down"}]
      /\ stage \in [Clients -> {"away", "asked", "in"}]
  BY <1>1 DEF TypeOK
<1>7. CASE Join(c)
  <2>1. /\ toServer[c] = <<>> /\ toServer'[c] = Append(toServer[c], GridRequest)
        /\ stage'[c] = "asked"
    BY <1>6, <1>7 DEF Join, SceneIInv, LinkInv
  <2>2. toServer'[c] = <<GridRequest>>
    BY <2>1
  <2>3. DOMAIN toServer'[c] = {1} /\ toServer'[c][1].type = "GridRequest"
    BY <2>2 DEF GridRequest
  <2>4. Waits(c, "GridRequest")'
    BY <2>3 DEF Waits
  <2> QED BY <2>1, <2>3, <2>4 DEF ToldInv
<1>8. CASE Enter(c)
  <2>1. /\ link[c] = "on" /\ stage[c] = "asked" /\ stage'[c] = "in"
        /\ toServer'[c] = Append(toServer[c], Post(c))
    BY <1>6, <1>8 DEF Enter
  <2>2. Post(c).type = "Post" /\ Post(c).of = c
    BY DEF Post
  <2> QED BY <1>5, <1>6, <2>1, <2>2, MessageMade, ToldMore, NothingHeard
<1>9. CASE Steer(c) \/ TakeGrid(c) \/ TakePost(c) \/ TakeUpdate(c) \/ (AskForGrid(c) /\ UNCHANGED toServer)
  <2>1. toServer' = toServer /\ link' = link /\ stage' = stage
    BY <1>9 DEF Steer, TakeGrid, TakePost, TakeUpdate, AskForGrid
  <2> QED BY <1>4, <1>5, <1>6, <2>1, ToldKept, NothingHeard, MessageMade
<1>10. ASSUME NEW m \in ServerMessages, toServer' = [toServer EXCEPT ![c] = Append(@, m)],
              link[c] = "on", stage' = stage, m.type # "Post",
              m.type = "Update" => m.of = c /\ stage[c] = "in",
              m.type = "RequestById" => m.of # c
       PROVE  ToldInv(c)'
  <2>1. toServer'[c] = Append(toServer[c], m)
    BY <1>6, <1>10
  <2> QED BY <1>5, <1>6, <1>10, <2>1, ToldMore, NothingHeard
<1>11. CASE FixedUpdate(c)
  <2>1. Own(c) \in Motions
    BY <1>11, NodesOfPlayers DEF FixedUpdate, SceneIInv, PlaceInv, Typed, TypeOK, Own
  <2>2. Update(c, Own(c)) \in ServerMessages /\ Update(c, Own(c)).type = "Update" /\ Update(c, Own(c)).of = c
    <3>1. Update(c, Own(c)).type = "Update" /\ Update(c, Own(c)).of = c
      BY DEF Update
    <3> QED BY <2>1, <3>1, MessageMade
  <2> QED BY <1>10, <1>11, <2>2 DEF FixedUpdate, Own
<1>12. CASE DropPost(c)
  <2>1. Untyped.type = "Ping"
    BY DEF Untyped
  <2> QED BY <1>10, <1>12, <2>1, MessageMade DEF DropPost, Gets
<1>13. CASE AskForShip(c)
  <2>1. PICK o \in Clients : o = Head(toClient[c]).of /\ o # c
    BY <1>13, FrontIsOther DEF AskForShip
  <2>2. RequestById(o).type = "RequestById" /\ RequestById(o).of = o
    BY DEF RequestById
  <2> QED BY <1>10, <1>13, <2>1, <2>2, MessageMade DEF AskForShip, Gets
<1>14. CASE AskForGrid(c) /\ ~UNCHANGED toServer
  <2>1. GridById.type = "GridById"
    BY DEF GridById
  <2> QED BY <1>10, <1>14, <2>1, MessageMade DEF AskForGrid, Gets
<1>15. CASE Leave(c)
  <2>1. PICK k \in 0..Len(toServer[c]) : toServer' = [toServer EXCEPT ![c] = SubSeq(@, 1, k)]
    BY <1>15 DEF Leave
  <2>2. link'[c] = "down" /\ stage' = stage /\ grid' = grid /\ things' = things
        /\ toServer'[c] = SubSeq(toServer[c], 1, k)
    BY <1>6, <1>15, <2>1 DEF Leave
  <2> QED BY <2>2, ToldLost
<1>16. CASE Serves(c)
  <2>1. /\ toServer[c] # <<>> /\ toServer'[c] = Tail(toServer[c]) /\ link' = link /\ stage' = stage
    BY <1>16, Served
  <2>2. Head(toServer[c]).type = "GridRequest" => grid'[Server]
    <3>1. Head(toServer[c]).type = "GridRequest" => ServeGridRequest(c)
      BY <1>16 DEF Serves, ServePost, ServeUpdate, ServeRequest, ServePing, From
    <3>2. grid \in [Nodes -> BOOLEAN]
      BY <1>1 DEF TypeOK
    <3> QED BY <3>1, <3>2, NodesOfPlayers DEF ServeGridRequest
  <2>3. Head(toServer[c]).type = "Post" => c \in DOMAIN things'[Server]
    <3>1. Head(toServer[c]).type = "Post" => ServePost(c)
      BY <1>16 DEF Serves, ServeGridRequest, ServeUpdate, ServeRequest, ServePing, From
    <3> QED BY <3>1, ServePostAdds, NodesOfPlayers DEF Added
  <2>4. Head(toServer[c]).type # "Post" => (c \in DOMAIN things'[Server] <=> c \in DOMAIN things[Server])
    BY <1>5 DEF ServePost, From
  <2> QED BY <1>5, <2>1, <2>2, <2>3, <2>4, ToldLess
<1> QED BY <1>7, <1>8, <1>9, <1>11, <1>12, <1>13, <1>14, <1>15, <1>16 DEF Acts, Takes

--------------------------------------------------------------------------------
(* What a node has of a ship is changed by its owner, or by an update.         *)
LEMMA CopyChanges ==
  ASSUME SceneIInv, NEW c \in Clients, Acts(c) \/ Serves(c) \/ Takes(c), NEW n \in Nodes
  PROVE  /\ DOMAIN things[n] \subseteq DOMAIN things'[n]
         /\ \A o \in DOMAIN things'[n] :
              \/ o \in DOMAIN things[n] /\ things'[n][o] = things[n][o]
              \/ o \notin DOMAIN things[n] /\ things'[n][o] = Still
              \/ /\ Steer(c) /\ o = c /\ n = Process[c] /\ o \in DOMAIN things[n]
                 /\ things'[n][o].n = things[n][o].n + 1
              \/ /\ ServeUpdate(c) /\ o = c /\ n = Server /\ o \in DOMAIN things[n]
                 /\ things'[n][o] = Head(toServer[c]).motion
              \/ /\ TakeUpdate(c) /\ o = Head(toClient[c]).of /\ n = Process[c] /\ o \in DOMAIN things[n]
                 /\ things'[n][o] = Head(toClient[c]).motion
<1>1. ASSUME NEW k \in Nodes, NEW o, Added(k, o), o \notin DOMAIN things[k]
      PROVE  /\ DOMAIN things[n] \subseteq DOMAIN things'[n]
             /\ \A x \in DOMAIN things'[n] :
                  \/ x \in DOMAIN things[n] /\ things'[n][x] = things[n][x]
                  \/ x \notin DOMAIN things[n] /\ things'[n][x] = Still
  BY <1>1 DEF Added
<1>2. CASE Enter(c)
  BY <1>1, <1>2, EnterAdds, NodesOfPlayers
<1>3. CASE ServePost(c)
  BY <1>1, <1>3, ServePostAdds, NodesOfPlayers
<1>4. CASE TakePost(c)
  BY <1>1, <1>4, TakePostAdds, NodesOfPlayers
<1>5. CASE Steer(c)
  BY <1>5, SteerMoves DEF Moved, Own
<1>6. CASE ServeUpdate(c)
  BY <1>6, ServeUpdateMoves DEF Moved
<1>7. CASE TakeUpdate(c)
  BY <1>7, TakeUpdateMoves DEF Moved
<1>8. CASE things' = things
  BY <1>8
<1> QED BY <1>2, <1>3, <1>4, <1>5, <1>6, <1>7, <1>8
        DEF Acts, Serves, Takes, Join, FixedUpdate, Leave, ServeGridRequest, ServeRequest,
            ServePing, TakeGrid, DropPost, AskForShip, AskForGrid

(* One game of a process is played at a time.                                  *)
LEMMA Alone ==
  ASSUME SceneIInv, NEW c \in Clients, NEW d \in Clients, c # d, Process[c] = Process[d], link[c] = "on"
  PROVE  link[d] # "on"
<1>1. c \in Nat /\ d \in Nat
  BY NodesAssumption
<1>2. c \in Earlier(d) \/ d \in Earlier(c)
  BY <1>1 DEF Earlier
<1> QED BY <1>2 DEF SceneIInv, LinkInv

(* What a node has of a ship is a motion, and that of the owner too.           *)
LEMMA CopyTypes ==
  ASSUME SceneIInv, NEW n \in Nodes, NEW o \in DOMAIN things[n]
  PROVE  /\ o \in Clients /\ things[n][o] \in Motions /\ things[n][o].n \in Nat
         /\ stage[o] = "in" /\ o \in DOMAIN things[Process[o]]
         /\ n = Process[o] \/ o \in DOMAIN things[Server]
         /\ Own(o) \in Motions /\ Own(o).n \in Nat
<1>1. /\ o \in Clients /\ things[n][o] \in Motions
  BY DEF SceneIInv, Typed, TypeOK
<1>2. /\ stage[o] = "in" /\ o \in DOMAIN things[Process[o]] /\ Process[o] \in Nodes
      /\ n = Process[o] \/ o \in DOMAIN things[Server]
  BY <1>1, NodesOfPlayers DEF SceneIInv, PlaceInv
<1>3. Own(o) \in Motions
  BY <1>2 DEF SceneIInv, Typed, TypeOK, Own
<1> QED BY <1>1, <1>2, <1>3 DEF Motions

(* While its owner is there, a ship is changed by him only.                    *)
LEMMA OwnKept ==
  ASSUME SceneIInv, NEW c \in Clients, Acts(c) \/ Serves(c) \/ Takes(c),
         NEW o \in Clients, stage[o] = "in", link'[o] = "on"
  PROVE  /\ link[o] = "on" /\ o \in DOMAIN things[Process[o]] /\ Own(o).n \in Nat
         /\ Own(o)' = Own(o) \/ Own(o)'.n = Own(o).n + 1
<1>1. Process[o] \in Nodes /\ Process[c] \in Nodes /\ Server # Process[o]
  BY NodesOfPlayers
<1>2. o \in DOMAIN things[Process[o]]
  BY DEF SceneIInv, PlaceInv
<1>3. link[o] = "on"
  <2>1. CASE Acts(c) /\ o = c
    <3>1. link \in [Clients -> {"off", "on", "down"}] /\ link[o] # "off"
      BY DEF SceneIInv, Typed, TypeOK, LinkInv
    <3> QED BY <2>1, <3>1 DEF Acts, Join, Enter, Steer, FixedUpdate, Leave
  <2>2. CASE o # c
    BY <2>2, QueuesOfOthers
  <2>3. CASE Serves(c) \/ Takes(c)
    BY <2>3, Served, Taken
  <2> QED BY <2>1, <2>2, <2>3
<1>4. Own(o)' = things'[Process[o]][o] /\ Own(o) = things[Process[o]][o]
  BY DEF Own
<1>5. ~(TakeUpdate(c) /\ o = Head(toClient[c]).of /\ Process[o] = Process[c])
  <2> SUFFICES ASSUME TakeUpdate(c), o = Head(toClient[c]).of, Process[o] = Process[c] PROVE FALSE
    OBVIOUS
  <2>1. o # c /\ link[c] = "on"
    BY FrontIsOther DEF TakeUpdate, Gets
  <2> QED BY <1>3, <2>1, Alone
<1>6. o \in DOMAIN things'[Process[o]]
  BY <1>1, <1>2, CopyChanges
<1>7. Own(o)' = Own(o) \/ Own(o)'.n = Own(o).n + 1
  BY <1>1, <1>2, <1>4, <1>5, <1>6, CopyChanges
<1> QED BY <1>1, <1>2, <1>3, <1>7, CopyTypes

(* So what was behind the owner stays behind him.                              *)
LEMMA BehindKept ==
  ASSUME SceneIInv, NEW c \in Clients, Acts(c) \/ Serves(c) \/ Takes(c),
         NEW o \in Clients, stage[o] = "in", link'[o] = "on", NEW m \in Motions, Behind(o, m)
  PROVE  Behind(o, m)'
<1>1. m.n \in Nat
  BY DEF Motions
<1>2. PICK a \in Nat : a = Own(o).n
  BY OwnKept
<1>3. Own(o)' = Own(o) \/ Own(o)'.n = a + 1
  BY <1>2, OwnKept
<1> QED BY <1>1, <1>2, <1>3 DEF Behind

(* The server keeps what it has.                                               *)
LEMMA ServerKeeps ==
  ASSUME SceneIInv, NEW c \in Clients, Acts(c) \/ Serves(c) \/ Takes(c), NEW o \in DOMAIN things[Server]
  PROVE  o \in DOMAIN things'[Server]
  BY CopyChanges, NodesOfPlayers

--------------------------------------------------------------------------------
(* What happens to the queue of messages to a client.                          *)
LEMMA QueueToClient ==
  ASSUME SceneIInv, NEW c \in Clients, Acts(c) \/ Serves(c) \/ Takes(c), NEW d \in Clients
  PROVE  \/ toClient'[d] = toClient[d]
         \/ toClient'[d] = <<>>
         \/ Takes(c) /\ d = c
         \/ Serves(c) /\ toClient'[d] # toClient[d]
<1>1. toClient \in [Clients -> Seq(ClientMessages)]
  BY DEF SceneIInv, Typed, TypeOK
<1>2. CASE Takes(c)
  BY <1>2, Taken
<1>3. CASE Acts(c)
  <2>1. toClient' = toClient \/ toClient' = [toClient EXCEPT ![c] = <<>>]
    BY <1>3 DEF Acts, Join, Enter, Steer, FixedUpdate, Leave
  <2> QED BY <1>1, <2>1
<1> QED BY <1>2, <1>3

(* Where each message stands in a queue that another was put to,               *)
LEMMA AtTheBack ==
  ASSUME SceneIInv, NEW d \in Clients, NEW m \in ClientMessages, toClient'[d] = Append(toClient[d], m),
         NEW i \in DOMAIN toClient'[d]
  PROVE  \/ i \in DOMAIN toClient[d] /\ toClient'[d][i] = toClient[d][i]
         \/ toClient'[d][i] = m /\ \A j \in DOMAIN toClient'[d] : ~(i < j)
<1> HIDE DEF ServerMessages, ClientMessages
<1>1. toClient[d] \in Seq(ClientMessages)
  BY DEF SceneIInv, Typed, TypeOK
<1> QED BY <1>1

(* and in one that was shortened.                                              *)
LEMMA AtTheFront ==
  ASSUME SceneIInv, NEW d \in Clients, toClient[d] # <<>>, toClient'[d] = Tail(toClient[d]),
         NEW i \in DOMAIN toClient'[d]
  PROVE  /\ i \in Nat /\ 1 \in DOMAIN toClient[d] /\ 1 < i + 1 /\ toClient[d][1] = Head(toClient[d])
         /\ i + 1 \in DOMAIN toClient[d] /\ toClient'[d][i] = toClient[d][i + 1]
         /\ \A j \in DOMAIN toClient'[d] : i < j => i + 1 < j + 1
<1> HIDE DEF ServerMessages, ClientMessages
<1>1. toClient[d] \in Seq(ClientMessages)
  BY DEF SceneIInv, Typed, TypeOK
<1> QED BY <1>1, FrontOfQueue

(* What the clients are told of.                                               *)
LEMMA SentInit == Init => Sent
<1> SUFFICES ASSUME Init, NEW c \in Clients PROVE SentInv(c)
  BY DEF Sent
<1>1. toClient[c] = <<>>
  BY DEF Init
<1> QED BY <1>1 DEF SentInv

(* A client is only sent what the server has of others.                        *)
LEMMA SentStep == SceneIInv /\ [Next]_vars => Sent'
<1> SUFFICES ASSUME SceneIInv, [Next]_vars, NEW d \in Clients PROVE SentInv(d)'
  BY DEF Sent
<1>1. SentInv(d)
  BY DEF SceneIInv, Sent
<1>2. CASE UNCHANGED vars
  BY <1>1, <1>2 DEF vars, SentInv
<1> SUFFICES ASSUME NEW c \in Clients, Acts(c) \/ Serves(c) \/ Takes(c) PROVE SentInv(d)'
  BY <1>2 DEF Next
<1> SUFFICES ASSUME NEW i \in DOMAIN toClient'[d], toClient'[d][i].type \in {"Post", "Update"}
             PROVE  toClient'[d][i].of # d /\ toClient'[d][i].of \in DOMAIN things'[Server]
  BY DEF SentInv
<1>3. ASSUME NEW k \in DOMAIN toClient[d], toClient'[d][i] = toClient[d][k]
      PROVE  toClient'[d][i].of # d /\ toClient'[d][i].of \in DOMAIN things'[Server]
  BY <1>1, <1>3, ServerKeeps DEF SentInv
<1>4. CASE toClient'[d] = toClient[d]
  BY <1>3, <1>4
<1>5. CASE toClient'[d] = <<>>
  BY <1>5
<1>6. CASE Takes(c) /\ d = c
  <2>1. toClient[d] # <<>> /\ toClient'[d] = Tail(toClient[d])
    BY <1>6, Taken
  <2> QED BY <1>3, <2>1, AtTheFront
<1>7. CASE Serves(c) /\ toClient'[d] # toClient[d]
  <2>1. PICK m \in ClientMessages :
          /\ toClient'[d] = Append(toClient[d], m)
          /\ \/ m = GridPost
             \/ \E o \in Clients : m = Post(o) /\ o # d /\ o \in DOMAIN things'[Server]
             \/ ServeUpdate(c) /\ d # c /\ m = Head(toServer[c])
    BY <1>7, Answered
  <2>2. m.type \in {"Post", "Update"} => m.of # d /\ m.of \in DOMAIN things'[Server]
    <3>1. CASE m = GridPost
      BY <3>1 DEF GridPost
    <3>2. ASSUME NEW o \in Clients, m = Post(o), o # d, o \in DOMAIN things'[Server]
          PROVE  m.of # d /\ m.of \in DOMAIN things'[Server]
      BY <3>2 DEF Post
    <3>3. CASE ServeUpdate(c) /\ d # c /\ m = Head(toServer[c])
      <4>1. m.of = c /\ c \in DOMAIN things[Server]
        BY <3>3, ServeUpdateMoves DEF Tells
      <4> QED BY <3>3, <4>1, ServerKeeps
    <3> QED BY <2>1, <3>1, <3>2, <3>3
  <2> QED BY <1>3, <2>1, <2>2, AtTheBack
<1> QED BY <1>4, <1>5, <1>6, <1>7, QueueToClient

--------------------------------------------------------------------------------
(* The way of a motion to the server.                                          *)
LEMMA UpInit == Init => Up
<1> SUFFICES ASSUME Init, NEW c \in Clients PROVE UpInv(c)
  BY DEF Up
<1>1. toServer[c] = <<>>
  BY DEF Init
<1> QED BY <1>1 DEF UpInv

(* Where a message to the server stood before.                                 *)
LEMMA QueueToServer ==
  ASSUME SceneIInv, NEW c \in Clients, Acts(c) \/ Serves(c) \/ Takes(c), NEW d \in Clients,
         ~(Serves(c) /\ d = c)
  PROVE  \/ \A i \in DOMAIN toServer'[d] : i \in DOMAIN toServer[d] /\ toServer'[d][i] = toServer[d][i]
         \/ \E m \in ServerMessages :
              /\ toServer'[d] = Append(toServer[d], m) /\ d = c
              /\ m.type = "Update" => FixedUpdate(c) /\ m = Update(c, Own(c))
<1> HIDE DEF ServerMessages, ClientMessages
<1>1. toServer \in [Clients -> Seq(ServerMessages)]
  BY DEF SceneIInv, Typed, TypeOK
<1>2. CASE d # c
  BY <1>2, QueuesOfOthers
<1>4. CASE d = c /\ toServer' = toServer
  BY <1>4
<1>5. CASE d = c /\ Join(c)
  <2>1. toServer'[c] = Append(toServer[c], GridRequest) /\ GridRequest.type # "Update"
    BY <1>1, <1>5 DEF Join, GridRequest
  <2> QED BY <1>5, <2>1, MessageMade
<1>6. CASE d = c /\ Enter(c)
  <2>1. toServer'[c] = Append(toServer[c], Post(c)) /\ Post(c).type # "Update"
    BY <1>1, <1>6 DEF Enter, Post
  <2> QED BY <1>6, <2>1, MessageMade
<1>7. CASE d = c /\ FixedUpdate(c)
  <2>1. toServer'[c] = Append(toServer[c], Update(c, Own(c)))
    BY <1>1, <1>7 DEF FixedUpdate, Own
  <2>2. Own(c) \in Motions
    BY <1>7, NodesOfPlayers DEF FixedUpdate, SceneIInv, PlaceInv, Typed, TypeOK, Own
  <2> QED BY <1>7, <2>1, <2>2, MessageMade
<1>8. CASE d = c /\ Leave(c)
  <2>1. PICK k \in 0..Len(toServer[c]) : toServer'[c] = SubSeq(toServer[c], 1, k)
    BY <1>1, <1>8 DEF Leave
  <2>2. toServer[c] \in Seq(ServerMessages)
    BY <1>1
  <2> QED BY <1>8, <2>1, <2>2
<1>9. CASE d = c /\ DropPost(c)
  <2>1. toServer'[c] = Append(toServer[c], Untyped) /\ Untyped.type # "Update"
    BY <1>1, <1>9 DEF DropPost, Untyped
  <2> QED BY <1>9, <2>1, MessageMade
<1>10. CASE d = c /\ AskForShip(c)
  <2>1. PICK o \in Clients : o = Head(toClient[c]).of
    BY <1>10, FrontIsOther DEF AskForShip
  <2>2. toServer'[c] = Append(toServer[c], RequestById(o)) /\ RequestById(o).type # "Update"
    BY <1>1, <1>10, <2>1 DEF AskForShip, RequestById
  <2> QED BY <1>10, <2>2, MessageMade
<1>11. CASE d = c /\ AskForGrid(c) /\ toServer' # toServer
  <2>1. toServer'[c] = Append(toServer[c], GridById) /\ GridById.type # "Update"
    BY <1>1, <1>11 DEF AskForGrid, GridById
  <2> QED BY <1>11, <2>1, MessageMade
<1> QED BY <1>2, <1>4, <1>5, <1>6, <1>7, <1>8, <1>9, <1>10, <1>11
        DEF Acts, Takes, Steer, TakeGrid, TakePost, TakeUpdate

(* What an update in the queue to the server says.                             *)
LEMMA UpdateTypes ==
  ASSUME SceneIInv, NEW d \in Clients, NEW i \in DOMAIN toServer[d], toServer[d][i].type = "Update"
  PROVE  /\ toServer[d][i].motion \in Motions /\ toServer[d][i].motion.n \in Nat
         /\ stage[d] = "in" /\ i \in Nat
<1>1. toServer[d][i] \in ServerMessages /\ i \in Nat
  <2>1. toServer[d] \in Seq(ServerMessages)
    BY DEF SceneIInv, Typed, TypeOK
  <2> HIDE DEF ServerMessages
  <2> QED BY <2>1
<1>2. toServer[d][i].motion \in Motions
  BY <1>1, ToServerMessages
<1>3. stage[d] = "in"
  BY DEF SceneIInv, Told, ToldInv
<1> QED BY <1>1, <1>2, <1>3 DEF Motions

(* The owner only adds what is ahead of all it sent, in order.                 *)
LEMMA UpStep == SceneIInv /\ [Next]_vars => Up'
<1> SUFFICES ASSUME SceneIInv, [Next]_vars, NEW d \in Clients PROVE UpInv(d)'
  BY DEF Up
<1>1. UpInv(d)
  BY DEF SceneIInv, Up
<1>2. CASE UNCHANGED vars
  BY <1>1, <1>2 DEF vars, UpInv, Behind, Own
<1> SUFFICES ASSUME NEW c \in Clients, Acts(c) \/ Serves(c) \/ Takes(c) PROVE UpInv(d)'
  BY <1>2 DEF Next
<1>3. Server \in Nodes /\ Process[c] # Server
  BY NodesOfPlayers
(* An update that was there before is still ahead of the server, *)
<1>4. ASSUME NEW k \in DOMAIN toServer[d], toServer[d][k].type = "Update",
             ServeUpdate(c) /\ d = c => k # 1, NEW m, m = toServer[d][k].motion
      PROVE  /\ d \in DOMAIN things'[Server] => things'[Server][d].n <= m.n
             /\ link'[d] = "on" => Behind(d, m)'
  <2>1. m \in Motions /\ m = toServer[d][k].motion /\ m.n \in Nat
    BY <1>4, UpdateTypes
  <2>2. link'[d] = "on" => Behind(d, m)'
    <3>1. link'[d] = "on" => link[d] = "on" /\ stage[d] = "in"
      BY <1>4, UpdateTypes, OwnKept
    <3>2. link'[d] = "on" => Behind(d, m)
      BY <1>1, <1>4, <2>1, <3>1 DEF UpInv
    <3> QED BY <2>1, <3>1, <3>2, BehindKept
  <2>3. ASSUME d \in DOMAIN things'[Server] PROVE things'[Server][d].n <= m.n
    <3>1. CASE d \in DOMAIN things[Server] /\ things'[Server][d] = things[Server][d]
      BY <1>1, <1>4, <2>1, <3>1 DEF UpInv
    <3>2. CASE things'[Server][d] = Still
      BY <2>1, <3>2 DEF Still
    <3>3. CASE ServeUpdate(c) /\ d = c /\ things'[Server][d] = Head(toServer[c]).motion
      <4>1. /\ Head(toServer[c]) = toServer[d][1] /\ 1 \in DOMAIN toServer[d] /\ k \in Nat
            /\ toServer[d][1].type = "Update"
        BY <1>4, <3>3, QueueTypes, UpdateTypes DEF ServeUpdate, From, SceneIInv
      <4>2. k >= 1
        <5>1. toServer[d] \in Seq(ServerMessages)
          BY DEF SceneIInv, Typed, TypeOK
        <5> HIDE DEF ServerMessages
        <5> QED BY <1>4, <5>1
      <4>3. 1 < k
        BY <1>4, <3>3, <4>1, <4>2
      <4> QED BY <1>1, <1>4, <2>1, <3>3, <4>1, <4>3 DEF UpInv
    <3>4. \/ d \in DOMAIN things[Server] /\ things'[Server][d] = things[Server][d]
          \/ things'[Server][d] = Still
          \/ ServeUpdate(c) /\ d = c /\ things'[Server][d] = Head(toServer[c]).motion
      BY <1>3, <2>3, CopyChanges
    <3> QED BY <3>1, <3>2, <3>3, <3>4
  <2> QED BY <2>1, <2>2, <2>3
<1>5. ASSUME ~(Serves(c) /\ d = c),
             \A i \in DOMAIN toServer'[d] : i \in DOMAIN toServer[d] /\ toServer'[d][i] = toServer[d][i]
      PROVE  UpInv(d)'
  <2>1. ~(ServeUpdate(c) /\ d = c)
    BY <1>5 DEF Serves
  <2>2. SUFFICES ASSUME NEW i \in DOMAIN toServer'[d], NEW m, m = toServer'[d][i], m.type = "Update"
                 PROVE  /\ d \in DOMAIN things'[Server] => things'[Server][d].n <= m.motion.n
                        /\ link'[d] = "on" => Behind(d, m.motion)'
                        /\ \A j \in DOMAIN toServer'[d] : i < j /\ toServer'[d][j].type = "Update" =>
                             m.motion.n <= toServer'[d][j].motion.n
    BY DEF UpInv, Behind, Own
  <2>3. i \in DOMAIN toServer[d] /\ toServer[d][i] = m
    BY <1>5, <2>2
  <2>4. \A j \in DOMAIN toServer'[d] : i < j /\ toServer'[d][j].type = "Update" =>
                             m.motion.n <= toServer'[d][j].motion.n
    BY <1>1, <1>5, <2>2, <2>3 DEF UpInv
  <2> QED BY <1>4, <2>1, <2>2, <2>3, <2>4
<1>6. ASSUME ~(Serves(c) /\ d = c), d = c, NEW m \in ServerMessages, toServer'[d] = Append(toServer[d], m),
             m.type = "Update" => FixedUpdate(c) /\ m = Update(c, Own(c))
      PROVE  UpInv(d)'
  <2>1. ~(ServeUpdate(c) /\ d = c)
    BY <1>6 DEF Serves
  <2>2. /\ DOMAIN toServer'[d] = DOMAIN toServer[d] \cup {Len(toServer[d]) + 1}
        /\ toServer'[d][Len(toServer[d]) + 1] = m
        /\ \A i \in DOMAIN toServer[d] : toServer'[d][i] = toServer[d][i] /\ i < Len(toServer[d]) + 1
                                         /\ i \in Nat /\ Len(toServer[d]) \in Nat
    <3>1. toServer[d] \in Seq(ServerMessages)
      BY DEF SceneIInv, Typed, TypeOK
    <3> HIDE DEF ServerMessages
    <3> QED BY <1>6, <3>1, BackOfQueue
  <2>3. m.type = "Update" => /\ m.motion = Own(c) /\ Own(c).n \in Nat /\ Own(c) \in Motions
                             /\ link[c] = "on" /\ things' = things
    <3>1. Update(c, Own(c)).motion = Own(c)
      BY DEF Update
    <3>2. FixedUpdate(c) => link[c] = "on" /\ things' = things /\ c \in DOMAIN things[Process[c]]
      BY DEF FixedUpdate, SceneIInv, PlaceInv
    <3> QED BY <1>6, <3>1, <3>2, NodesOfPlayers, CopyTypes
  <2>4. m.type = "Update" => /\ c \in DOMAIN things'[Server] => things'[Server][c].n <= m.motion.n
                             /\ Behind(c, m.motion)'
                             /\ \A i \in DOMAIN toServer[c] : toServer[c][i].type = "Update" =>
                                  toServer[c][i].motion.n <= m.motion.n
    <3> SUFFICES ASSUME m.type = "Update"
                 PROVE  /\ c \in DOMAIN things'[Server] => things'[Server][c].n <= m.motion.n
                        /\ Behind(c, m.motion)'
                        /\ \A i \in DOMAIN toServer[c] : toServer[c][i].type = "Update" =>
                             toServer[c][i].motion.n <= m.motion.n
      OBVIOUS
    <3>1. c \in DOMAIN things[Server] => things[Server][c].n <= Own(c).n
      BY <1>3, <2>3 DEF SceneIInv, Copies, CopyInv, Behind
    <3>2. \A i \in DOMAIN toServer[c] : toServer[c][i].type = "Update" =>
            toServer[c][i].motion.n <= Own(c).n
      BY <1>1, <1>6, <2>3 DEF UpInv, Behind
    <3>3. PICK v : v = m.motion
      OBVIOUS
    <3>4. Behind(c, v)'
      BY <2>3, <3>3 DEF Behind, Own
    <3> QED BY <2>3, <3>1, <3>2, <3>3, <3>4
  <2> QED BY <1>1, <1>4, <1>6, <2>1, <2>2, <2>4, SMTT(30) DEF UpInv
<1>7. CASE Serves(c) /\ d = c
  <2>1. /\ toServer[d] # <<>> /\ toServer'[d] = Tail(toServer[d])
    BY <1>7, Served
  <2>2. /\ \A i \in DOMAIN toServer'[d] : /\ i + 1 \in DOMAIN toServer[d]
                                         /\ toServer'[d][i] = toServer[d][i + 1]
                                          /\ i \in Nat /\ i + 1 # 1
        /\ \A i, j \in DOMAIN toServer'[d] : i < j => i + 1 < j + 1
    <3>1. toServer[d] \in Seq(ServerMessages)
      BY DEF SceneIInv, Typed, TypeOK
    <3> HIDE DEF ServerMessages
    <3> QED BY <2>1, <3>1, FrontOfQueue
  <2>3. SUFFICES ASSUME NEW i \in DOMAIN toServer'[d], NEW m, m = toServer'[d][i], m.type = "Update"
                 PROVE  /\ d \in DOMAIN things'[Server] => things'[Server][d].n <= m.motion.n
                        /\ link'[d] = "on" => Behind(d, m.motion)'
                        /\ \A j \in DOMAIN toServer'[d] : i < j /\ toServer'[d][j].type = "Update" =>
                             m.motion.n <= toServer'[d][j].motion.n
    BY DEF UpInv, Behind, Own
  <2>4. i + 1 \in DOMAIN toServer[d] /\ toServer[d][i + 1] = m /\ i + 1 # 1
    BY <2>2, <2>3
  <2>5. ASSUME NEW k \in DOMAIN toServer[d], k # 1, toServer[d][k] = m
        PROVE  /\ d \in DOMAIN things'[Server] => things'[Server][d].n <= m.motion.n
               /\ link'[d] = "on" => Behind(d, m.motion)'
    BY <1>4, <2>3, <2>5
  <2>6. ASSUME NEW j \in DOMAIN toServer'[d], i < j, toServer'[d][j].type = "Update"
        PROVE  m.motion.n <= toServer'[d][j].motion.n
    <3>1. j + 1 \in DOMAIN toServer[d] /\ toServer'[d][j] = toServer[d][j + 1] /\ i + 1 < j + 1
      BY <2>2, <2>6
    <3> QED BY <1>1, <2>3, <2>4, <2>6, <3>1 DEF UpInv
  <2> QED BY <2>4, <2>5, <2>6
<1> QED BY <1>5, <1>6, <1>7, QueueToServer

--------------------------------------------------------------------------------
(* What the nodes have of a ship.                                              *)
LEMMA CopiesInit == Init => Copies
<1> SUFFICES ASSUME Init, NEW o \in Clients PROVE CopyInv(o)
  BY DEF Copies
<1>1. link[o] = "off" /\ \A n \in Nodes : DOMAIN things[n] = {}
  BY DEF Init
<1>2. \A p \in Processes : p \in Nodes
  BY DEF Nodes
<1> QED BY <1>1, <1>2 DEF CopyInv

(* What an update that reaches the server, or a client, brings.                *)
LEMMA UpdateServed ==
  ASSUME SceneIInv, NEW c \in Clients, ServeUpdate(c), NEW m, m = Head(toServer[c]).motion
  PROVE  /\ m \in Motions /\ m.n \in Nat /\ stage[c] = "in" /\ c \in DOMAIN things[Server]
         /\ things[Server][c].n <= m.n
         /\ link[c] = "on" => Behind(c, m)
<1>1. /\ Head(toServer[c]) = toServer[c][1] /\ 1 \in DOMAIN toServer[c] /\ toServer[c][1].type = "Update"
  BY QueueTypes DEF SceneIInv, ServeUpdate, From
<1>2. c \in DOMAIN things[Server] /\ stage[c] = "in"
  BY ServeUpdateMoves
<1>3. UpInv(c)
  BY DEF SceneIInv, Up
<1> QED BY <1>1, <1>2, <1>3, UpdateTypes DEF UpInv

(* An update that reaches a client: it is of the ship of another process.      *)
LEMMA UpdateTaken ==
  ASSUME SceneIInv, NEW c \in Clients, TakeUpdate(c), NEW o, o = Head(toClient[c]).of,
         NEW m, m = Head(toClient[c]).motion
  PROVE  /\ m \in Motions /\ m.n \in Nat /\ o \in Clients /\ o # c /\ stage[o] = "in"
         /\ m.n <= things[Server][o].n /\ o \in DOMAIN things[Server]
         /\ link[o] = "on" => Behind(o, m) /\ Process[o] # Process[c]
         /\ Process[c] # Process[o] => things[Process[c]][o].n <= m.n
         /\ Process[c] \in Nodes /\ o \in DOMAIN things[Process[c]]
<1>1. /\ Head(toClient[c]) = toClient[c][1] /\ 1 \in DOMAIN toClient[c]
      /\ o \in Clients /\ o # c /\ stage[o] = "in" /\ m \in Motions /\ o \in DOMAIN things[Server]
      /\ Tells(toClient[c][1], o) /\ link[c] = "on"
  BY FrontIsOther DEF TakeUpdate, Gets
<1>2. o \in DOMAIN things[Process[c]] /\ Process[c] \in Nodes
  BY NodesOfPlayers DEF TakeUpdate
<1>3. DownInv(c)
  BY DEF SceneIInv, Down
<1>4. link[o] = "on" => Process[o] # Process[c]
  BY <1>1, Alone
<1>5. m.n \in Nat
  BY <1>1 DEF Motions
<1>6. m.n <= things[Server][o].n /\ link[o] = "on" => Behind(o, m)
  BY <1>1, <1>3 DEF DownInv
<1>7. Process[c] # Process[o] => things[Process[c]][o].n <= m.n
  BY <1>1, <1>2, <1>3 DEF DownInv
<1>8. m.n <= things[Server][o].n
  BY <1>1, <1>3 DEF DownInv
<1> QED BY <1>1, <1>2, <1>3, <1>4, <1>5, <1>6, <1>7, <1>8 DEF DownInv

(* No node goes back in what it has of a ship, but the process of the owner    *)
(* when he is gone.                                                            *)
LEMMA CopiesGrow ==
  ASSUME SceneIInv, NEW c \in Clients, Acts(c) \/ Serves(c) \/ Takes(c),
         NEW n \in Nodes, NEW o \in DOMAIN things[n]
  PROVE  /\ o \in DOMAIN things'[n]
         /\ n # Process[o] \/ link[o] = "on" => things[n][o].n <= things'[n][o].n
<1>1. o \in DOMAIN things'[n]
  BY CopyChanges
<1>2. things[n][o].n \in Nat
  BY CopyTypes
<1>3. CASE things'[n][o] = things[n][o]
  BY <1>1, <1>2, <1>3
<1>4. CASE things'[n][o].n = things[n][o].n + 1
  BY <1>1, <1>2, <1>4
<1>5. CASE ServeUpdate(c) /\ o = c /\ n = Server /\ things'[n][o] = Head(toServer[c]).motion
  BY <1>1, <1>5, UpdateServed
<1>6. CASE /\ TakeUpdate(c) /\ o = Head(toClient[c]).of /\ n = Process[c]
           /\ things'[n][o] = Head(toClient[c]).motion
  BY <1>1, <1>6, UpdateTaken
<1> QED BY <1>1, <1>3, <1>4, <1>5, <1>6, CopyChanges

(* A copy only takes over what is ahead of it, and behind the server.          *)
LEMMA CopiesStep == SceneIInv /\ Typed' /\ PlaceInv' /\ [Next]_vars => Copies'
<1> SUFFICES ASSUME SceneIInv, Typed', PlaceInv', [Next]_vars, NEW o \in Clients PROVE CopyInv(o)'
  BY DEF Copies
<1>1. CopyInv(o)
  BY DEF SceneIInv, Copies
<1>2. CASE UNCHANGED vars
  BY <1>1, <1>2 DEF vars, CopyInv, Behind, Own
<1> SUFFICES ASSUME NEW c \in Clients, Acts(c) \/ Serves(c) \/ Takes(c) PROVE CopyInv(o)'
  BY <1>2 DEF Next
<1>3. /\ Server \in Nodes /\ \A p \in Processes : p \in Nodes /\ p # Server
      /\ Process[o] \in Nodes /\ Process[o] # Server /\ Process[c] # Server
  BY NodesOfPlayers, NodesAssumption DEF Nodes
<1>4. ASSUME NEW n \in Nodes, o \in DOMAIN things'[n]
      PROVE  /\ things'[n][o] \in Motions /\ things'[n][o].n \in Nat /\ stage'[o] = "in"
             /\ n = Process[o] \/ o \in DOMAIN things'[Server]
  <2>1. things'[n][o] \in Motions
    BY <1>4 DEF Typed, TypeOK
  <2> QED BY <1>4, <2>1 DEF PlaceInv, Motions
<1>5. ASSUME NEW p \in Processes, o \in DOMAIN things'[p], p # Process[o]
      PROVE  things'[p][o].n <= things'[Server][o].n
  <2>1. o \in DOMAIN things'[Server] /\ things'[Server][o].n \in Nat /\ things'[p][o].n \in Nat
    BY <1>3, <1>4, <1>5
  <2>2. CASE o \in DOMAIN things[p] /\ things'[p][o] = things[p][o]
    <3>1. o \in DOMAIN things[Server] /\ things[Server][o].n \in Nat
      BY <1>3, <1>5, <2>2, CopyTypes
    <3>2. things[p][o].n <= things[Server][o].n
      BY <1>1, <1>5, <2>2 DEF CopyInv
    <3>3. things[Server][o].n <= things'[Server][o].n
      BY <1>3, <3>1, CopiesGrow
    <3> QED BY <2>1, <2>2, <3>1, <3>2, <3>3
  <2>3. CASE things'[p][o] = Still
    BY <2>1, <2>3 DEF Still
  <2>4. CASE TakeUpdate(c) /\ o = Head(toClient[c]).of /\ things'[p][o] = Head(toClient[c]).motion
    <3>1. o \in DOMAIN things[Server] /\ Head(toClient[c]).motion.n <= things[Server][o].n
      BY <2>4, UpdateTaken
    <3>2. things[Server][o].n <= things'[Server][o].n /\ things[Server][o].n \in Nat
      BY <1>3, <3>1, CopiesGrow, CopyTypes
    <3> QED BY <2>1, <2>4, <3>1, <3>2
  <2> QED BY <1>3, <1>5, <2>2, <2>3, <2>4, CopyChanges
<1>6. ASSUME link'[o] = "on", stage'[o] = "in", stage[o] # "in"
      PROVE  /\ \A n \in Nodes : o \in DOMAIN things'[n] => \A m : m = things'[n][o] => Behind(o, m)'
             /\ Behind(o, Still)'
  <2>1. \A n \in Nodes : o \in DOMAIN things'[n] => things'[n][o] = Still
    <3>1. \A n \in Nodes : o \notin DOMAIN things[n]
      BY <1>6 DEF SceneIInv, PlaceInv
    <3> QED BY <3>1, CopyChanges
  <2>2. o \in DOMAIN things'[Process[o]]
    BY <1>6 DEF PlaceInv
  <2>3. Own(o)' = Still
    BY <1>3, <2>1, <2>2 DEF Own
  <2>4. Behind(o, Still)'
    BY <2>3 DEF Behind, Still
  <2> QED BY <2>1, <2>4 DEF Behind, Own
<1>7. ASSUME link'[o] = "on", stage[o] = "in"
      PROVE  /\ \A n \in Nodes : o \in DOMAIN things'[n] => \A m : m = things'[n][o] => Behind(o, m)'
             /\ Behind(o, Still)'
  <2>1. link[o] = "on"
    BY <1>7, OwnKept
  <2>2. Still \in Motions
    BY DEF Still, Motions
  <2>3. Behind(o, Still)'
    BY <1>1, <1>7, <2>1, <2>2, BehindKept DEF CopyInv
  <2>4. ASSUME NEW n \in Nodes, o \in DOMAIN things'[n], NEW m, m = things'[n][o] PROVE Behind(o, m)'
    <3>1. m \in Motions
      BY <1>4, <2>4
    <3>2. CASE o \in DOMAIN things[n] /\ things'[n][o] = things[n][o]
      BY <1>1, <1>7, <2>1, <2>4, <3>1, <3>2, BehindKept DEF CopyInv
    <3>3. CASE things'[n][o] = Still
      BY <2>3, <2>4, <3>3
    <3>4. CASE Steer(c) /\ o = c /\ n = Process[c]
      BY <2>4, <3>1, <3>4 DEF Behind, Own, Motions
    <3>5. CASE ServeUpdate(c) /\ o = c /\ things'[n][o] = Head(toServer[c]).motion
      BY <1>7, <2>1, <2>4, <3>1, <3>5, UpdateServed, BehindKept
    <3>6. CASE TakeUpdate(c) /\ o = Head(toClient[c]).of /\ things'[n][o] = Head(toClient[c]).motion
      BY <1>7, <2>1, <2>4, <3>1, <3>6, UpdateTaken, BehindKept
    <3> QED BY <2>4, <3>2, <3>3, <3>4, <3>5, <3>6, CopyChanges
  <2> QED BY <2>3, <2>4
<1>8. /\ link'[o] = "on" => \A n \in Nodes : o \in DOMAIN things'[n] =>
           \A m : m = things'[n][o] => Behind(o, m)'
      /\ link'[o] = "on" /\ stage'[o] = "in" => Behind(o, Still)'
  BY <1>4, <1>6, <1>7
<1>9. /\ link'[o] = "on" => \A n \in Nodes : o \in DOMAIN things'[n] => Behind(o, things[n][o])'
      /\ link'[o] = "on" /\ stage'[o] = "in" => Behind(o, Still)'
  BY <1>8 DEF Behind, Own
<1> QED BY <1>5, <1>9 DEF CopyInv

--------------------------------------------------------------------------------
(* The way of a motion from the server.                                        *)
LEMMA DownInit == Init => Down
<1> SUFFICES ASSUME Init, NEW c \in Clients PROVE DownInv(c)
  BY DEF Down
<1>1. toClient[c] = <<>>
  BY DEF Init
<1> QED BY <1>1 DEF DownInv

(* What an update in the queue to a client says.                               *)
LEMMA ToldTypes ==
  ASSUME SceneIInv, NEW d \in Clients, NEW i \in DOMAIN toClient[d], NEW o \in Clients,
         NEW m, m = toClient[d][i], Tells(m, o)
  PROVE  /\ m.motion \in Motions /\ m.motion.n \in Nat /\ o \in DOMAIN things[Server]
         /\ stage[o] = "in" /\ o # d /\ i \in Nat /\ i >= 1 /\ link[d] = "on"
<1>1. m \in ClientMessages /\ i \in Nat /\ i >= 1
  <2>1. toClient[d] \in Seq(ClientMessages)
    BY DEF SceneIInv, Typed, TypeOK
  <2> HIDE DEF ClientMessages
  <2> QED BY <2>1
<1>2. m.motion \in Motions
  BY <1>1, ToClientMessages DEF Tells
<1>3. o \in DOMAIN things[Server] /\ o # d
  BY DEF SceneIInv, Sent, SentInv, Tells
<1>4. link[d] = "on"
  BY DEF SceneIInv, LinkInv
<1> QED BY <1>1, <1>2, <1>3, <1>4, CopyTypes, NodesOfPlayers DEF Motions

(* An update that was there before is still between the server and the client. *)
LEMMA DownKept ==
  ASSUME SceneIInv, Typed', NEW c \in Clients, Acts(c) \/ Serves(c) \/ Takes(c),
         NEW d \in Clients, NEW k \in DOMAIN toClient[d], NEW o \in Clients,
         NEW m, m = toClient[d][k], Tells(m, o), Takes(c) /\ d = c => k # 1
  PROVE  /\ m.motion.n <= things'[Server][o].n
         /\ link'[o] = "on" => Behind(o, m.motion)'
         /\ o \in DOMAIN things'[Process[d]] /\ Process[d] # Process[o] =>
              things'[Process[d]][o].n <= m.motion.n
<1>1. /\ m.motion \in Motions /\ m.motion.n \in Nat /\ o \in DOMAIN things[Server]
      /\ stage[o] = "in" /\ k \in Nat /\ k >= 1 /\ link[d] = "on"
  BY ToldTypes
<1>2. DownInv(d)
  BY DEF SceneIInv, Down
<1>3. Server \in Nodes /\ Process[d] \in Nodes /\ Process[d] # Server /\ Process[o] # Server
  BY NodesOfPlayers
<1>4. m.motion.n <= things'[Server][o].n
  <2>1. m.motion.n <= things[Server][o].n
    BY <1>2 DEF DownInv
  <2>2. things[Server][o].n <= things'[Server][o].n /\ things[Server][o].n \in Nat
    BY <1>1, <1>3, CopiesGrow, CopyTypes
  <2>3. things'[Server][o].n \in Nat
    <3>1. o \in DOMAIN things'[Server]
      BY <1>1, ServerKeeps
    <3>2. things'[Server][o] \in Motions
      BY <1>3, <3>1 DEF Typed, TypeOK
    <3> QED BY <3>2 DEF Motions
  <2> QED BY <1>1, <2>1, <2>2, <2>3
<1>5. link'[o] = "on" => Behind(o, m.motion)'
  <2>1. link'[o] = "on" => link[o] = "on"
    BY <1>1, OwnKept
  <2>2. link'[o] = "on" => Behind(o, m.motion)
    BY <1>2, <2>1 DEF DownInv
  <2> QED BY <1>1, <2>2, BehindKept
<1>6. ASSUME o \in DOMAIN things'[Process[d]], Process[d] # Process[o]
      PROVE  things'[Process[d]][o].n <= m.motion.n
  <2>1. CASE o \in DOMAIN things[Process[d]] /\ things'[Process[d]][o] = things[Process[d]][o]
    BY <1>2, <1>6, <2>1 DEF DownInv
  <2>2. CASE things'[Process[d]][o] = Still
    BY <1>1, <2>2 DEF Still
  <2>3. CASE /\ TakeUpdate(c) /\ o = Head(toClient[c]).of /\ Process[d] = Process[c]
             /\ things'[Process[d]][o] = Head(toClient[c]).motion
    <3>1. c = d
      <4>1. link[c] = "on"
        BY <2>3 DEF TakeUpdate, Gets
      <4> QED BY <1>1, <2>3, <4>1, Alone
    <3>2. /\ Head(toClient[c]) = toClient[d][1] /\ 1 \in DOMAIN toClient[d]
          /\ Tells(toClient[d][1], o)
      BY <2>3, <3>1, FrontIsOther DEF TakeUpdate
    <3>3. 1 < k
      <4>1. Takes(c)
        BY <2>3 DEF Takes
      <4> QED BY <1>1, <3>1, <4>1
    <3> QED BY <1>2, <2>3, <3>2, <3>3 DEF DownInv
  <2> QED BY <1>3, <1>6, <2>1, <2>2, <2>3, CopyChanges
<1> QED BY <1>4, <1>5, <1>6

(* The server only passes on what it takes over itself.                        *)
LEMMA DownStep == SceneIInv /\ Typed' /\ [Next]_vars => Down'
<1> SUFFICES ASSUME SceneIInv, Typed', [Next]_vars, NEW d \in Clients PROVE DownInv(d)'
  BY DEF Down
<1>1. DownInv(d)
  BY DEF SceneIInv, Down
<1>2. CASE UNCHANGED vars
  BY <1>1, <1>2 DEF vars, DownInv, Behind, Own
<1> SUFFICES ASSUME NEW c \in Clients, Acts(c) \/ Serves(c) \/ Takes(c) PROVE DownInv(d)'
  BY <1>2 DEF Next
<1> SUFFICES ASSUME NEW i \in DOMAIN toClient'[d], NEW o \in Clients, NEW m, m = toClient'[d][i], Tells(m, o)
             PROVE  /\ m.motion.n <= things'[Server][o].n
                    /\ link'[o] = "on" => Behind(o, m.motion)'
                    /\ o \in DOMAIN things'[Process[d]] /\ Process[d] # Process[o] =>
                         things'[Process[d]][o].n <= m.motion.n
                    /\ \A j \in DOMAIN toClient'[d] : i < j /\ Tells(toClient'[d][j], o) =>
                         m.motion.n <= toClient'[d][j].motion.n
  BY DEF DownInv, Behind, Own, Tells
<1>3. CASE toClient'[d] = toClient[d] /\ ~(Takes(c) /\ d = c)
  <2>1. \A j \in DOMAIN toClient'[d] : i < j /\ Tells(toClient'[d][j], o) =>
          m.motion.n <= toClient'[d][j].motion.n
    BY <1>1, <1>3 DEF DownInv
  <2> QED BY <1>3, <2>1, DownKept
<1>4. CASE toClient'[d] = <<>>
  BY <1>4
<1>5. CASE Takes(c) /\ d = c
  <2>1. toClient[d] # <<>> /\ toClient'[d] = Tail(toClient[d])
    BY <1>5, Taken
  <2>2. i + 1 \in DOMAIN toClient[d] /\ m = toClient[d][i + 1] /\ i + 1 # 1
    <3>1. /\ i \in Nat /\ 1 < i + 1 /\ i + 1 \in DOMAIN toClient[d]
          /\ toClient'[d][i] = toClient[d][i + 1]
      BY <2>1, AtTheFront
    <3> QED BY <3>1
  <2>3. ASSUME NEW k \in DOMAIN toClient[d], m = toClient[d][k], k # 1
        PROVE  /\ m.motion.n <= things'[Server][o].n
               /\ link'[o] = "on" => Behind(o, m.motion)'
               /\ o \in DOMAIN things'[Process[d]] /\ Process[d] # Process[o] =>
                    things'[Process[d]][o].n <= m.motion.n
    BY <2>3, DownKept
  <2>4. ASSUME NEW j \in DOMAIN toClient'[d], i < j, Tells(toClient'[d][j], o)
        PROVE  m.motion.n <= toClient'[d][j].motion.n
    <3>1. j + 1 \in DOMAIN toClient[d] /\ toClient'[d][j] = toClient[d][j + 1] /\ i + 1 < j + 1
      BY <2>1, <2>2, <2>4, AtTheFront
    <3> QED BY <1>1, <2>2, <2>4, <3>1 DEF DownInv
  <2> QED BY <2>2, <2>3, <2>4
<1>6. CASE Serves(c) /\ toClient'[d] # toClient[d] /\ ~(Takes(c) /\ d = c)
  <2>1. PICK x \in ClientMessages :
          /\ toClient'[d] = Append(toClient[d], x)
          /\ \/ x = GridPost
             \/ \E s \in Clients : x = Post(s) /\ s # d /\ s \in DOMAIN things'[Server]
             \/ ServeUpdate(c) /\ d # c /\ x = Head(toServer[c])
    BY <1>6, Answered
  <2>2. ASSUME Tells(x, o)
        PROVE  /\ ServeUpdate(c) /\ d # c /\ x = Head(toServer[c]) /\ o = c
               /\ x.motion \in Motions /\ x.motion.n \in Nat /\ things'[Server][c] = x.motion
    <3>1. x # GridPost /\ \A s \in Clients : x # Post(s)
      BY <2>2 DEF Tells, GridPost, Post
    <3>2. ServeUpdate(c) /\ d # c /\ x = Head(toServer[c])
      BY <2>1, <3>1
    <3>3. /\ x.of = c /\ x.motion \in Motions /\ x.motion.n \in Nat
          /\ things'[Server][c] = x.motion
      BY <3>2, ServeUpdateMoves, UpdateServed, NodesOfPlayers DEF Tells, Moved
    <3> QED BY <2>2, <3>2, <3>3 DEF Tells
  <2>3. ASSUME Tells(x, o), NEW j \in DOMAIN toClient[d], Tells(toClient[d][j], o)
        PROVE  toClient[d][j].motion.n <= x.motion.n
    <3>1. toClient[d][j].motion.n <= things'[Server][o].n
      BY <1>6, <2>3, DownKept
    <3> QED BY <2>2, <2>3, <3>1
  <2>4. CASE i \in DOMAIN toClient[d] /\ toClient'[d][i] = toClient[d][i]
    <3>1. ASSUME NEW j \in DOMAIN toClient'[d], i < j, Tells(toClient'[d][j], o)
          PROVE  m.motion.n <= toClient'[d][j].motion.n
      <4>1. CASE j \in DOMAIN toClient[d] /\ toClient'[d][j] = toClient[d][j]
        BY <1>1, <2>4, <3>1, <4>1 DEF DownInv
      <4>2. CASE toClient'[d][j] = x
        BY <2>3, <2>4, <3>1, <4>2
      <4> QED BY <2>1, <4>1, <4>2, AtTheBack
    <3> QED BY <1>6, <2>4, <3>1, DownKept
  <2>5. CASE m = x /\ \A j \in DOMAIN toClient'[d] : ~(i < j)
    <3>1. /\ ServeUpdate(c) /\ d # c /\ x = Head(toServer[c]) /\ o = c
          /\ x.motion \in Motions /\ x.motion.n \in Nat /\ things'[Server][c] = x.motion
      BY <2>2, <2>5
    <3>2. link'[c] = "on" => Behind(c, m.motion)'
      <4>1. stage[c] = "in" /\ (link[c] = "on" => Behind(c, m.motion))
        BY <2>5, <3>1, UpdateServed
      <4> QED BY <2>5, <3>1, <4>1, OwnKept, BehindKept
    <3>3. ASSUME c \in DOMAIN things'[Process[d]], Process[d] # Process[c]
          PROVE  things'[Process[d]][c].n <= m.motion.n
      <4>1. Process[d] \in Processes /\ Process[d] \in Nodes /\ Process[d] # Server
        BY NodesOfPlayers DEF Nodes
      <4>2. c \in DOMAIN things[Process[d]] /\ things'[Process[d]][c] = things[Process[d]][c]
        BY <3>1, <3>3, <4>1, ServeUpdateMoves DEF Moved
      <4>3. things[Process[d]][c].n <= things[Server][c].n
        BY <3>3, <4>1, <4>2 DEF SceneIInv, Copies, CopyInv
      <4>4. things[Server][c].n <= x.motion.n /\ c \in DOMAIN things[Server]
        BY <3>1, UpdateServed
      <4>5. things[Process[d]][c].n \in Nat /\ things[Server][c].n \in Nat
        BY <4>1, <4>2, <4>4, CopyTypes, NodesOfPlayers
      <4> QED BY <2>5, <3>1, <4>2, <4>3, <4>4, <4>5
    <3>4. m.motion.n <= things'[Server][o].n
      BY <2>5, <3>1
    <3> QED BY <2>5, <3>1, <3>2, <3>3, <3>4
  <2> QED BY <2>1, <2>4, <2>5, AtTheBack
<1> QED BY <1>3, <1>4, <1>5, <1>6, QueueToClient

--------------------------------------------------------------------------------
(* The invariant is inductive.                                                 *)
LEMMA SceneInit == Init => SceneIInv
  BY TypeInit, IndexedInit, LinkInit, PlaceInit, ToldInit, SentInit, UpInit, DownInit, CopiesInit
     DEF SceneIInv

(* No step leaves it.                                                          *)
LEMMA SceneStep == SceneIInv /\ [Next]_vars => SceneIInv'
<1> SUFFICES ASSUME SceneIInv, [Next]_vars PROVE SceneIInv'
  OBVIOUS
<1>1. Typed' /\ PlaceInv'
  BY TypeStep, PlaceStep
<1> QED
  BY <1>1, IndexedStep, LinkStep, ToldStep, SentStep, UpStep, DownStep, CopiesStep DEF SceneIInv

(* Every state of the scenes is within the invariant, for any number of        *)
(* players, games and course changes.                                          *)
THEOREM SceneReachable == Spec => []SceneIInv
  BY SceneInit, SceneStep, PTL DEF Spec

(* Grid.hpp: the map and the vector of a grid hold the same ships, at every    *)
(* player and at the server; and no client is ever sent a message that         *)
(* Client::OnMessage has only assert(false) for.                               *)
THEOREM SceneWellFormed == Spec => []SceneInv
<1>1. SceneIInv => SceneInv
  BY DEF SceneIInv, Typed, SceneInv
<1> QED BY <1>1, SceneReachable, PTL

(* Server::OnMessage: whatever the queues hold, the server is told of a ship   *)
(* once, before all updates of it and after it made the grid, so it never has  *)
(* to ask a client for anything.                                               *)
THEOREM ServerNeverAsks == Spec => []ServerKnows
<1>1. SceneIInv => ServerKnows
  <2> SUFFICES ASSUME SceneIInv, NEW c \in Clients
               PROVE  /\ From(c, "Post") => grid[Server] /\ Head(toServer[c]).of \notin DOMAIN things[Server]
                      /\ From(c, "Update") => grid[Server] /\ Head(toServer[c]).of \in DOMAIN things[Server]
    BY DEF ServerKnows
  <2>1. From(c, "Post") => grid[Server] /\ Head(toServer[c]).of \notin DOMAIN things[Server]
    <3>1. Post(c).of = c
      BY DEF Post
    <3> QED BY <3>1, FrontIsOwn
  <2>2. From(c, "Update") => grid[Server] /\ Head(toServer[c]).of \in DOMAIN things[Server]
    <3>1. \A m : Update(c, m).of = c
      BY DEF Update
    <3> QED BY <3>1, FrontIsOwn
  <2> QED BY <2>1, <2>2
<1> QED BY <1>1, SceneReachable, PTL

(* GameStructs.hpp: the ship that a player steers is ahead of all its copies,  *)
(* at the server and at every other player, and a copy with as many course     *)
(* changes shows the same motion.                                              *)
THEOREM OwnersLead == Spec => []OwnerLeads
<1>1. SceneIInv => OwnerLeads
  <2> SUFFICES ASSUME SceneIInv, NEW n \in Nodes, NEW o \in DOMAIN things[n]
               PROVE  /\ o \in DOMAIN things[Process[o]]
                      /\ link[o] = "on" => Behind(o, things[n][o])
    BY DEF OwnerLeads, Behind
  <2>1. o \in Clients /\ o \in DOMAIN things[Process[o]]
    BY CopyTypes
  <2> QED BY <2>1 DEF SceneIInv, Copies, CopyInv
<1> QED BY <1>1, SceneReachable, PTL

(* Server::OnMessage and Client::OnMessage: no step sets a copy of a ship back *)
(* to an earlier motion of it, whichever posts and updates are still under     *)
(* way, but the ship of a game that its player has left.                       *)
THEOREM NothingGoesBack == Spec => NeverBack
<1>1. SceneIInv /\ [Next]_vars =>
        [\A n \in Nodes : \A o \in DOMAIN things[n] :
           /\ o \in DOMAIN things'[n]
           /\ n # Process[o] \/ link[o] = "on" => things'[n][o].n >= things[n][o].n]_vars
  <2> SUFFICES ASSUME SceneIInv, NEW c \in Clients, Acts(c) \/ Serves(c) \/ Takes(c),
                      NEW n \in Nodes, NEW o \in DOMAIN things[n]
               PROVE  /\ o \in DOMAIN things'[n]
                      /\ n # Process[o] \/ link[o] = "on" => things'[n][o].n >= things[n][o].n
    BY DEF Next
  <2> QED BY CopiesGrow
<1> QED BY <1>1, SceneReachable, PTL DEF Spec, NeverBack
================================================================================

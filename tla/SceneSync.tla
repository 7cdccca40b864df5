-------------------------------- MODULE SceneSync --------------------------------
(* How the server and the clients of a game keep their copies of one grid      *)
(* alike: SceneManager on both sides, Server::OnMessage, Client::run and       *)
(* Client::OnMessage.  Each client has one ship, which only he steers; the     *)
(* server keeps a copy of every ship and passes on what it is told.            *)
(*                                                                             *)
(* A Client is made for one game.  SceneManager::grids belongs to the process: *)
(* a player who comes back for another game finds the grid as he left it, with *)
(* the ship of his last game in it, which he no longer steers.                 *)
(*                                                                             *)
(* A connection is a queue in each direction (see Connection) that may break.  *)
(* What a ship is doing (its transform: where it is and how it moves) is       *)
(* abstracted to the number of course changes of its owner and whether it      *)
(* moves.                                                                      *)
EXTENDS Integers, Sequences

CONSTANTS
  Clients,      \* the clients of all games, those of a process numbered as they are
                \* played; a client also names its ship
  Processes,    \* the processes of the players
  Process,      \* [Clients -> Processes]: where the game of a client is played
  Server,
  MaxChanges,   \* bound, [Clients -> Nat]: course changes of a ship
  MaxInFlight   \* bound: messages in a queue when an update or a request is added

ASSUME NodesAssumption ==
  Server \notin Processes /\ Clients \subseteq Nat /\ Process \in [Clients -> Processes]
ASSUME BoundsAssumption == MaxChanges \in [Clients -> Nat] /\ MaxInFlight \in Nat

Nodes == Processes \cup {Server}

VARIABLES
  link,      \* [Clients -> {"off", "on", "down"}]
  stage,     \* [Clients -> ...]: whether the client has entered the grid
  toServer,  \* [Clients -> Seq(message)]
  toClient,  \* [Clients -> Seq(message)]
  grid,      \* [Nodes -> BOOLEAN]: SceneManager::grids has the grid
  things,    \* [Nodes -> ships -> motion]: the objects of Grid::_go_map
  vec        \* [Nodes -> Seq(ships)]: Grid::_go_vec

vars == <<link, stage, toServer, toClient, grid, things, vec>>

Motions == [n : Nat, moving : BOOLEAN]

(* A ship that was just made, by its owner or by GetInstance. *)
Still == [n |-> 0, moving |-> FALSE]

GridRequest == [type |-> "GridRequest"]
GridPost == [type |-> "GridPost"]
Post(o) == [type |-> "Post", of |-> o]
Update(o, m) == [type |-> "Update", of |-> o, motion |-> m]
GridById == [type |-> "GridById"]
RequestById(o) == [type |-> "RequestById", of |-> o]
(* The header of this reply is never filled in: it goes as a finished Ping. *)
Untyped == [type |-> "Ping"]

Put(f, o, v) == [x \in DOMAIN f \cup {o} |-> IF x = o THEN v ELSE f[x]]

Init ==
  /\ link = [c \in Clients |-> "off"]
  /\ stage = [c \in Clients |-> "away"]
  /\ toServer = [c \in Clients |-> <<>>]
  /\ toClient = [c \in Clients |-> <<>>]
  /\ grid = [n \in Nodes |-> FALSE]
  /\ things = [n \in Nodes |-> <<>>]
  /\ vec = [n \in Nodes |-> <<>>]

--------------------------------------------------------------------------------
(* The client's own doing. *)

Earlier(c) == {d \in Clients : Process[d] = Process[c] /\ d < c}

(* The server accepts the connection; Client::run asks for the grid. *)
Join(c) ==
  /\ link[c] = "off" /\ \A d \in Earlier(c) : link[d] = "down"
  /\ link' = [link EXCEPT ![c] = "on"]
  /\ stage' = [stage EXCEPT ![c] = "asked"]
  /\ toServer' = [toServer EXCEPT ![c] = Append(@, GridRequest)]
  /\ UNCHANGED <<toClient, grid, things, vec>>

(* Altered form: the ship is put into the grid and not posted.                 *)
EnterUnposted(c) ==
  /\ stage[c] = "asked" /\ link[c] = "on" /\ grid[Process[c]]
  /\ stage' = [stage EXCEPT ![c] = "in"]
  /\ things' = [things EXCEPT ![Process[c]] = Put(@, c, Still)]
  /\ vec' = [vec EXCEPT ![Process[c]] = Append(@, c)]
  /\ UNCHANGED <<link, toServer, toClient, grid>>

(* The responder that waits for the grid adds the ship and posts it. *)
Enter(c) ==
  /\ stage[c] = "asked" /\ link[c] = "on" /\ grid[Process[c]]
  /\ stage' = [stage EXCEPT ![c] = "in"]
  /\ things' = [things EXCEPT ![Process[c]] = Put(@, c, Still)]
  /\ vec' = [vec EXCEPT ![Process[c]] = Append(@, c)]
  /\ toServer' = [toServer EXCEPT ![c] = Append(@, Post(c))]
  /\ UNCHANGED <<link, toClient, grid>>

Steer(c) ==
  /\ stage[c] = "in" /\ link[c] = "on" /\ things[Process[c]][c].n < MaxChanges[c]
  /\ \E moving \in BOOLEAN :
       things' = [things EXCEPT ![Process[c]][c] = [n |-> @.n + 1, moving |-> moving]]
  /\ UNCHANGED <<link, stage, toServer, toClient, grid, vec>>

(* processGrid: FixedUpdate of a ship that moves asks for the transform to be  *)
(* sent, and the client sends what it is asked to of its own ship.             *)
FixedUpdate(c) ==
  /\ stage[c] = "in" /\ link[c] = "on" /\ things[Process[c]][c].moving
  /\ Len(toServer[c]) < MaxInFlight
  /\ toServer' = [toServer EXCEPT ![c] = Append(@, Update(c, things[Process[c]][c]))]
  /\ UNCHANGED <<link, stage, toClient, grid, things, vec>>

(* The connection is lost, with what the client was sent and with the last of  *)
(* what it sent.  The server keeps the ship.                                   *)
Leave(c) ==
  /\ link[c] = "on"
  /\ link' = [link EXCEPT ![c] = "down"]
  /\ toClient' = [toClient EXCEPT ![c] = <<>>]
  /\ \E k \in 0..Len(toServer[c]) : toServer' = [toServer EXCEPT ![c] = SubSeq(@, 1, k)]
  /\ UNCHANGED <<stage, grid, things, vec>>

--------------------------------------------------------------------------------
(* Server::OnMessage. *)

From(c, type) == toServer[c] # <<>> /\ Head(toServer[c]).type = type

Answer(c, m) == IF link[c] = "on" THEN [toClient EXCEPT ![c] = Append(@, m)] ELSE toClient

(* Altered form: the client that a message came from is not left out.          *)
RelayToAll(c, m) ==
  [d \in Clients |-> IF link[d] = "on" THEN Append(toClient[d], m) ELSE toClient[d]]

(* MessageAllClients, the sender left out. *)
Relay(c, m) ==
  [d \in Clients |-> IF d # c /\ link[d] = "on" THEN Append(toClient[d], m) ELSE toClient[d]]

ServeGridRequest(c) ==
  /\ From(c, "GridRequest")
  /\ grid' = [grid EXCEPT ![Server] = TRUE]
  /\ toServer' = [toServer EXCEPT ![c] = Tail(@)]
  /\ toClient' = Answer(c, GridPost)
  /\ UNCHANGED <<link, stage, things, vec>>

(* A posted ship is new to the server. *)
ServePost(c) ==
  /\ From(c, "Post")
  /\ LET m == Head(toServer[c])
     IN  /\ things' = [things EXCEPT ![Server] = Put(@, m.of, Still)]
         /\ vec' = [vec EXCEPT ![Server] = Append(@, m.of)]
         /\ toClient' = Relay(c, m)
  /\ toServer' = [toServer EXCEPT ![c] = Tail(@)]
  /\ UNCHANGED <<link, stage, grid>>

(* ApplyUpdate, if the server has the ship; what it asks for otherwise would   *)
(* be an error at the client (see ServerKnows).                                *)
ServeUpdate(c) ==
  /\ From(c, "Update") /\ Head(toServer[c]).of \in DOMAIN things[Server]
  /\ \A d \in Clients \ {c} : Len(toClient[d]) < MaxInFlight
  /\ LET m == Head(toServer[c])
     IN  /\ things' = [things EXCEPT ![Server][m.of] = m.motion]
         /\ toClient' = Relay(c, m)
  /\ toServer' = [toServer EXCEPT ![c] = Tail(@)]
  /\ UNCHANGED <<link, stage, grid, vec>>

(* Altered form: the request goes on to the clients.                           *)
PassesRequestOn(c) ==
  /\ From(c, "RequestById") \/ From(c, "GridById")
  /\ toClient' = Relay(c, Head(toServer[c]))
  /\ toServer' = [toServer EXCEPT ![c] = Tail(@)]
  /\ UNCHANGED <<link, stage, grid, things, vec>>

ServeRequest(c) ==
  /\ From(c, "RequestById") \/ From(c, "GridById")
  /\ LET m == Head(toServer[c])
     IN  toClient' = CASE m.type = "GridById" -> Answer(c, GridPost)
                       [] m.type = "RequestById" -> IF m.of \in DOMAIN things[Server]
                                                      THEN Answer(c, Post(m.of))
                                                      ELSE toClient
  /\ toServer' = [toServer EXCEPT ![c] = Tail(@)]
  /\ UNCHANGED <<link, stage, grid, things, vec>>

(* A finished ping: its time is noted. *)
ServePing(c) ==
  /\ From(c, "Ping")
  /\ toServer' = [toServer EXCEPT ![c] = Tail(@)]
  /\ UNCHANGED <<link, stage, toClient, grid, things, vec>>

--------------------------------------------------------------------------------
(* Client::OnMessage. *)

Gets(c, type) == link[c] = "on" /\ toClient[c] # <<>> /\ Head(toClient[c]).type = type

TakeGrid(c) ==
  /\ Gets(c, "GridPost")
  /\ grid' = [grid EXCEPT ![Process[c]] = TRUE]
  /\ toClient' = [toClient EXCEPT ![c] = Tail(@)]
  /\ UNCHANGED <<link, stage, toServer, things, vec>>

(* Altered form: an object that is already there is replaced.                  *)
PostReplaces(c) ==
  /\ Gets(c, "Post") /\ grid[Process[c]]
  /\ LET o == Head(toClient[c]).of
     IN  /\ things' = [things EXCEPT ![Process[c]] = Put(@, o, Still)]
         /\ vec' = [vec EXCEPT ![Process[c]] = Append(@, o)]
  /\ toClient' = [toClient EXCEPT ![c] = Tail(@)]
  /\ UNCHANGED <<link, stage, toServer, grid>>

(* Altered form: only the list for drawing gets the object.                    *)
PostNotIndexed(c) ==
  /\ Gets(c, "Post") /\ grid[Process[c]]
  /\ vec' = [vec EXCEPT ![Process[c]] = Append(@, Head(toClient[c]).of)]
  /\ toClient' = [toClient EXCEPT ![c] = Tail(@)]
  /\ UNCHANGED <<link, stage, toServer, grid, things>>

(* A post brings no transform: a ship that is new starts still, one that is    *)
(* there keeps its motion.  Either way it is added to the grid.                *)
TakePost(c) ==
  /\ Gets(c, "Post") /\ grid[Process[c]]
  /\ LET o == Head(toClient[c]).of
     IN  /\ things' = IF o \in DOMAIN things[Process[c]]
                    THEN things ELSE [things EXCEPT ![Process[c]] = Put(@, o, Still)]
         /\ vec' = [vec EXCEPT ![Process[c]] = Append(@, o)]
  /\ toClient' = [toClient EXCEPT ![c] = Tail(@)]
  /\ UNCHANGED <<link, stage, toServer, grid>>

(* Without the grid the post is dropped and the reply has no type. *)
DropPost(c) ==
  /\ Gets(c, "Post") /\ ~grid[Process[c]]
  /\ toServer' = [toServer EXCEPT ![c] = Append(@, Untyped)]
  /\ toClient' = [toClient EXCEPT ![c] = Tail(@)]
  /\ UNCHANGED <<link, stage, grid, things, vec>>

TakeUpdate(c) ==
  /\ Gets(c, "Update") /\ grid[Process[c]] /\ Head(toClient[c]).of \in DOMAIN things[Process[c]]
  /\ things' = [things EXCEPT ![Process[c]][Head(toClient[c]).of] = Head(toClient[c]).motion]
  /\ toClient' = [toClient EXCEPT ![c] = Tail(@)]
  /\ UNCHANGED <<link, stage, toServer, grid, vec>>

(* Altered form: what is missing is not asked for.                             *)
IgnoresMissing(c) ==
  /\ Gets(c, "Update") /\ grid[Process[c]] /\ Head(toClient[c]).of \notin DOMAIN things[Process[c]]
  /\ toClient' = [toClient EXCEPT ![c] = Tail(@)]
  /\ UNCHANGED <<link, stage, toServer, grid, things, vec>>

AskForShip(c) ==
  /\ Gets(c, "Update") /\ grid[Process[c]] /\ Head(toClient[c]).of \notin DOMAIN things[Process[c]]
  /\ Len(toServer[c]) < MaxInFlight
  /\ toServer' = [toServer EXCEPT ![c] = Append(@, RequestById(Head(toClient[c]).of))]
  /\ toClient' = [toClient EXCEPT ![c] = Tail(@)]
  /\ UNCHANGED <<link, stage, grid, things, vec>>

(* Without the grid the grid is asked for, unless it was a moment ago.         *)
AskForGrid(c) ==
  /\ Gets(c, "Update") /\ ~grid[Process[c]]
  /\ \/ Len(toServer[c]) < MaxInFlight
        /\ toServer' = [toServer EXCEPT ![c] = Append(@, GridById)]
     \/ UNCHANGED toServer
  /\ toClient' = [toClient EXCEPT ![c] = Tail(@)]
  /\ UNCHANGED <<link, stage, grid, things, vec>>

--------------------------------------------------------------------------------
Acts(c) == Join(c) \/ Enter(c) \/ Steer(c) \/ FixedUpdate(c) \/ Leave(c)

Serves(c) ==
  ServeGridRequest(c) \/ ServePost(c) \/ ServeUpdate(c) \/ ServeRequest(c) \/ ServePing(c)

Takes(c) ==
  TakeGrid(c) \/ TakePost(c) \/ DropPost(c) \/ TakeUpdate(c) \/ AskForShip(c) \/ AskForGrid(c)

Next == \E c \in Clients : Acts(c) \/ Serves(c) \/ Takes(c)

(* The loops of the server and of each process go round, and the ship that is  *)
(* steered there gets its fixed updates.  The queues of the code have no       *)
(* limit, so what the bound on them disables for a while is in turn again and  *)
(* again: the fairness is strong.                                              *)
Games(p) == {c \in Clients : Process[c] = p}

Fairness ==
  \A p \in Processes :
    /\ WF_vars(\E c \in Games(p) : Enter(c))
    /\ SF_vars(\E c \in Games(p) : FixedUpdate(c))
    /\ SF_vars(\E c \in Games(p) : Serves(c))
    /\ SF_vars(\E c \in Games(p) : Takes(c))

Spec == Init /\ [][Next]_vars /\ Fairness

--------------------------------------------------------------------------------
(* Properties. *)

ServerMessages ==
  {GridRequest, GridById, Untyped}
    \cup [type : {"Post", "RequestById"}, of : Clients]
    \cup [type : {"Update"}, of : Clients, motion : Motions]

ClientMessages ==
  {GridPost} \cup [type : {"Post"}, of : Clients]
             \cup [type : {"Update"}, of : Clients, motion : Motions]

(* Every variable keeps its type; a client is never sent a request, to which   *)
(* Client::OnMessage has no answer but assert(false).                          *)
TypeOK ==
  /\ link \in [Clients -> {"off", "on", "down"}]
  /\ stage \in [Clients -> {"away", "asked", "in"}]
  /\ toServer \in [Clients -> Seq(ServerMessages)]
  /\ toClient \in [Clients -> Seq(ClientMessages)]
  /\ grid \in [Nodes -> BOOLEAN]
  /\ \A n \in Nodes : /\ DOMAIN things[n] \subseteq Clients
                      /\ \A o \in DOMAIN things[n] : things[n][o] \in Motions
  /\ vec \in [Nodes -> Seq(Clients)]

(* The server is never told of a ship or a grid that it does not have: it has  *)
(* the grid before any post and the ship before any update, so it never sends  *)
(* a client a request of its own.                                              *)
ServerKnows ==
  \A c \in Clients :
    /\ From(c, "Post") => grid[Server] /\ Head(toServer[c]).of \notin DOMAIN things[Server]
    /\ From(c, "Update") => grid[Server] /\ Head(toServer[c]).of \in DOMAIN things[Server]

(* Grid.hpp, "hybrid approach, objs are stored in both a map and vector": the  *)
(* two hold the same objects.                                                  *)
Indexed == \A n \in Nodes : {vec[n][i] : i \in DOMAIN vec[n]} = DOMAIN things[n]

(* The state of the scenes is well formed, in each of its two containers.      *)
SceneInv == TypeOK /\ Indexed

(* A copy never goes back to an earlier motion of its ship: neither a late     *)
(* post nor an update that waited sets it back, nor does another game.  (Only  *)
(* the ship of a player's last game may: the server passes what it was still   *)
(* told of it on to his new client.)                                           *)
NeverBack ==
  [][\A n \in Nodes : \A o \in DOMAIN things[n] :
        /\ o \in DOMAIN things'[n]
        /\ n # Process[o] \/ link[o] = "on" => things'[n][o].n >= things[n][o].n]_vars

Own(c) == things[Process[c]][c]

(* Nothing that comes over the network changes the own ship of a client in the *)
(* game: what a copy shows is what the owner's ship did, and the ship is ahead *)
(* of it.                                                                      *)
OwnerLeads ==
  \A n \in Nodes : \A o \in DOMAIN things[n] :
    /\ o \in DOMAIN things[Process[o]]
    /\ link[o] = "on" =>
         /\ things[n][o].n <= Own(o).n
         /\ things[n][o].n = Own(o).n => things[n][o] = Own(o)

Settled(c, moving) ==
  stage[c] = "in" /\ Own(c).n = MaxChanges[c] /\ Own(c).moving = moving

Apart(c, d) == link[c] # "on" \/ link[d] # "on"

Elsewhere(c) == {d \in Clients : Process[d] # Process[c]}

Seen(c, d) == c \in DOMAIN things[Process[d]]

Alike(c, d) == Seen(c, d) /\ things[Process[d]][c] = Own(c)

ShownMoving(c, d) == Seen(c, d) /\ things[Process[d]][c].moving

(* A ship that moves on without a change is seen by every other client in the  *)
(* grid as it moves, also by one that joined late or missed its post.          *)
MovingSeen ==
  \A c \in Clients : \A d \in Elsewhere(c) :
    Settled(c, TRUE) /\ stage[d] = "in" ~> Alike(c, d) \/ Apart(c, d)

(* README.md, "instance synching across a network connection": a client that   *)
(* has seen a ship move sees it stop.                                          *)
StopsSeen ==
  \A c \in Clients : \A d \in Elsewhere(c) :
    Settled(c, FALSE) /\ ShownMoving(c, d) ~> ~ShownMoving(c, d) \/ Apart(c, d)

(* Grid.hpp: AddObject "overwrites existing if it exists".                     *)
NoDuplicates ==
  \A n \in Nodes : \A i, j \in DOMAIN vec[n] : vec[n][i] = vec[n][j] => i = j
=================================================================================

------------------------------ MODULE IdAllocation ------------------------------
(* The "partitioning based instance id system" (README.md): how a QueueClient  *)
(* asks a Server for an IDPartition, how every process draws instance ids from *)
(* IDPartition::LOCAL_PARITION, and in which scene those ids end up.           *)
(*                                                                             *)
(* LOCAL_PARITION and isReady live as long as the process, so they outlast a   *)
(* game and the server it was played on.  A restarted server is another one.   *)
EXTENDS Integers, Sequences

CONSTANTS
  Servers, Clients, NoServer,
  Size,         \* STD_PARTITION_SIZE
  IntMax,       \* the largest int
  IdCount,      \* how many values an Instance_Id has
  MaxRequests,  \* bound: requests of a client
  MaxGrants,    \* bound: partitions a server hands out
  MaxSessions   \* bound: games a client starts

ASSUME SizeAssumption == Size \in Nat \ {0, 1}
ASSUME WidthAssumption == /\ IntMax \in Nat /\ Size <= IntMax
                         /\ IdCount \in Nat /\ IdCount > 2 * (IntMax + 1)
ASSUME BoundsAssumption == MaxRequests \in Nat /\ MaxGrants \in Nat /\ MaxSessions \in Nat
ASSUME ProcessesAssumption == Servers \cap Clients = {} /\ NoServer \notin Servers

VARIABLES
  partitionCounter,  \* [Servers -> Nat]: the static of Server::OnMessage
  local,             \* [process -> partition]: IDPartition::LOCAL_PARITION
  phase,             \* [Clients -> ...]: where QueueClient::run is
  isReady,           \* [Clients -> BOOLEAN]: QueueClient::isReady
  server,            \* [Clients -> Servers or NoServer]: the server entered last
  asked,             \* [Clients -> Nat]: requests sent so far
  requests,          \* [Clients -> Seq(Servers)]: requests not yet handled
  replies,           \* [Clients -> Seq(partition)]: answers not yet handled
  sessions,          \* [Clients -> Nat]: games started
  ship,              \* [Clients -> Nat]: the id of the ship of the last game
  grid,              \* [Servers -> Nat]: the id of the grid at {0,0}, or BAD_ID
  ships,             \* [Servers -> set]: the ships of the server's scene
  granted            \* history: every partition handed out

vars == <<partitionCounter, local, phase, isReady, server, asked, requests, replies,
          sessions, ship, grid, ships, granted>>

BadId == 0

Partition(min, max, nxt) == [min |-> min, max |-> max, nxt |-> nxt]

IsBad(part) == part.nxt < part.min \/ part.nxt > part.max

(* getNext: nothing stops it at max. *)
Advance(part) == [part EXCEPT !.nxt = (@ + 1) % IdCount]

(* An int product that does not fit, turned into an Instance_Id. *)
Wrapped(x) ==
  LET i == x % (2 * (IntMax + 1))
  IN  IF i <= IntMax THEN i ELSE i + IdCount - 2 * (IntMax + 1)

(* Altered form: the first partition handed out is the server's own.           *)
MinsFromZero(n) == {(n - 1) * Size}

(* partitionCounter * STD_PARTITION_SIZE is an int product: past IntMax it is  *)
(* undefined, and a build computes it in 32 bits or in 64.                     *)
Mins(n) == IF n * Size <= IntMax THEN {n * Size}
                                      ELSE {(n * Size) % IdCount, Wrapped(n * Size)}

Init ==
  /\ partitionCounter = [s \in Servers |-> 1]
  /\ local = [p \in Servers \cup Clients |->
                IF p \in Servers THEN Partition(BadId + 1, Size - 1, BadId + 1)
                                 ELSE Partition(0, 0, 1)]
  /\ phase = [c \in Clients |-> "prompt"]
  /\ isReady = [c \in Clients |-> FALSE]
  /\ server = [c \in Clients |-> NoServer]
  /\ asked = [c \in Clients |-> 0]
  /\ requests = [c \in Clients |-> <<>>]
  /\ replies = [c \in Clients |-> <<>>]
  /\ sessions = [c \in Clients |-> 0]
  /\ ship = [c \in Clients |-> BadId]
  /\ grid = [s \in Servers |-> BadId]
  /\ ships = [s \in Servers |-> {}]
  /\ granted = {}

--------------------------------------------------------------------------------
(* Altered form: the connection to the server named is not kept.               *)
JoinsNowhere(c, s) ==
  /\ phase[c] = "prompt"
  /\ phase' = [phase EXCEPT ![c] = IF isReady[c] THEN "starting" ELSE "waiting"]
  /\ UNCHANGED <<partitionCounter, local, isReady, server, asked, requests, replies, sessions, ship,
                 grid, ships, granted>>

(* The user names a server.  A client that once was ready does not wait again. *)
Join(c, s) ==
  /\ phase[c] = "prompt"
  /\ phase' = [phase EXCEPT ![c] = IF isReady[c] THEN "starting" ELSE "waiting"]
  /\ server' = [server EXCEPT ![c] = s]
  /\ UNCHANGED <<partitionCounter, local, isReady, asked, requests, replies, sessions, ship,
                 grid, ships, granted>>

(* Altered form: it asks when its partition is good. *)
AsksWhenGood(c) ==
  /\ phase[c] = "waiting" /\ ~isReady[c] /\ ~IsBad(local[c])
  /\ asked[c] < MaxRequests
  /\ asked' = [asked EXCEPT ![c] = @ + 1]
  /\ requests' = [requests EXCEPT ![c] = Append(@, server[c])]
  /\ UNCHANGED <<partitionCounter, local, phase, isReady, server, replies, sessions, ship,
                 grid, ships, granted>>

(* Every hundredth turn of the waiting loop asks, again if need be. *)
AskPartition(c) ==
  /\ phase[c] = "waiting" /\ ~isReady[c] /\ IsBad(local[c])
  /\ asked[c] < MaxRequests
  /\ asked' = [asked EXCEPT ![c] = @ + 1]
  /\ requests' = [requests EXCEPT ![c] = Append(@, server[c])]
  /\ UNCHANGED <<partitionCounter, local, phase, isReady, server, replies, sessions, ship,
                 grid, ships, granted>>

(* Altered form: the counter is only advanced for a client that is new.        *)
GrantsAgain(s, c) ==
  /\ requests[c] # <<>> /\ Head(requests[c]) = s
  /\ \E min \in Mins(partitionCounter[s]) :
       LET part == Partition(min, (min + Size - 1) % IdCount, min)
       IN  /\ replies' = [replies EXCEPT ![c] = Append(@, part)]
           /\ granted' = granted \cup
                {[server |-> s, client |-> c, n |-> partitionCounter[s], part |-> part]}
  /\ partitionCounter' = [partitionCounter EXCEPT ![s] = IF c \in {g.client : g \in granted}
                                                           THEN @ + 1 ELSE @]
  /\ requests' = [requests EXCEPT ![c] = Tail(@)]
  /\ UNCHANGED <<local, phase, isReady, server, asked, sessions, ship, grid, ships>>

(* The IDPartition case of Server::OnMessage. *)
GrantPartition(s, c) ==
  /\ requests[c] # <<>> /\ Head(requests[c]) = s
  /\ partitionCounter[s] <= MaxGrants
  /\ \E min \in Mins(partitionCounter[s]) :
       LET part == Partition(min, (min + Size - 1) % IdCount, min)
       IN  /\ replies' = [replies EXCEPT ![c] = Append(@, part)]
           /\ granted' = granted \cup
                {[server |-> s, client |-> c, n |-> partitionCounter[s], part |-> part]}
  /\ partitionCounter' = [partitionCounter EXCEPT ![s] = @ + 1]
  /\ requests' = [requests EXCEPT ![c] = Tail(@)]
  /\ UNCHANGED <<local, phase, isReady, server, asked, sessions, ship, grid, ships>>

(* Altered form: the client is ready before it has its partition.              *)
ReadyTooSoon(c) ==
  /\ phase[c] = "waiting" /\ requests[c] # <<>>
  /\ isReady' = [isReady EXCEPT ![c] = TRUE]
  /\ UNCHANGED <<partitionCounter, local, phase, server, asked, requests, replies, sessions, ship,
                 grid, ships, granted>>

(* QueueClient::OnMessage.  One Update may take several answers to one client. *)
TakePartition(c) ==
  /\ phase[c] = "waiting" /\ replies[c] # <<>>
  /\ local' = [local EXCEPT ![c] = Head(replies[c])]
  /\ isReady' = [isReady EXCEPT ![c] = TRUE]
  /\ replies' = [replies EXCEPT ![c] = Tail(@)]
  /\ UNCHANGED <<partitionCounter, phase, server, asked, requests, sessions, ship, grid, ships,
                 granted>>

(* startGame: the new Client draws the id of its ship, then connects.  When it *)
(* cannot, run is entered again while the old connection's thread still runs,  *)
(* and this process never plays again.                                         *)
StartGame(c) ==
  /\ phase[c] = "starting" \/ (phase[c] = "waiting" /\ isReady[c])
  /\ sessions[c] < MaxSessions
  /\ \E reached \in {"playing", "ended"} : phase' = [phase EXCEPT ![c] = reached]
  /\ ship' = [ship EXCEPT ![c] = local[c].nxt]
  /\ local' = [local EXCEPT ![c] = Advance(@)]
  /\ sessions' = [sessions EXCEPT ![c] = @ + 1]
  /\ UNCHANGED <<partitionCounter, isReady, server, asked, requests, replies, grid, ships, granted>>

(* The GridRequest case of Server::OnMessage: GetGrid makes the grid it lacks. *)
ServeGrid(c) ==
  /\ phase[c] = "playing"
  /\ LET s == server[c]
     IN  IF grid[s] = BadId
           THEN /\ grid' = [grid EXCEPT ![s] = local[s].nxt]
                /\ local' = [local EXCEPT ![s] = Advance(@)]
           ELSE UNCHANGED <<grid, local>>
  /\ phase' = [phase EXCEPT ![c] = "placed"]
  /\ UNCHANGED <<partitionCounter, isReady, server, asked, requests, replies, sessions, ship,
                 ships, granted>>

(* The client's ship is posted and joins the scene; it stays when he leaves.   *)
PostShip(c) ==
  /\ phase[c] = "placed"
  /\ ships' = [ships EXCEPT ![server[c]] =
                 @ \cup {[id |-> ship[c], client |-> c, session |-> sessions[c]]}]
  /\ phase' = [phase EXCEPT ![c] = "present"]
  /\ UNCHANGED <<partitionCounter, local, isReady, server, asked, requests, replies, sessions,
                 ship, grid, granted>>

(* Client::run returns and the user is asked for a server again. *)
Quit(c) ==
  /\ phase[c] \in {"playing", "placed", "present"}
  /\ phase' = [phase EXCEPT ![c] = "prompt"]
  /\ UNCHANGED <<partitionCounter, local, isReady, server, asked, requests, replies, sessions,
                 ship, grid, ships, granted>>

Next ==
  \E c \in Clients :
    \/ \E s \in Servers : Join(c, s) \/ GrantPartition(s, c)
    \/ AskPartition(c) \/ TakePartition(c) \/ StartGame(c)
    \/ ServeGrid(c) \/ PostShip(c) \/ Quit(c)

(* The waiting loop asks and reads until it is ready, and servers answer.      *)
Fairness ==
  \A c \in Clients :
    /\ WF_vars(AskPartition(c)) /\ WF_vars(TakePartition(c)) /\ WF_vars(StartGame(c))
    /\ WF_vars(\E s \in Servers : GrantPartition(s, c))

Spec == Init /\ [][Next]_vars /\ Fairness

--------------------------------------------------------------------------------
(* Properties. *)

Ids == 0..IdCount-1
Partitions == [min : Ids, max : Ids, nxt : Ids]
Phases == {"prompt", "waiting", "starting", "playing", "placed", "present", "ended"}
Grants == [server : Servers, client : Clients, n : Nat, part : Partitions]
Ships == [id : Ids, client : Clients, session : Nat]

(* Every variable keeps its type, the width of an Instance_Id included.        *)
TypeOK ==
  /\ partitionCounter \in [Servers -> Nat]
  /\ local \in [Servers \cup Clients -> Partitions]
  /\ phase \in [Clients -> Phases]
  /\ isReady \in [Clients -> BOOLEAN]
  /\ server \in [Clients -> Servers \cup {NoServer}]
  /\ \A c \in Clients : phase[c] \notin {"prompt", "ended"} => server[c] \in Servers
  /\ asked \in [Clients -> Nat]
  /\ requests \in [Clients -> Seq(Servers)]
  /\ replies \in [Clients -> Seq(Partitions)]
  /\ sessions \in [Clients -> Nat]
  /\ ship \in [Clients -> Ids]
  /\ grid \in [Servers -> Ids]
  /\ ships \in [Servers -> SUBSET Ships]
  /\ granted \subseteq Grants

Holds(part, id) == part.min <= id /\ id <= part.max

(* withinRange of the two partitions never holds for the same id. *)
Disjoint(p, q) == \A id \in Ids : ~(Holds(p, id) /\ Holds(q, id))

(* The partitions that one server hands out, answers to retried requests too,  *)
(* are disjoint from each other and from the one it keeps for its own grids.   *)
GrantsDisjoint ==
  \A g \in granted :
    /\ Disjoint(g.part, local[g.server])
    /\ \A h \in granted : g.server = h.server /\ g # h => Disjoint(g.part, h.part)

(* A ship in a scene carries an id of a partition some server gave its client, *)
(* never one of the partition that LOCAL_PARITION holds before an answer.      *)
OwnIds ==
  \A s \in Servers : \A o \in ships[s] :
    \E g \in granted : g.client = o.client /\ Holds(g.part, o.id)

(* processMessage(GameObjectPost): no two objects of a scene have the same id. *)
NoIdConflict ==
  \A s \in Servers : \A o \in ships[s] :
    /\ o.id \notin {BadId, grid[s]}
    /\ \A q \in ships[s] : o.id = q.id => o = q

(* A client that waits for a partition is let into a game in the end, unless   *)
(* its server is past the bound on partitions.                                 *)
Admitted ==
  \A c \in Clients :
    phase[c] = "waiting" ~>
      phase[c] # "waiting" \/ \E s \in Servers : partitionCounter[s] > MaxGrants

--------------------------------------------------------------------------------
(* The inductive invariant, for partitions that an int can number and clients  *)
(* that start no more games than their partition has ids.                      *)

NoOverflow == (MaxGrants + 1) * Size <= IntMax
NoOverrun == MaxSessions <= Size

Part(n) == Partition(n * Size, n * Size + Size - 1, n * Size)

(* The n-th grant of a server is the n-th part of the ids, and made once.      *)
Numbered ==
  /\ \A s \in Servers : partitionCounter[s] \in 1..MaxGrants+1
  /\ \A g \in granted :
       /\ g.part = Part(g.n)
       /\ 1 <= g.n /\ g.n < partitionCounter[g.server]
       /\ \A h \in granted : g.server = h.server /\ g.n = h.n => g = h

(* The server draws one id, for its grid. *)
ServerDraws ==
  \A s \in Servers :
    /\ local[s].min = 1 /\ local[s].max = Size - 1
    /\ grid[s] = BadId => local[s].nxt = 1
    /\ grid[s] # BadId => grid[s] = 1

Answered ==
  \A c \in Clients : \A i \in DOMAIN replies[c] :
    \E g \in granted : g.client = c /\ g.part = replies[c][i]

(* A client is ready exactly from its first answer on, and after its first     *)
(* game it takes no other partition.                                           *)
ClientDraws ==
  \A c \in Clients :
    /\ sessions[c] <= MaxSessions
    /\ phase[c] \notin {"prompt", "waiting"} => isReady[c]
    /\ phase[c] = "waiting" => sessions[c] = 0
    /\ ~isReady[c] => sessions[c] = 0
    /\ isReady[c] => \E g \in granted : /\ g.client = c
                                       /\ local[c].min = g.part.min
                                       /\ local[c].nxt = g.part.min + sessions[c]
    /\ phase[c] \in {"playing", "placed", "present"} =>
         sessions[c] >= 1 /\ ship[c] = local[c].min + sessions[c] - 1

ShipsNumbered ==
  \A s \in Servers : \A o \in ships[s] :
    /\ isReady[o.client]
    /\ 1 <= o.session /\ o.session <= sessions[o.client]
    /\ o.id = local[o.client].min + o.session - 1

IInv == TypeOK /\ Numbered /\ ServerDraws /\ Answered /\ ClientDraws /\ ShipsNumbered
=================================================================================

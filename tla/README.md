# eools: a model of the multi-user terminal game

eools is a client/server game that runs in terminals. A **Server** process
accepts TCP connections and keeps a scene; a **QueueClient** connects, waits
until the server has given it a range of instance ids, and then starts a
**Client**, which opens a second connection and plays. What a player does to his
ship is sent to the server, which passes it on to the other clients.

This directory holds TLA+ modules for that program, first of all for the parts
where several actors meet, the TLC configurations that check them on small
instances, and TLAPS proofs of theorems about them for all sizes. Line numbers refer to the
source tree; `PROJECT.json` maps every definition to the lines it stands for.

## 1. The system

### Components, their state and their operations

| component | state | operations | modelled in |
|---|---|---|---|
| `net::connection` (net_conneciton.hpp, net_tsqueue.hpp) | socket, `m_qMessagesOut`, `m_msgBuffIn`, the shared `m_qMessagesIn`, operations that asio has under way | `Send`, `Disconnect`, `ConnectToServer/Client`, the chains `WriteHeader/WriteBody` and `ReadHeader/ReadBody` | Connection |
| `client_interface` (net_client.hpp) | io_context, its thread, one connection at a time | `Connect`, `Disconnect`, `Send`, `Update` | Connection (one life), Session (one after the other) |
| `server_interface` (net_server.hpp) | deque of connections with its mutex, id counter, message queue | accept handler, `MessageClient`, `MessageAllClients`, `Update` | ServerHub |
| `Server` (Server.cpp) | blacklist, `connectionStatus`, message list on the screen, `renderMutex`, partition counter | `onClientConnect/Disconnect`, `OnMessage`, buttons, panes | ServerHub (threads), IdAllocation (partitions), SceneSync (grid messages) |
| `QueueClient` | `isReady`, address, screen thread | connection prompt, waiting loop, `startGame` | Session, IdAllocation |
| `IDPartition` (NetMessageType.*) | the process-wide `LOCAL_PARITION` | `getNext`, `IsBad` | IdAllocation |
| `Client` (Client.cpp) | current grid, ship, responders, input controllers, windows, selection, camera | `run`, `OnMessage`, mouse and keys | SceneSync (network side), Gestures, Windows, Inspection, Chat, Camera |
| `SceneManager` | process-wide `grids` | `POST`, `UPDATE`, `processMessage`, `processGrid` | SceneSync, Codec |
| `Grid` | a vector and a map of the same objects | `AddObject`, `FindObject`, `ObjectAt`, `ObjectsWithin` | SceneSync, Geometry |
| `GameObject`, `Ship` | transform, message flag, power plant, drive, pattern | `Update`, `FixedUpdate`, pack, unpack | SceneSync, ShipMotion, Codec |
| message codec (net_message.hpp, NetMessageType.*) | bytes of a message | push, pop, arrays, packables | MessageBody, Codec |
| `Events::Observer`, key bindings | listeners by event and argument type | add, invoke, clear, send key | Observer |
| input controllers | a stack of state machines | event, update, finish, force finish | Gestures |
| interfaces | windows, the weak list of them, inspectors, message viewers | open, close, focus, buttons | Windows, Inspection, Chat |
| `Loads` | requests ordered by their least amount | add, remove, distribute | LoadDistribution |
| `Generator`, `PowerBank` | throttle, fuel, charge, cached curve outputs | `update`, setters | PowerPlant |
| navigation, drive train | pattern, target, spin, throttle | `nav_update`, `Update` | ShipMotion |
| geometry (GameStructs, Body) | none | vectors, matrices, rectangles, clicks | Geometry |
| curves, pipes | none | `evaluate`, searches, `passthough` | CurveShapes |
| factories, class ids | class tables filled at start | register, make | ClassRegistry |
| main | the pointer to the application | menu | Session |
| vendored code | | | not modelled |

### Interactions

A process has an asio thread that runs all the handlers of its connections, and
a main thread. A program thread never touches an outgoing queue: `Send` and
`Disconnect` post a handler with `asio::post`. Received messages go the other way
through `m_qMessagesIn`, which has a mutex of its own, and `Update` on the main
thread gives them to `OnMessage`. The server has a third thread for its screen;
its panes and buttons and the other two threads share the deque of connections
and the lists on the screen, under two recursive mutexes.

### What is hard, and the property that answers it

* **Framing and the write pump** (Connection). Header and body are separate
  operations at both ends, sends are posted, and a failure can hit any of them.
  Messages must arrive in order, once, without gaps (`InOrder`), the stream must
  never get out of step (`InStep`), the pump must neither read an empty queue
  (`FrontExists`) nor fall asleep on a queue that is not (`PumpAwake`), and a
  close must be noticed (`CloseSeen`). All of it together: the two ends are a
  FIFO channel (`ImplementsChannel`).
* **Ids across retries, games and servers** (IdAllocation). Requests are repeated
  while an answer is late, the partition outlives the game. Partitions must be
  disjoint (`GrantsDisjoint`), ships must carry ids of their own client
  (`OwnIds`), no id may occur twice (`NoIdConflict`), and a client must get in
  (`Admitted`).
* **Three threads, two mutexes, one deque** (ServerHub). A broadcast walks along
  a deque that others change and erases from it: each connection must get each
  broadcast once (`EachOnce`), nobody may meet a null pointer (`NoNull` in
  `HubInv`), a status must not be lost with another connection (`StatusKept`), and
  the threads must not wait for each other (`OnlyAcceptDeadlocks`, `Handled`;
  `AllHandled` and `ActiveOnly` fail).
* **Copies of a ship** (SceneSync). Posts, updates and requests by id cross each
  other. The server must have what it is told of (`ServerKnows`), copies must
  neither go back nor get ahead of their ship (`NeverBack`, `OwnerLeads`), the two
  containers must agree (`Indexed` in `SceneInv`), and a moving ship must be seen
  (`MovingSeen`; `StopsSeen` and `NoDuplicates` fail). What a message carries depends
  on the order of the owner's changes and of what was packed before, and some changes
  are never sent: the copy must lack these and nothing else (`ShipInStep` in
  `CodecInv`, `Arrives`).
* **Connecting again** (Session). The thread and the io_context of a client are used for
  several connects, the partition for several games. The process must not end by itself
  but for a lost server or a port that cannot be read (`AbortsExplained`), the queue is
  gone through once (`QueuedOnce`), and the waiting must end (`WaitingEnds`).
* **One step late** (Gestures, Windows, Inspection, Chat, Camera). A callback of the
  screen library hardly ever acts: it queues a responder for the main loop, or
  leaves a flag that the next event reads. Until then the stack of controllers,
  the windows, the selection or the text may be others. What has finished must be
  taken down (`FinishedOnTop`), only a line that was begun and ended may steer
  (`WholeGesture`), no responder may outlive what it points to
  (`RespondersAlive`), ">" must reach every object (`NextReachesAll`), a window
  that lost its content must go (`EmptySwept`) and the options with the focus
  (`OptionsGo`), each character must be told once (`ToldOnce`) and none sent that was not
  told (`SentWasTold`), and the point below the mouse must stay there (`PointKept`).
* **Listeners of a game that was left** (Observer). The observers are static, and the
  client of a game is never destroyed: an event walks along the listeners of every
  game so far, while callbacks add, drop and invoke others and what expired is
  erased. Each that stays must be called once (`Triggered`).
* **Numbers** (ShipMotion, PowerPlant, LoadDistribution, Geometry, CurveShapes).
  Steering must settle (`AlignSettles`) at any rate, although it takes the wrong way
  round now and then; what is stored must have been burned (`NoFreePower`); the loads
  with the least needs must be served first while their owners change what they ask for
  (`LoadsInv`); a click must find what is drawn there (`ClickFinds`).
* **Start-up in no given order** (ClassRegistry). Static members of templates fill
  the tables by which a message names a class (`CurvesMade`, `ObjectsMade`).

`PROJECT.json` lists the hazards with their lines; for each without a property it
says why.

## 2. The modules

### Connection, FifoChannel, MCConnection, ConnectionProofs

`Connection` is one link with both its ends. An asynchronous operation of asio is
a record of the part it works on and its result; it is pending until the kernel
completes it, and then its handler waits for the asio thread. So an action of the
kernel (`KernelWrites`, `KernelReads`, `WriteFails`, `ReadEof`, `ReadFails`) and the
handler that follows (`HeaderWritten`, `MessageWritten`, `HeaderRead`,
`MessageRead`, `WriteError`, `ReadError`) are two steps, between which posted
handlers run. `posted` holds what `Send` and `Disconnect` gave to `asio::post`;
`RunPostedSend` starts the pump when the outgoing queue was empty, as the code
does, whether or not the socket is open, and `WriteRefused` is the write that asio
then fails at once. `link` is the TCP connection: a dial can be refused, an
established connection can be denied by the server. `ctx` is the io_context: it
runs out of work and returns when a client has no operation and no posted handler
left (`RunsOut`), after which what is posted never runs.

A message is its number among those its end sent; `Bodied` says which have a body.
The numbers let the properties speak of order and loss and abstract from
contents. A message with a header and no body skips the body operations at both
ends, as in the code.

`FifoChannel` is what the pair promises: a reliable queue in each direction that
may fail for good. `Connection` implements it under the mapping
`up <- ~Broken` (`ImplementsChannel`).

### IdAllocation, MCIdAllocation, IdAllocationProofs

Servers hand out partitions (`GrantPartition`), clients ask (`AskPartition`, again while
the answer is late), take them (`TakePartition`) and start games (`StartGame`, where the
new Client draws the id of its ship). `ServeGrid` and `PostShip` bring the grid's and
the ship's id into the server's scene. `Quit` ends a game: the process returns to the
prompt, and `local` and `isReady` keep their values, as the statics and members of the
code do. The int product `partitionCounter * STD_PARTITION_SIZE` is `Mins`: past
`IntMax` it is undefined in C++, and the model has both outcomes a build produces (the
wrapped 32-bit value, converted to `Instance_Id`, or the 64-bit product).

### ServerHub, MCServerHub, ServerHubProofs

The threads `asio`, `main` and `ui` with the two mutexes. A critical section that
takes one free mutex and blocks nowhere is a single action; where a thread takes
the second mutex while it holds the first, or does more than one thing under it,
each acquisition has its step:

* accept handler: `Request`, `Approve` (`onClientConnect`, under `renderMutex`),
  `Push` (the deque's mutex is taken and kept), `Announce` (`onEvent` takes
  `renderMutex`), `Deny`;
* `Update` and `OnMessage`: `Answer` and `KeepStatus` are messages that end with
  the sender; `AnswerLost` and `Forget` are `MessageClient` for a connection that
  is gone, with `onClientDisconnect` (`Erase` of the status) before the removal
  from the deque; `TakeRelay`, `BeginRelay`, `RelayNext`, `EndRelay` are
  `MessageAllClients`, one step for each element of the deque, so that a
  connection can break anywhere on the way;
* screen: `OpenPane` and `DrawPane` are the user pane, which locks `renderMutex`
  and then the deque; `Kick`, `BanUser`, `BanExact`, `Unban` are the buttons;
* handlers of connections: `Receive`, `Break`, and `RunClose` for a posted close.

`id`, `nextId`, `status` and `Key` are the connection numbers and the
`connectionStatus` map keyed by an 8-bit `Class_Id`. The history variables
`relayed`, `joinedAt`, `got`, `lost`, `told` are read by properties only.

### SceneSync, MCSceneSync, SceneSyncProofs

Clients with one ship each, the server, one grid, and a FIFO queue in each
direction (what `Connection` proves of a link, and `Leave` for its breaking).
`QueueClient::startGame` makes a `Client` for each game, but
`SceneManager::grids` belongs to the process: `Clients` are the games, `Process`
says whose each is, `Join` waits for the process's earlier games (`Earlier`), and
`grid`, `things` and `vec` are kept per process. So a second game finds the grid
at once, with the ship of the first in it, which nobody steers any more.
Each message type the code sends about the grid is one record; each handler is
one action: `ServeGridRequest`, `ServePost`, `ServeUpdate`, `ServeRequest`,
`ServePing` are the branches of `Server::OnMessage`, `TakeGrid`, `TakePost`,
`DropPost`, `TakeUpdate`, `AskForShip`, `AskForGrid` those of
`SceneManager::processMessage` in the client. `Enter` is the responder that waits
for the grid and then adds and posts the ship; `FixedUpdate` is `processGrid` with
the ship's `FixedUpdate`, which asks for its transform to be sent only while it
moves. A transform is abstracted to the number of course changes its owner has
made and whether it moves: enough to tell old from new and moving from resting.
`things` is the map and `vec` the vector of `Grid`.

Two properties say "while the owner is in the game" for a reason TLC showed: the
server may still be passing on updates of a game that broke off when its player
comes back, and relays them to his new client too, so that process's own copy of
the old ship goes back in time. `NeverBack` and `OwnerLeads` leave out that copy
and no other.

### Session

The thread of main through the menu, the prompt of `QueueClient`, its waiting loop,
`startGame` and back. `conn` is what became of the queue client's connection:
`Connect` finds a thread that still has to be joined and ends the process
(`std::terminate`), or an io_context that was stopped and never restarted, in which
case the socket counts as connected and nothing is sent or comes in. A socket that
was refused counts as open as well. `isReady` survives a game. `port` is what was
typed last: a number, nothing, or what `std::stoi` throws on, which nobody catches
(`PromptThrows`, and `StartThrows` where `startGame` reads it again after a prompt
that returned early). `Menu` has both outcomes of the uninitialised pointer of main;
a server that is chosen runs until it is killed. `Accept`, `Refuse`, `ServerCloses`
and `Answer` are the network and the server; once the thread of the context has
returned, what is asked for is never sent.

### Gestures, Windows, Inspection, Chat, Camera, with MCClientUI and ClientUIProofs

Each is one kind of thing that a player does, as `Client` and its interfaces
handle it.

* **Gestures**: `OnMouse` with the counting of button events, the stack of
  controllers, `Client::run` taking down what has finished (`Turn`) and putting up
  what a button asked for. `Rectangle` is the static controller that every
  selection uses again. A release before the
  grid has come follows a null pointer, and the model stops there (`crashed`).
* **Windows**: the container, the weak list `interfaceWindows`, the focus flags that
  are read one event later, detaching and sweeping, the options by a weak pointer,
  the dialogue for a new window.
* **Inspection**: selected objects, inspectors with an index into them, and the
  buttons, each a responder that runs in a later turn. ">" tries the places of the
  selection from its index on and moves the index as it goes: up to three objects are
  all reached (`NextReachesAll`), of four it shows two (`EveryOther`).
* **Chat**: what is typed at any place of the text and erased again, the return key
  that queues a responder with the bare messager and goes on to the input, the packed
  length that wraps below zero, the bytes an erased or cleared text leaves in its
  buffer, the rows of viewers. The window of the messager may be deleted with
  responders waiting: the model goes up to the first of these that runs
  (`RunDangling`), since what it does is undefined. One messager is open at a time,
  a character is one byte, and the memory behind the string's own buffer is taken to
  hold nothing that was typed.
* **Camera**: scale and offset over a denominator that each turn of the wheel, by 4/5
  or 6/5, makes five times what it was, so that nothing is rounded however often it
  is turned; the cached inverse; panning, following and drawing.

`Observer` is explored in the same run: subscribers by channel, the walk of
`forceInvokeEvent` with its place, and callbacks that add, let go and invoke while
it is under way. `Selections` is what all of them use where the code takes elements out of a
container: what is left, in its order.

### ShipMotion, PowerPlant, with Session in MCLifecycle and LifecycleProofs

* **ShipMotion**: rotation with its matrix and the mark that it is old,
  `RotDiff`, the `ALIGN` pattern with its target, its rate, its braking and its
  cut-off of a small spin, the drive, in the order in which `processGrid` calls them.
  Angles are in sevenths of a radian (pi is 22/7) and an update takes a second. The
  rate is a share of `u_rotAccele` and may be nothing: a click in place of a line.
* **PowerPlant**: `Generator::update` with its cached curve outputs, the throttle
  that a slider changes through a pointer, and the bank, in integers as the code
  has them; throttle and time are in halves so that products are exact. A curve is
  any function of the throttle, since nothing normalizes a constant. Nothing in the
  program calls `Generator::update` yet.

### Geometry, CurveShapes, Libraries, LoadDistribution, ClassRegistry, MessageBody, Codec, with MCAlgorithms and AlgorithmProofs

* **Geometry** and **CurveShapes** are operators named as in the code. Each step takes
  one sample of arguments; the properties compare the operator with a definition
  that does not depend on it (touching after a move for overlaps, crossing of segments by
  sides, the corners of the ship's outline for clicks, trying all probes for a search).
  `Libraries` puts the two together and states `AgreesWithReference`. Constants,
  steps, points and weights of curves are arbitrary: only what the last stage of a
  pipe is handed is known to lie between 0 and 1, what comes out only when that stage
  is normal (`PipeBounded`).
* **LoadDistribution**: the multiset of weak pointers and the calls on it, with
  owners that change and drop requests in between. Undefined steps (an erased
  iterator that is used again, a division by zero) set `broken`, and the model
  goes no further.
* **ClassRegistry**: the static members in any order, then `GOInit` in its own.
* **MessageBody** is `net::message` as a stack of sized cells: popping another
  size than was pushed tears values; `Repeat` is a loop of the codec that runs a counted
  number of times. **Codec** lists the fields of each object in
  the order in which the code packs and unpacks them, with an owner that changes
  its ship and posts or updates, and a copy that unpacks. A setter marks what it
  changes (`Set`, `SetThrottle`); the slider of the helm does not (`Slide`), and a
  turn of `processGrid` moves the ship and tells of it only with a fixed update
  while it moves (`Turn`, `Update`). A post takes the pending targets along whether
  or not the peer gets it (`Post`, `PostPast`), and a copy moves by itself between
  two updates (`CopyTurns`). `missed` is what the peer was never told of. Of the
  setters the game itself calls that of the throttle only. One message is on its way
  at a time, and what the server answers from its own copy is left to SceneSync.

The parts of one MC module share no state. The variable `part` picks one in the
initial state and the others stay at rest, so that a run explores the sum of
their states and not the product.

## 3. The runs

| run | configuration | result |
|---|---|---|
| `connection` | client sends 2, server 1, the first message of each has a body | `TypeOK`, `InOrder`, `InStep`, `FrontExists`, `PumpAwake`, `CloseSeen`, `ImplementsChannel` hold |
| `id_allocation` | 1 server, 2 clients, 2 requests and 2 games each, 4 grants | `TypeOK`, `GrantsDisjoint`, `OwnIds`, `NoIdConflict`, `Admitted` hold |
| `id_servers` | 2 servers | `NoIdConflict` is violated |
| `server_hub` | 3 connections, 4 arrivals (connections or messages), 1 drawing, 2 keys | `HubInv`, `EachOnce`, `StatusKept`, `OnlyAcceptDeadlocks`, `Handled` hold |
| `hub_deadlock` | 2 connections, 3 arrivals, 1 drawing | `AllHandled` is violated |
| `hub_active` | 2 connections, 3 arrivals | `ActiveOnly` is violated |
| `scene_sync` | 2 processes, 3 games (the third is the first player's second) of 2, 1 and 0 course changes, updates wait while a message is in a queue, `Bounded` | `SceneInv`, `ServerKnows`, `OwnerLeads`, `NeverBack`, `MovingSeen` hold |
| `scene_stops` | 2 clients, one of which steers | `StopsSeen` is violated |
| `scene_twice` | 2 clients, one of which steers, two updates may be on the way | `NoDuplicates` is violated |
| `client_ui` | two points, two ships, three interfaces, three objects, texts of two characters, three turns of the wheel, four listeners | `GesturesInv`, `WindowsInv`, `InspectionInv`, `ChatInv`, `WholeGesture`, `OptionsGo`, `PointKept`, `Triggered` hold |
| `lifecycle` | three games, four targets at three rates, two curves, tanks and rates of a few units | `SessionInv`, `ShipInv`, `WaitingEnds`, `AlignSettles`, `NoFreePower` hold |
| `algorithms` | a grid of arguments for each operator, three requests, three classes of each kind, two changes of a ship | `AgreesWithReference`, `LoadsInv`, `RegistryInv`, `CodecInv`, `Arrives` hold |

An invariant called ...`Inv` is the conjunction of a module's type invariant with its
safety properties; `AgreesWithReference` is that of the six comparisons of `Geometry`
and the two of `CurveShapes`. `PROJECT.json` has an altered definition for every part of
such a conjunction that says something of its own.

No run checks deadlock: every system here may stop, since every source of input
is bounded and the programs may go down; what must not stop is said by the
liveness properties.

### Bounds

* `MaxSends`: two messages behind each other at one end, one with a body and one
  without, meet every case of the pump (empty queue, queue with more, end of a
  body, end of a header); the other end's one message gives the interleavings of
  both directions. The handlers never look further than the front of a queue,
  and the theorems hold for every bound.
* `MaxRequests`, `MaxGrants`, `MaxSessions`, and partitions of `Size` 2: one retry
  for each client, and a second game that uses the last id of a partition.
* `MaxArrivals`, `MaxRefreshes`, three connections: an arrival is a connection or a
  message, so four are three connections with a broadcast, or two with two
  messages; a connection goes down before, at and behind the place of the walk.
  `KeyCount` 2 lets a third connection share a key.
* `MaxChanges`, `MaxInFlight`: an old and a new course on the way at once, and, in
  `scene_twice`, two updates of a missing ship before the first answer, which is
  what duplicates need. `MaxInFlight` bounds only what a timer or a missing ship
  produces.
* `Bounded` in `MCSceneSync`: the second game is played while the other player is
  in his, after a first without a change of course. TLC also found the safety
  properties of `scene_sync` to hold in two larger instances that take longer than
  a run should: without `Bounded` and with a course change in the second game too
  (4.8 million states), and with `MaxInFlight` 2 (1.6 million).
* `MCClientUI`. `Points` {0, 1} tell a click from a drag, and a ship below the mouse
  from one that is not; `MaxStack` 2 puts a controller on top of another and
  `MaxWaiting` 1 has one more ready. `MaxInterfaces` 3 lets the options, a window and
  its successor exist. Three objects are what the wrap of an unsigned index modulo the
  size needs to go wrong; `MaxSelected` 4 lets an object be selected twice; two
  responders pressed meet each other. `MaxLength` 2 and four characters overrun the
  text; heights 3 and 4 shrink a viewer by a row. Three turns of the wheel meet a drag
  and an object that is followed before, between and after; `MaxPanned` bounds the drags
  only, and neither bound is needed by the proofs. `Widths` are even, so that half of
  one is whole. Of the four listeners three share a channel, so that one can die before,
  at and behind the walk, and `MaxWalks` 2 nests two invocations.
* `MCLifecycle`. Three games: the first connect, one with the io_context stopped, and
  one more that differs in nothing from the second. Four targets, ahead, on both
  sides and nearly behind, at no rate, half and the full one; more targets take the
  liveness check longer and show nothing else. Rates and capacities include zero, a
  bank that is full, a time step beyond a second, and a curve that gives more than
  it may.
* `MCAlgorithms`. The shapes of a request are at least one, since every request has one.
  Coordinates on both sides of zero, rectangles of no width, ships at three places under
  four rotations, by a quarter and by angles of a 3-4-5 triangle; arguments of curves at
  the ends, between and with no interval at all, infinite and no number; a constant of 1
  and one of 3, steps up and down, a Bezier curve within its bounds and one outside; two
  changes and three messages of a ship, whose transforms are at rest (0, 2) or moving
  (1), so that a post, an update and a message that did not reach the peer meet; three
  requests and two shapes so that one needs less and asks for more than another.
* `Connection` lets an end have one close posted at a time (`OneClosePending`):
  a second one finds the socket closed and does nothing.

Symmetry is used for the requests in `algorithms` only: they are interchangeable,
and the run checks no liveness.

### Fairness

* `Connection`: weak fairness of the handlers that wait and of the kernel's
  progress, since `io_context::run` runs what is ready and TCP delivers what was
  written; of a dial and an accept coming out one way or the other; of `Update`,
  which the main loops call for ever. Nothing is assumed of senders, closes or
  failures.
* `IdAllocation`: weak fairness of the waiting loop of a client (asking, reading,
  starting the game) and of the server's answer. Nothing makes a user join or quit.
* `ServerHub`: weak fairness of each thread's next step, whenever the mutex it
  needs is free. Under contention a mutex could be given to others for ever, but
  drawings, kicks and messages are bounded, so no stronger assumption is needed.
* `SceneSync`: for each process, weak fairness of `Enter` and strong fairness of
  `FixedUpdate` and of the two message loops. The
  code has no bound on its queues: `MaxInFlight` disables a step now and then that
  the program would always take, and strong fairness gives the step back.

* `Session`: weak fairness of the waiting loop (asking, taking the answer), of the
  outcome of a dial, and of the server's answer to a request that reached it.
* `ShipMotion`: weak fairness of `Update`, since the main loop updates the grid in
  every turn. Nothing makes a player set a course or leave it alone, so
  `AlignSettles` speaks of a course that is not changed any more. It has a way out:
  a ship may come again and again to where `RotDiff` counts more than half a turn and
  jumps, which floating-point runs of the code show at the full rate. An order of no
  rate neither starts nor stops a spin.

`MCLifecycle` states the same for its parts. `client_ui` and `algorithms` need none.

### What the violations show

* `hub_deadlock`: the accept handler calls `onEvent`, which locks `renderMutex`,
  while it holds the deque's mutex (net_server.hpp:61-66). The user pane
  (Server.cpp:24-28) and `OnMessage` in a broadcast lock them the other way
  round. All three threads can stop. `OnlyAcceptDeadlocks` shows that this is the
  only place to repair.
* `hub_active`: `MessageClient` resets its pointer before it asks `std::remove` for
  it (net_server.hpp:83-89): the dead connection stays in the deque, and each
  later answer to it reports the disconnect anew.
* `id_servers`: `LOCAL_PARITION` and `isReady` are never reset, so on a second
  server (or on the first one restarted) a client draws ids that belong to
  somebody else there.
* `scene_stops`: a ship that stops sends nothing any more; its copies fly on.
* `scene_twice`: `AddObject` appends to the vector whether or not it has the id,
  against its comment, and two updates of a missing ship bring two posts.

Of what else was met in modelling, without a run of its own:

* at its 215th partition the server overflows an int (`Mins`; the theorems assume
  `NoOverflow`);
* the blacklist is compared with the local address of the socket, which is the
  server's own (`Approve`);
* a client that joins late never asks for a ship that rests, since ids that come
  with a grid are dropped (`TakeGrid`);
* from the second game on the queue client only seems to connect, and plays on
  the partition of the first (`Connect`, `QueuedOnce`);
* a left or right release before the grid has come follows a null pointer
  (Client.cpp:576 and 590, `crashed` in Gestures);
* the wait of a refused queue client cannot be left (`Deserted`);
* the name of a message is announced as a `const char*` (Client.cpp:307), while every
  listener asks for a `std::string`, so none hears it (`ChatArrives`);
* the interfaces whose listener captured a shared pointer to them are never freed
  (`SelfHeld`, `HoldsItself`), and that is what keeps a queued responder's pointer
  alive;
* `removeLoad` and `setTotalAvaliable` use iterators that were erased, and the share
  of a load is divided by zero when nothing extra is asked for (`broken`);
* an `ALIGN` pattern and the stages of a `CurvePipe` are packed in one order and
  unpacked in another (`UnpackNav`, `UnpackPipe`);
* `ObjectsWithin` moves the area of an object by its position where the other should be
  moved, so a selection by rectangle is mirrored (Grid.cpp:60; `ObjectsWithin` of
  Gestures does the same), and `overlaps` holds for a rectangle without area that lies
  within another, although GameStructs.hpp:177 speaks of area (`OverlapIsArea`);
* `std::stoi` of a port that is no number ends the process (`PromptThrows`,
  `StartThrows`);
* the slider of the helm changes the throttle and no peer hears of it (`Slide`); nor does
  one that joins after the post that told of a change (`PostPast`);
* a messager that is deleted with a return of its own waiting leaves a responder with a
  dangling pointer (`RunDangling`);
* the client of a game is never destroyed (`startGame` calls `run` from within), and
  its listeners hear the events of the next game;
* the Bezier curve has no value at 1 (`Bezier`).

## 4. The proofs

All theorems hold for every value of the constants that satisfies the assumptions of
the modules. Each safety property is proved along one line: an invariant that is
inductive (each proof module names it `...IInv`), a lemma that it holds at the start,
a lemma for each part of it or for each action that a step keeps it, and the property as
what follows from it. TLC also finds each inductive invariant to hold on the
instance of the run.

| proof module | theorems | from the inductive invariant |
|---|---|---|
| ConnectionProofs | `TypeCorrect`, `InOrderHolds`, `InStepHolds`, `FrontExistsHolds`, `PumpAwakeHolds`, `ImplementsSafe` | `IInv` |
| IdAllocationProofs | `TypeCorrect`, `PartitionsDisjoint`, `ShipsHaveOwnIds`, `OneServerNoConflict` | `IInv` |
| ServerHubProofs | `HubWellFormed`, `OthersDoNotDeadlock`, `StatusIsKept`, `BroadcastsReachAll` | `HubIInv` |
| SceneSyncProofs | `SceneWellFormed`, `ServerNeverAsks`, `OwnersLead`, `NothingGoesBack` | `SceneIInv` |
| LifecycleProofs | `SessionHolds`, `MotionHolds`, `PlantHolds`, `PowerIsNotFree`, `ShipHolds` | `SessionIInv`, `MotionIInv`, `PlantInv` |
| ClientUIProofs | `GesturesHold`, `GestureIsWhole`, `EachListenerTriggered`, `WindowsHold`, `FocusTakesOptions`, `PointIsKept`, `ChatHolds`, `InspectionHolds`, `EveryOther` | `GesturesIInv`, `ObserverIInv`, `WindowsIInv`, `CameraIInv`, `ChatIInv`, `InspectionIInv` |
| AlgorithmProofs | `RegistryHolds`, `LoadsHold`, `CodecHolds`, `WholeObjectsArrive`, `GeometryIsRight`, `CurvesAreRight`, `AnswersAgree` | `RegistryIInv`, `LoadsIInv`, `CodecIInv`, `WholeIInv`, `GeometryIInv`, `CurvesIInv` |

`SequenceLemmas` has what several of them need of numbers and sequences. The
theorems named `Reachable`, or ...`Reachable`, state the inductive invariants themselves.

### Connection

None of the properties is inductive: that a read for a body finds that body depends on
what the writer put on the wire long before. `IInv` says that the frames of a
direction form a **chain**: the frame the reader wants next, the frames on the wire,
and the frame the writer writes next each follow from the one before (`Chain`, with
`NextRead` and `NextWrite`), as long as the reader and the writer have not given up.
`Counted` ties the posted handlers to the number of sends, `Consecutive` the queues to
each other, and `Untouched` says that a server's end does nothing before it is
accepted. The proof splits the actions by what they do to one end (`SendMoves`,
`ReceiveMoves`, `WireMoves`) and preserves each conjunct under those moves, so that a
lemma has a handful of cases and not one for each action. `ImplementsSafe`: every step of
the two ends is a step of `FifoChannel` or leaves it alone.

### IdAllocation

`TypeCorrect` needs no assumption; `PartitionsDisjoint` assumes `NoOverflow` (the
partitions fit an int), `ShipsHaveOwnIds` also `NoOverrun` (no client plays more games
than its partition has ids), and `OneServerNoConflict`, the statement that `id_servers`
refutes for two, a single server. The inductive invariant is `Numbered` (the n-th
grant is the n-th part, made once), `ServerDraws` (the server draws for its grid
only), `Answered` (each answer under way is a grant to its client), `ClientDraws` (a
client has drawn one id per game since its partition) and `ShipsNumbered` (the ships of
the scenes carry these).

### ServerHub

`HubIInv` says who may hold which mutex and how far he is:

* `LockInv`: no two threads hold the same mutex, and what each holds follows from what
  it is doing. `OthersDoNotDeadlock` is about all interleavings of
  three threads, and follows from this alone: apart from the accept handler
  everybody takes `renderMutex` first.
* `JoinInv`, `DequeInv`: one connection is with the accept handler at a time, each
  that was pushed has a number of its own and is in the deque once at most, and the
  null pointers are those a walk has left behind its place. This gives `NoNull`: main
  has the mutex of the deque all that time.
* `SentInv`: to each connection in the deque everything meant for it was sent, but for the
  broadcast under way if the walk has not come to its place (`Pending`). `EachOnce`
  speaks of moments without a walk, so it says nothing while the deque shifts under
  an erased connection; the place does.
* `StatusInv`: the entries of `connectionStatus` as long as no two numbers have the same
  key. Removing the entry of one connection leaves those of others only since their numbers
  differ (`DequeInv`) and with them their keys (`KeysDiffer`).

### SceneSync

The properties compare a copy with its ship, two or three queues apart. `SceneIInv`
follows each ship along all of them, as far as links are up:

* `Told`: what a client has on its way to the server: its own ship's post once,
  behind the request that makes the grid and before every update, or the server has
  the ship already. `ServerNeverAsks` is the case of the front of the queue.
* `Sent`: what the server has on its way to a client is of others' ships which the
  server has.
* `Up`, `Down`, `Copies`: the motions of a ship never decrease from the copy of a player
  to the messages for him, to the copy of the server, to the updates under way to it, to
  the owner. `NothingGoesBack` is one link of that chain and `OwnersLead` its two ends.
  `OwnersLead` is not inductive, since an update on its way could be ahead.
* `Typed`, `LinkInv`, `PlaceInv`: the shape of the grids, which links may hold
  messages, and that a ship is in its owner's grid if it is anywhere, also when an
  earlier game of the process left ships there.

### Session, ShipMotion, PowerPlant

`SessionIInv` adds to the properties what the flags say of each other after a game
(`AfterAGame`: the context stays stopped for good), how far the queue client is
(`Progress`), and, as long as no server was lost, that there is no link, with its
thread joined, when a name is asked for, and that a link has a port that was read
(`NothingLost`). `MotionInv` and `PlantInv` are inductive as they stand, with an integer
spin: the two clamps of `nav_update` leave a spin that was within its bound there,
since what is steered for is.
`PowerIsNotFree` is an action property: `Quarters`, `FilledBy` and `BurnDoes` say what
the divisions of `Generator::update` round to, and `NoExcess` and `PowerIsPaid` compare the
products. `ShipHolds` is the same under the composed specification of `MCLifecycle`,
whose parts `PartsStart` and `PartsStep` take apart.

### Gestures, Observer, Windows

* `GesturesIInv`: what is checked, with the types made exact: the controllers below the
  top are unfinished, and the rectangle is nowhere but at the bottom. The stack has room
  for what waits (`MaxWaiting < MaxStack`).
* `ObserverIInv`: a walk has called the first listeners of its array **as it is by
  now**, one after the other, and each listener it owes a call is owned and in the
  array (`OnItsWay`). An erasure during a walk takes off the place just behind those who
  were called, so the first part stays; a callback that invokes the same event again
  leaves one walk for each array (`OneWalkEach`). When a walk returns the first part is
  the whole array, and those it owed are in it.
* `WindowsIInv`: next to what is checked, that options which are still there are on the
  list of those who are told of the focus (`OptionsListed`). `OptionsGo` is about a step
  that tells that list; without this conjunct a window could show options nobody tells.
  The orders in which windows are stacked, clicked and swept are permutations with
  something added or left out (`Restacked`), and one lemma for each such operation of
  the container keeps the invariant.

### Camera, Chat, Inspection

* `CameraIInv`: the cached inverse is that of the transformation whenever it is used, and
  its scale is not zero. `WheelTurns` is what a turn does: the point below the mouse,
  taken by the inverse and scaled, is a multiple of the scale divided by it
  (`MultipleDivided`), so the division of the model is exact, however often the view was
  dragged, zoomed or followed an object. `PointIsKept` compares the products.
* `ChatIInv`: each character typed is in the text once, was told or is gone (`ToldOnce`),
  and whatever lies behind the text in its buffer was told, or is a line feed or a Null
  (`BehindTold`): a character that is erased has the text move up and leaves a Null, and
  clearing leaves what the responder has just told. So packing, which reads behind a
  short text, sends nothing but what was told (`PackedTold`), the second of two returns
  included (`ReturnsKeep`).
* `InspectionIInv`: who is in a window, who has a responder waiting and whose button is
  the one that stops the tracking were all made, and every view has an object or none.
  `RespondersAlive` follows. `NextReachesAll` needs no more of the state than its types:
  whatever an inspector shows, the first press of ">" brings it to a place of the
  selection, or the selection has nothing else (`FirstPress`), and from a place the next
  press goes to the next one that shows another object (`NextPlace`). With three objects
  that reaches all of them in two rounds (`ReachesAll`); with four it goes from a place
  to the next but one (`NextOfFour`), and `EveryOther` says that two of them are never
  shown.

### ClassRegistry

`RegistryIInv` says the same of the tables before all static members are
initialised: ids are given once and the counter has the next one (`CurveIds`,
`ObjectIds`), a class that was registered is in the slot of its id and the other
slots are empty, if nothing came too early (`CurveSlots`), and the tables have no
slot beyond the ids (`CurveTables`). The code's ids are bytes: the proof assumes at
most 255 classes, as many as an id can name, and under this assumption the counters do not
wrap. `Start` fills the table of objects by a recursive function (`ObjectTable`); that a
function with its equation exists (`TableIsDefined`), and that after k steps the
first k classes are in their slots (`TableFilled`), is shown by the least k for which it
would fail.

### LoadDistribution

`LoadsIInv`: what is used is no more than what is available, and as long as no owner changed
a request that is in the multiset, the requests before the first that is gone ascend by
their minima. `Ascending` and `AllOrNothing` follow (`OrderSeen`, `AllDivided`): the weights
of the loads are quotients that are rounded down, so that one gets the whole share or
nobody gets any (`AllOfIt`). `MostServed` says that the walk is greedy and that this is
best: of ascending minima, the first q are the least that q of them can add up to
(`Greedy`), for any choice of requests. The sums are folds over a sequence of any length;
`TotalIs` and the lemmas next to it give their equations.

### Codec

`CodecIInv` says, for a ship none of whose gradients was replaced, that what is on its
way can be read, and that the copy which reads it has the owner's settings but for what
is pending or was missed (`ShipKept`, with `Coming` as what would be read). It is about
a copy that does not exist yet, and about every one that differs from the present copy
in its transform alone (`ArrivesInStep`), since a copy moves while a message is under
way; `ShipInStep` is about the copy that is there. The lemmas follow the bytes: a value
that is popped at the size it was pushed with is that value, and the rest of the body is
as it was (`AlignedRead`, `PopOne`, `PopTwo`); so are a field (`FieldRead`), a packed
target with its number (`TargetRead`), and any sequence of targets, read in the opposite
order (`TargetsRead`); and what was read is the copy with these fields of the owner
(`CopiesMerge`). Every size is a number of bytes and every value stays a variable.

`WholeIInv` is about the objects that are no ships: a message on its way is what packing
the object it was made of gives. From it `WholeObjectsArrive` proves `Arrives` for any
number of stages, ids and characters, both ways: what arrives, and what does not. A
value that was pushed at another size is read as zero or as garbage (`TornRead`), and
neither is the number of a class: a curve with a payload, packed twice and read once,
therefore stops the pipe that has another stage behind it (`CurveRead`, `PipeRead`), and
the target of ALIGN hides its state (`NavRead`). An array is read front to back as it
was pushed back to front (`ArrayRead`), whatever the size of its elements: `GridRead`
and `ChatRead` use it. For what was left of a grid's ids, its theorem says only that
they do not touch the position.

### Geometry and CurveShapes

The state is one sample, and `GeometryIInv` and `CurvesIInv` say that it is one of
the questions, with any integers in it. The work is in the operators:

* rectangles: two intervals overlap exactly when they still touch after a move of half a
  unit either way (`IntervalsOverlap`), for sides of any length, none included;
* lines: the parameters of the point where two lines meet are quotients of cross
  products, and they lie between zero and one exactly when the ends of each line are on
  different sides of the other (`SidesCross`);
* matrices: the cofactors of an affine matrix, and what its inverse gives
  multiplied with it (`CofactorsAre`, `InverseAgrees`);
* clicks: the even-odd rule over the four edges of a ship against its two
  triangles. The signs of the four edge products decide both (`EdgeSeen`), once for
  each of the four rotations, and a click moves with the ship (`LeftMoves`);
* curves: every value is a fraction in lowest terms. That the recursive function `gcd`
  exists is shown by building it up to any number (`HalvesExist`) and from any two
  agreeing where both are defined (`HalvesOnce`); that it divides both, by the least
  argument for which it would not (`GcdDivides`). Then a fraction has the sign and the
  order of the one it came from (`FOrders`), a curve that is normal stays within 0 and 1
  (`CurveGives`; for a Bezier curve, a mean of its points with weights that are not
  negative, `BezierGives`), what a stage is handed is cut to that range whatever it was
  (`ClampIs`), and the search keeps the best of the probes it has made (`FindIs`).

### How the proofs do without induction

The library's induction theorems take an operator as a parameter, which the provers at
hand cannot instantiate. `LeastNumber` (every set of natural numbers has a least
element, from `WFMin` of the library) replaces them: a statement about all numbers is
proved from the least one that refutes it. The selections of the code (`std::remove`,
erasing what expired) are therefore defined by rank, and `Selected` says of all of them
what is in the result and in what order (`Only` of Windows, `WithoutNull` of ServerHub),
where `SelectSeq` would be a recursion.

### Assumptions

The assumptions on constants are those declared in the modules: types of the bounds,
`Size` at least 2, an `Instance_Id` wider than an int, servers and clients disjoint, a
stack of controllers deeper than what can wait for it, at most 255 classes of each
kind and each object class in the list once. TLC evaluates them in every run.
`NoOverflow`, `NoOverrun` and the single server are hypotheses of the theorems that
name them.

### What is only model-checked

* Liveness: `CloseSeen`, `Admitted`, `Handled`, `MovingSeen`, `WaitingEnds`,
  `AlignSettles`, and the liveness part of `ImplementsChannel`. Fairness and
  ENABLED are out of the prover's reach.
* What the violations show is a behaviour TLC found; no theorem says more about it, except
  that `OneServerNoConflict` is about the case without the conflict.

Every invariant and every action property that a passing run checks is a theorem.

## 5. What is not modelled

* `IDCorrection` and `CorrectID`: no code sends the one or calls the other.
* The server's own `processGrid`: the server never has an object with a message to
  send of its own, since its copies of ships are filtered out.
* `Start` and `Stop` of the server and errors of `async_accept`: it listens as long
  as the process lives.
* Pings measure time and change nothing else; only the ping that
  `processMessage` sends in place of a request is in SceneSync.
* Data races inside a container (the blacklist, see the hazards): a race has no
  outcome to name.
* A second game at another server in SceneSync: its ids may be those of ships the
  process still has (see `NoIdConflict` with two servers). The second game at the
  same server is modelled.
* `Rectangle::And`, `OverlapSize`, the overlap with a polygon and the
  `GetIntersectionScalers` it uses, `RemoveObject` and `clear` of the grid,
  `ClearListenersToEvent` over all types: nothing calls them.
* Rounding of floating-point numbers: Geometry, Camera and ShipMotion are exact. So a
  camera that is zoomed out until its scale underflows to zero is not covered.
* `std::stoi` of an argument of the program (main.cpp:18), before there is anything to
  model.
* A responder whose messager is gone, past the moment it runs (`RunDangling`).
* Drawing and layout, and with them `IFControlls` and `IFOpenWindow`, which only show
  what there is; vendored code.

## 6. Plan

Built and proved as planned: all the modules above, and a theorem for every safety
invariant and for the action properties `NeverBack`, `WholeGesture`, `OptionsGo`,
`Triggered`, `NoFreePower`, `PointKept` and `Arrives`. What would come next, if the code
grows:

1. Codec: what a ship gets once a gradient was replaced by a curve of another class;
   `CodecIInv` leaves that case out.
2. SceneSync: the second game at another server, which needs the ids of IdAllocation.
3. ShipMotion: a bound for the updates that `ALIGN` takes, from which `AlignSettles` would
   follow without ENABLED.

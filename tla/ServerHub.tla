-------------------------------- MODULE ServerHub --------------------------------
(* The three threads of a Server: asio, which accepts connections and runs     *)
(* their handlers; main, which handles the messages; and ui, which draws and   *)
(* runs the buttons.  They share the deque of connections, guarded by          *)
(* m_mutexDeqConnections ("deq"), and what is on the screen, guarded by        *)
(* renderMutex ("render"); both mutexes are recursive.                         *)
(*                                                                             *)
(* A critical section that takes one free mutex and blocks nowhere is a single *)
(* step; one that takes the second mutex has a step for each.                  *)
EXTENDS Integers, Sequences, FiniteSets, Selections

CONSTANTS
  Conns,         \* the connections, numbered in the order in which clients ask for them
  Addresses,     \* ip addresses
  LocalAddress,  \* [Conns -> Addresses]: the server's own end, local_endpoint()
  Null,          \* a shared_ptr that was reset
  KeyCount,      \* how many keys a Class_Id has
  MaxArrivals,   \* bound: connections asked for and messages received, together
  MaxRefreshes   \* bound: times that the user pane is drawn

ASSUME ConnsAssumption == Conns \subseteq Nat /\ Null \notin Conns
ASSUME AddressAssumption == LocalAddress \in [Conns -> Addresses]
ASSUME NumbersAssumption == KeyCount \in Nat \ {0} /\ MaxArrivals \in Nat /\ MaxRefreshes \in Nat

Threads == {"asio", "main", "ui"}

VARIABLES
  holds,       \* [Threads -> SUBSET {"render", "deq"}]: the mutexes a thread has
  stage,       \* [Conns -> ...]: how far the accept handler is with a connection
  id,          \* [Conns -> Int]: connectionID
  nextId,      \* nIDCounter
  alive,       \* [Conns -> BOOLEAN]: isConnected()
  closing,     \* the connections whose socket a posted handler will close
  deque,       \* m_deqConnections
  status,      \* the keys of connectionStatus
  blacklist,   \* blacklist_ip
  inbox,       \* m_qMessagedIn
  received,    \* how many messages came in
  doing,       \* what main is at: its kind, whose message, where in the deque
  refreshes,   \* how often the user pane was drawn
  relayed,     \* history: the senders of the broadcasts begun
  joinedAt,    \* history, [Conns -> Nat]: broadcasts begun before it joined
  got,         \* history, [Conns -> Seq(Nat)]: the broadcasts sent to it
  lost,        \* history: the connections given to onClientDisconnect
  told         \* history: the connections whose ConnectionStatus was handled

vars == <<holds, stage, id, nextId, alive, closing, deque, status, blacklist, inbox, received,
          doing, refreshes, relayed, joinedAt, got, lost, told>>
accepting == <<stage, id, nextId, joinedAt>>
handling == <<doing, relayed, got, lost, told>>

CanLock(t, m) == \A u \in Threads \ {t} : m \notin holds[u]

Idle == [kind |-> "idle", from |-> Null, at |-> 0]

(* Altered form: the key is as wide as the id.                                 *)
KeyIsId(n) == n

(* connectionStatus is keyed by a Class_Id, which is narrower than an int.     *)
Key(n) == n % KeyCount

Init ==
  /\ holds = [t \in Threads |-> {}]
  /\ stage = [c \in Conns |-> "away"]
  /\ id = [c \in Conns |-> -1]
  /\ nextId = 1
  /\ alive = [c \in Conns |-> FALSE]
  /\ closing = {}
  /\ deque = <<>>
  /\ status = {}
  /\ blacklist = {}
  /\ inbox = <<>>
  /\ received = 0
  /\ doing = Idle
  /\ refreshes = 0
  /\ relayed = <<>>
  /\ joinedAt = [c \in Conns |-> 0]
  /\ got = [c \in Conns |-> <<>>]
  /\ lost = {}
  /\ told = {}

--------------------------------------------------------------------------------
(* asio: the accept handler.  Other handlers wait until it is through.         *)

Listening == \A c \in Conns : stage[c] \in {"away", "joined", "denied"}

Arrivals == received + Cardinality({c \in Conns : stage[c] # "away"})

(* A request arrives and is announced: onEvent. *)
Request(c) ==
  /\ Listening /\ stage[c] = "away" /\ CanLock("asio", "render")
  /\ \A d \in Conns : d < c => stage[d] # "away"
  /\ Arrivals < MaxArrivals
  /\ stage' = [stage EXCEPT ![c] = "asked"]
  /\ alive' = [alive EXCEPT ![c] = TRUE]
  /\ UNCHANGED <<holds, id, nextId, closing, deque, status, blacklist, inbox, received, refreshes,
                 joinedAt, handling>>

(* onClientConnect.  GetIP is the address of the local endpoint, and the new   *)
(* status has the key of a connection that has no number yet.                  *)
Approve(c) ==
  /\ stage[c] = "asked" /\ CanLock("asio", "render")
  /\ IF LocalAddress[c] \in blacklist
       THEN /\ stage' = [stage EXCEPT ![c] = "refused"]
            /\ UNCHANGED status
       ELSE /\ stage' = [stage EXCEPT ![c] = "approved"]
            /\ status' = status \cup {Key(id[c])}
  /\ UNCHANGED <<holds, id, nextId, alive, closing, deque, blacklist, inbox, received, refreshes,
                 joinedAt, handling>>

(* The connection is numbered and put into the deque, which stays locked.      *)
Push(c) ==
  /\ stage[c] = "approved" /\ CanLock("asio", "deq")
  /\ holds' = [holds EXCEPT !["asio"] = @ \cup {"deq"}]
  /\ stage' = [stage EXCEPT ![c] = "pushed"]
  /\ deque' = Append(deque, c)
  /\ id' = [id EXCEPT ![c] = nextId]
  /\ nextId' = nextId + 1
  /\ joinedAt' = [joinedAt EXCEPT ![c] = Len(relayed)]
  /\ UNCHANGED <<alive, closing, status, blacklist, inbox, received, refreshes, handling>>

(* The event "accepted" needs renderMutex, with the deque locked. *)
Announce(c) ==
  /\ stage[c] = "pushed" /\ CanLock("asio", "render")
  /\ holds' = [holds EXCEPT !["asio"] = @ \ {"deq"}]
  /\ stage' = [stage EXCEPT ![c] = "joined"]
  /\ UNCHANGED <<id, nextId, alive, closing, deque, status, blacklist, inbox, received, refreshes,
                 joinedAt, handling>>

(* The event "denied"; the connection is destroyed. *)
Deny(c) ==
  /\ stage[c] = "refused" /\ CanLock("asio", "render")
  /\ stage' = [stage EXCEPT ![c] = "denied"]
  /\ alive' = [alive EXCEPT ![c] = FALSE]
  /\ UNCHANGED <<holds, id, nextId, closing, deque, status, blacklist, inbox, received, refreshes,
                 joinedAt, handling>>

--------------------------------------------------------------------------------
(* asio: the handlers of the connections. *)

(* A relay is what the server passes on to the others (OtherMsg, an update, a  *)
(* post); an answer goes to the sender (an id partition, a grid, a ping); a    *)
(* status is the ConnectionStatus with which a Client begins.                  *)
Receive(c, kind) ==
  /\ Listening /\ stage[c] = "joined" /\ alive[c]
  /\ Arrivals < MaxArrivals
  /\ received' = received + 1
  /\ inbox' = Append(inbox, [kind |-> kind, from |-> c])
  /\ UNCHANGED <<holds, alive, closing, deque, status, blacklist, refreshes,
                 accepting, handling>>

(* A read or a write failed: the handler closes the socket. *)
Break(c) ==
  /\ Listening /\ stage[c] = "joined" /\ alive[c]
  /\ alive' = [alive EXCEPT ![c] = FALSE]
  /\ UNCHANGED <<holds, closing, deque, status, blacklist, inbox, received, refreshes, accepting,
                 handling>>

(* Altered form: the socket stays open.                                        *)
ClosesNothing(c) ==
  /\ Listening /\ c \in closing
  /\ closing' = closing \ {c}
  /\ UNCHANGED <<holds, alive, deque, status, blacklist, inbox, received, refreshes, accepting,
                 handling>>

(* The handler that Disconnect posted. *)
RunClose(c) ==
  /\ Listening /\ c \in closing
  /\ closing' = closing \ {c}
  /\ alive' = [alive EXCEPT ![c] = FALSE]
  /\ UNCHANGED <<holds, deque, status, blacklist, inbox, received, refreshes,
                 accepting, handling>>

--------------------------------------------------------------------------------
(* main: Update pops a message and OnMessage handles it, all with renderMutex. *)

(* Altered form: the whole map is cleared.                                     *)
ErasesAll(c) == status' = {} /\ lost' = lost \cup {c}

(* onClientDisconnect *)
Erase(c) == status' = status \ {Key(id[c])} /\ lost' = lost \cup {c}

(* MessageClient to a connection that is there. *)
Answer ==
  /\ doing = Idle /\ inbox # <<>> /\ CanLock("main", "render")
  /\ Head(inbox).kind = "answer" /\ alive[Head(inbox).from]
  /\ inbox' = Tail(inbox)
  /\ UNCHANGED <<holds, alive, closing, deque, status, blacklist, received, refreshes, accepting,
                 handling>>

(* MessageClient to a connection that is not: onClientDisconnect, client.reset *)
AnswerLost ==
  /\ doing = Idle /\ inbox # <<>> /\ CanLock("main", "render")
  /\ Head(inbox).kind = "answer" /\ ~alive[Head(inbox).from]
  /\ inbox' = Tail(inbox)
  /\ Erase(Head(inbox).from)
  /\ holds' = [holds EXCEPT !["main"] = {"render"}]
  /\ doing' = [kind |-> "forget", from |-> Head(inbox).from, at |-> 0]
  /\ UNCHANGED <<alive, closing, deque, blacklist, received, refreshes, relayed, got, told,
                 accepting>>

(* A ConnectionStatus is kept; insert leaves an older one as it is.            *)
KeepStatus ==
  /\ doing = Idle /\ inbox # <<>> /\ CanLock("main", "render")
  /\ Head(inbox).kind = "status"
  /\ inbox' = Tail(inbox)
  /\ status' = status \cup {Key(id[Head(inbox).from])}
  /\ told' = told \cup {Head(inbox).from}
  /\ UNCHANGED <<holds, alive, closing, deque, blacklist, received, refreshes, doing, relayed, got,
                 lost, accepting>>

(* std::remove and erase: what is not a null pointer keeps its order.          *)
WithoutNull(queue) == Selection(queue, {i \in DOMAIN queue : queue[i] # Null})

(* The client was reset, so what is erased from the deque are null pointers.   *)
Forget ==
  /\ doing.kind = "forget" /\ CanLock("main", "deq")
  /\ deque' = WithoutNull(deque)
  /\ holds' = [holds EXCEPT !["main"] = {}]
  /\ doing' = Idle
  /\ UNCHANGED <<alive, closing, status, blacklist, inbox, received, refreshes, relayed, got, lost,
                 told, accepting>>

TakeRelay ==
  /\ doing = Idle /\ inbox # <<>> /\ CanLock("main", "render")
  /\ Head(inbox).kind = "relay"
  /\ inbox' = Tail(inbox)
  /\ holds' = [holds EXCEPT !["main"] = {"render"}]
  /\ doing' = [kind |-> "relay", from |-> Head(inbox).from, at |-> 0]
  /\ UNCHANGED <<alive, closing, deque, status, blacklist, received, refreshes, relayed, got, lost,
                 told, accepting>>

(* MessageAllClients locks the deque and walks along it. *)
BeginRelay ==
  /\ doing.kind = "relay" /\ doing.at = 0 /\ CanLock("main", "deq")
  /\ holds' = [holds EXCEPT !["main"] = {"render", "deq"}]
  /\ doing' = [doing EXCEPT !.at = 1]
  /\ relayed' = Append(relayed, doing.from)
  /\ UNCHANGED <<alive, closing, deque, status, blacklist, inbox, received, refreshes, got, lost,
                 told, accepting>>

(* Altered form: a dead connection is erased from the deque on the way.        *)
ErasesOnTheWay ==
  /\ doing.kind = "relay" /\ doing.at \in DOMAIN deque
  /\ LET c == deque[doing.at]
     IN  IF alive[c]
           THEN /\ got' = IF c = doing.from THEN got
                                            ELSE [got EXCEPT ![c] = Append(@, Len(relayed))]
                /\ UNCHANGED <<deque, status, lost>>
           ELSE /\ Erase(c)
                /\ deque' = SelectSeq(deque, LAMBDA d : d # c)
                /\ UNCHANGED got
  /\ doing' = [doing EXCEPT !.at = @ + 1]
  /\ UNCHANGED <<holds, alive, closing, blacklist, inbox, received, refreshes, relayed, told,
                 accepting>>

(* Altered form: the walk does not go on from the sender.                      *)
StaysAtSender ==
  /\ doing.kind = "relay" /\ doing.at \in DOMAIN deque
  /\ LET c == deque[doing.at]
     IN  IF alive[c]
           THEN /\ got' = IF c = doing.from THEN got
                                            ELSE [got EXCEPT ![c] = Append(@, Len(relayed))]
                /\ UNCHANGED <<deque, status, lost>>
           ELSE /\ Erase(c)
                /\ deque' = [deque EXCEPT ![doing.at] = Null]
                /\ UNCHANGED got
  /\ doing' = [doing EXCEPT !.at = IF deque[@] = doing.from /\ alive[doing.from] THEN @
                                                              ELSE @ + 1]
  /\ UNCHANGED <<holds, alive, closing, blacklist, inbox, received, refreshes, relayed, told,
                 accepting>>

RelayNext ==
  /\ doing.kind = "relay" /\ doing.at \in DOMAIN deque
  /\ LET c == deque[doing.at]
     IN  IF alive[c]
           THEN /\ got' = IF c = doing.from THEN got
                                            ELSE [got EXCEPT ![c] = Append(@, Len(relayed))]
                /\ UNCHANGED <<deque, status, lost>>
           ELSE /\ Erase(c)
                /\ deque' = [deque EXCEPT ![doing.at] = Null]
                /\ UNCHANGED got
  /\ doing' = [doing EXCEPT !.at = @ + 1]
  /\ UNCHANGED <<holds, alive, closing, blacklist, inbox, received, refreshes, relayed, told,
                 accepting>>

(* Altered form: the null pointers stay in the deque.                          *)
KeepsNulls ==
  /\ doing.kind = "relay" /\ doing.at > Len(deque)
  /\ holds' = [holds EXCEPT !["main"] = {}]
  /\ doing' = Idle
  /\ UNCHANGED <<alive, closing, deque, status, blacklist, inbox, received, refreshes, relayed, got,
                 lost, told, accepting>>

EndRelay ==
  /\ doing.kind = "relay" /\ doing.at > Len(deque)
  /\ deque' = WithoutNull(deque)
  /\ holds' = [holds EXCEPT !["main"] = {}]
  /\ doing' = Idle
  /\ UNCHANGED <<alive, closing, status, blacklist, inbox, received, refreshes, relayed, got, lost,
                 told, accepting>>

--------------------------------------------------------------------------------
(* ui *)

(* Altered form: the pane locks the deque first.                               *)
PaneLocksDeque ==
  /\ holds["ui"] = {} /\ CanLock("ui", "deq")
  /\ refreshes < MaxRefreshes
  /\ refreshes' = refreshes + 1
  /\ holds' = [holds EXCEPT !["ui"] = {"deq"}]
  /\ UNCHANGED <<alive, closing, deque, status, blacklist, inbox, received, accepting, handling>>

(* The user pane locks what is drawn, *)
OpenPane ==
  /\ holds["ui"] = {} /\ CanLock("ui", "render")
  /\ refreshes < MaxRefreshes
  /\ refreshes' = refreshes + 1
  /\ holds' = [holds EXCEPT !["ui"] = {"render"}]
  /\ UNCHANGED <<alive, closing, deque, status, blacklist, inbox, received, accepting, handling>>

(* then the deque, to list the connections. *)
DrawPane ==
  /\ holds["ui"] # {} /\ \A m \in {"render", "deq"} : CanLock("ui", m)
  /\ holds' = [holds EXCEPT !["ui"] = {}]
  /\ UNCHANGED <<alive, closing, deque, status, blacklist, inbox, received, refreshes, accepting,
                 handling>>

(* The connections that the buttons go through, up to the one that is meant.   *)
Chosen(c) == alive[c] /\ \E i \in DOMAIN deque : deque[i] = c

(* Bound: a close that waits is not posted again. *)
Kick(c) ==
  /\ holds["ui"] = {} /\ CanLock("ui", "deq")
  /\ Chosen(c) /\ c \notin closing
  /\ closing' = closing \cup {c}
  /\ UNCHANGED <<holds, alive, deque, status, blacklist, inbox, received, refreshes, accepting,
                 handling>>

BanUser(c) ==
  /\ holds["ui"] = {} /\ CanLock("ui", "deq")
  /\ Chosen(c)
  /\ blacklist' = blacklist \cup {LocalAddress[c]}
  /\ UNCHANGED <<holds, alive, closing, deque, status, inbox, received, refreshes,
                 accepting, handling>>

BanExact(a) ==
  /\ holds["ui"] = {} /\ CanLock("ui", "render")
  /\ blacklist' = blacklist \cup {a}
  /\ UNCHANGED <<holds, alive, closing, deque, status, inbox, received, refreshes,
                 accepting, handling>>

Unban(a) ==
  /\ holds["ui"] = {} /\ CanLock("ui", "render")
  /\ blacklist' = blacklist \ {a}
  /\ UNCHANGED <<holds, alive, closing, deque, status, inbox, received, refreshes,
                 accepting, handling>>

--------------------------------------------------------------------------------
Accepting(c) == Request(c) \/ Approve(c) \/ Push(c) \/ Announce(c) \/ Deny(c)

Handling ==
  Answer \/ KeepStatus \/ AnswerLost \/ Forget \/ TakeRelay \/ BeginRelay \/ RelayNext \/ EndRelay

Next ==
  \/ \E c \in Conns : \/ Accepting(c)
                      \/ \E kind \in {"relay", "answer", "status"} : Receive(c, kind)
                      \/ Break(c) \/ RunClose(c) \/ Kick(c) \/ BanUser(c)
  \/ Handling
  \/ OpenPane \/ DrawPane
  \/ \E a \in Addresses : BanExact(a) \/ Unban(a)

(* Every thread goes on unless it waits for a mutex. *)
Fairness ==
  /\ WF_vars(Handling)
  /\ WF_vars(DrawPane)
  /\ \A c \in Conns : WF_vars(Approve(c) \/ Push(c) \/ Announce(c) \/ Deny(c))
                     /\ WF_vars(RunClose(c))

Spec == Init /\ [][Next]_vars /\ Fairness

--------------------------------------------------------------------------------
(* Properties. *)

Stages == {"away", "asked", "approved", "refused", "pushed", "joined", "denied"}

(* Every variable keeps its type, and the keys of connectionStatus their width.*)
TypeOK ==
  /\ holds \in [Threads -> SUBSET {"render", "deq"}]
  /\ stage \in [Conns -> Stages]
  /\ id \in [Conns -> Int]
  /\ nextId \in Nat
  /\ alive \in [Conns -> BOOLEAN]
  /\ closing \subseteq Conns
  /\ deque \in Seq(Conns \cup {Null})
  /\ status \subseteq 0..KeyCount-1
  /\ blacklist \subseteq Addresses
  /\ inbox \in Seq([kind : {"relay", "answer", "status"}, from : Conns])
  /\ received \in Nat
  /\ doing \in [kind : {"idle", "forget", "relay"}, from : Conns \cup {Null}, at : Nat]
  /\ refreshes \in Nat
  /\ relayed \in Seq(Conns)
  /\ joinedAt \in [Conns -> Nat]
  /\ got \in [Conns -> Seq(Nat)]
  /\ lost \subseteq Conns
  /\ told \subseteq Conns

(* The buttons dereference what they find in the deque without a look: only    *)
(* main sees a null pointer there, while it has the deque to itself.           *)
NoNull == (\E i \in DOMAIN deque : deque[i] = Null) => "deq" \in holds["main"]

(* The state of the hub is well formed, and what main leaves in the deque can   *)
(* be dereferenced by whoever has it next.                                      *)
HubInv == TypeOK /\ NoNull

(* The broadcasts that are meant for a connection, and those sent to it.       *)
Owed(c) == {k \in 1..Len(relayed) : k > joinedAt[c] /\ relayed[k] # c}
Sent(c) == {got[c][i] : i \in DOMAIN got[c]}

(* MessageAllClients: a connection that stays up is sent each broadcast begun  *)
(* since it joined, once and in order, its own left out; one that went down    *)
(* was sent a first part of them.                                              *)
EachOnce ==
  \A c \in Conns :
    /\ \A i, j \in DOMAIN got[c] : i < j => got[c][i] < got[c][j]
    /\ Sent(c) \subseteq Owed(c)
    /\ \A k \in Sent(c), j \in Owed(c) : j < k => j \in Sent(c)
    /\ (\E i \in DOMAIN deque : deque[i] = c) /\ alive[c] /\ doing.at = 0 => Sent(c) = Owed(c)

(* connectionStatus has an entry for every client that told its status and was *)
(* not lost, as long as the numbers given out fit the key.                     *)
StatusKept == nextId - 1 <= KeyCount => \A c \in told \ lost : Key(id[c]) \in status

(* The mutex that a thread waits for while it has the other. *)
Wants(t) ==
  CASE t = "asio" -> IF \E c \in Conns : stage[c] = "pushed" THEN {"render"} ELSE {}
    [] t = "main" -> IF doing # Idle /\ doing.at = 0 THEN {"deq"} ELSE {}
    [] t = "ui" -> {"render", "deq"} \ holds["ui"]

Deadlocked ==
  \E t, u \in Threads : t # u /\ holds[t] \cap Wants(u) # {} /\ holds[u] \cap Wants(t) # {}

(* If the threads ever wait for each other, the accept handler is one of them: *)
(* everywhere else renderMutex is taken before the mutex of the deque.         *)
OnlyAcceptDeadlocks == Deadlocked => \E c \in Conns : stage[c] = "pushed"

(* Every message that came in is handled to the end, the walk of a broadcast    *)
(* included, and every connection that is kicked goes down, unless the accept   *)
(* handler and another thread wait for each other.                              *)
Handled ==
  /\ inbox # <<>> \/ doing # Idle ~> (inbox = <<>> /\ doing = Idle) \/ Deadlocked
  /\ \A c \in Conns : c \in closing ~> ~alive[c] \/ Deadlocked

(* net_server.hpp: Update "calls this.OnMessage for each" message.             *)
AllHandled == inbox # <<>> ~> inbox = <<>>

(* net_server.hpp: the deque has the "active validated connections".  When     *)
(* main is through with a message, none that onClientDisconnect was told about *)
(* is left in it.                                                              *)
ActiveOnly == doing = Idle => \A i \in DOMAIN deque : deque[i] \notin lost
=================================================================================

--------------------------------- MODULE Session ---------------------------------
(***************************************************************************)
(* One run of the program: the menu of main, the queue client that         *)
(* connects, waits for a partition of ids and starts a game, and the game  *)
(* client that connects anew (src/src/main.cpp, QueueClient.cpp, Connect   *)
(* and Disconnect of net_client.hpp).                                      *)
(*                                                                         *)
(* The link of the queue client is followed closely (Connection.tla has    *)
(* its insides).  Each game has a client and a link of its own; startGame  *)
(* never returns, so neither is ever given up.                             *)
(***************************************************************************)
EXTENDS Integers

CONSTANT MaxGames      \* bound

ASSUME SessionAssumption == MaxGames \in Nat

VARIABLES stage,        \* where the thread of main is
          port,         \* strport: a number, nothing, or what std::stoi throws on
          conn,         \* m_connection of the queue client, and what became of its socket
          thrContext,   \* its thread: none, running, or returned and joinable
          stopped,      \* whether m_context was stopped
          asked,        \* a request for a partition is on its way
          given,        \* the answer is in m_qMessagesIn
          isReady,      \* QueueClient::isReady
          games,        \* how many games were started
          lost          \* a name was not resolved for a game, or a link was closed by the server

sessionVars == <<stage, port, conn, thrContext, stopped, asked, given, isReady, games, lost>>
linkVars == <<conn, thrContext, stopped>>

InitSession ==
  /\ stage = "menu" /\ port = "number" /\ conn = "none" /\ thrContext = "none" /\ stopped = FALSE
  /\ asked = FALSE /\ given = FALSE /\ isReady = FALSE /\ games = 0 /\ lost = FALSE

(* A socket counts as connected from async_connect on, until it is closed.  *)
isConnected == conn \in {"connecting", "up", "refused"}

-----------------------------------------------------------------------------
(* main.  Nothing is stored in app when the menu is left by "exit": it is   *)
(* null or not, as it happens.  Server::run is a loop without an end.       *)
ChooseFrom(stages) ==
  /\ stage = "menu" /\ stage' \in stages
  /\ UNCHANGED <<port, linkVars, asked, given, isReady, games, lost>>
Menu == ChooseFrom({"prompt", "serving", "ended", "crashed"})

-----------------------------------------------------------------------------
(* QueueClient. *)

(* promptConnection with a name or a port that is empty, when it returns    *)
(* before it reads the port, and with a name that cannot be resolved.  The  *)
(* filters of both inputs let nearly everything in.                         *)
PromptInVain ==
  /\ stage = "prompt" /\ stage' = "check"
  /\ port' \in {"number", "empty", "unreadable"}
  /\ UNCHANGED <<linkVars, asked, given, isReady, games, lost>>

(* std::stoi throws, on no digits or too many, and nobody catches it.       *)
PromptThrows ==
  /\ stage = "prompt" /\ stage' = "thrown" /\ port' = "unreadable"
  /\ UNCHANGED <<linkVars, asked, given, isReady, games, lost>>

(* client_interface::Connect: a thread is assigned over one that was not    *)
(* joined, which ends the process; run returns at once when the context was *)
(* stopped before.                                                          *)
Connect ==
  /\ conn' = "connecting"
  /\ IF thrContext # "none"
     THEN stage' = "aborted" /\ UNCHANGED thrContext
     ELSE stage' = "check" /\ thrContext' = IF stopped THEN "returned" ELSE "running"

PromptConnects ==
  /\ stage = "prompt" /\ port' = "number"
  /\ Connect
  /\ asked' = FALSE
  /\ UNCHANGED <<stopped, given, isReady, games, lost>>

(* Altered form: run goes on whether there is a connection or not.          *)
CheckOnce ==
  /\ stage = "check" /\ stage' = IF isReady THEN "start" ELSE "waiting"
  /\ UNCHANGED <<port, linkVars, asked, given, isReady, games, lost>>
(* run goes on when there is a connection, and asks again when not.         *)
Check ==
  /\ stage = "check"
  /\ stage' = IF ~isConnected THEN "prompt" ELSE IF isReady THEN "start" ELSE "waiting"
  /\ UNCHANGED <<port, linkVars, asked, given, isReady, games, lost>>

(* Altered form: nothing is asked for.                                      *)
AsksNothing ==
  /\ stage = "waiting" /\ ~asked /\ isConnected /\ thrContext = "running"
  /\ UNCHANGED sessionVars
(* Every five seconds; what is posted once run has returned is never sent.  *)
AskPartition ==
  /\ stage = "waiting" /\ ~asked /\ isConnected /\ thrContext = "running"
  /\ asked' = TRUE
  /\ UNCHANGED <<stage, port, linkVars, given, isReady, games, lost>>

(* Update hands the partition to OnMessage, and the waiting loop ends.      *)
TakePartition ==
  /\ stage = "waiting" /\ given
  /\ given' = FALSE /\ isReady' = TRUE /\ stage' = "start"
  /\ UNCHANGED <<port, linkVars, asked, games, lost>>

(* Altered form: the context can be run again.                              *)
DisconnectRestarts == conn' = "none" /\ thrContext' = "none" /\ stopped' = FALSE
(* Altered form: the thread is not joined.                                  *)
DisconnectUnjoined == conn' = "none" /\ UNCHANGED thrContext /\ stopped' = TRUE
(* client_interface::Disconnect: the context stays stopped.                 *)
Disconnect == conn' = "none" /\ thrContext' = "none" /\ stopped' = TRUE

(* startGame with a client that connects, and with one that cannot.         *)
StartGame ==
  /\ stage = "start" /\ port = "number" /\ games < MaxGames
  /\ stage' = "playing" /\ games' = games + 1
  /\ Disconnect
  /\ asked' = FALSE
  /\ UNCHANGED <<port, given, isReady, lost>>
NoGame ==
  /\ stage = "start" /\ port = "number" /\ stage' = "prompt" /\ lost' = TRUE
  /\ UNCHANGED <<port, linkVars, asked, given, isReady, games>>

(* startGame reads the port again: the prompt may have left another one and *)
(* returned early, while the link of the queue client was still open.       *)
StartThrows ==
  /\ stage = "start" /\ port # "number" /\ stage' = "thrown"
  /\ UNCHANGED <<port, linkVars, asked, given, isReady, games, lost>>

(* Client::run returns and startGame calls run again.                       *)
GameEnds ==
  /\ stage = "playing" /\ stage' = "prompt"
  /\ UNCHANGED <<port, linkVars, asked, given, isReady, games, lost>>

-----------------------------------------------------------------------------
(* The network and the server, as far as the thread of the context runs.    *)

Accept ==
  /\ conn = "connecting" /\ thrContext = "running" /\ conn' = "up"
  /\ UNCHANGED <<stage, port, thrContext, stopped, asked, given, isReady, games, lost>>

(* Nobody listens: the handler does nothing, and the thread has no more to  *)
(* do; a request that waited for the link closes the socket.                *)
Refuse ==
  /\ conn = "connecting" /\ thrContext = "running"
  /\ conn' = IF asked THEN "closed" ELSE "refused"
  /\ thrContext' = "returned"
  /\ UNCHANGED <<stage, port, stopped, asked, given, isReady, games, lost>>

ServerCloses ==
  /\ conn = "up" /\ thrContext = "running"
  /\ conn' = "closed" /\ thrContext' = "returned" /\ lost' = TRUE
  /\ UNCHANGED <<stage, port, stopped, asked, given, isReady, games>>

Answer ==
  /\ conn = "up" /\ thrContext = "running" /\ asked
  /\ asked' = FALSE /\ given' = TRUE
  /\ UNCHANGED <<stage, port, linkVars, isReady, games, lost>>

Queue == PromptInVain \/ PromptThrows \/ PromptConnects \/ Check \/ AskPartition
           \/ TakePartition \/ StartGame \/ NoGame \/ StartThrows \/ GameEnds
Network == Accept \/ Refuse \/ ServerCloses \/ Answer

NextSession == Menu \/ Queue \/ Network

SpecSession ==
  /\ InitSession /\ [][NextSession]_sessionVars
  /\ WF_sessionVars(AskPartition) /\ WF_sessionVars(TakePartition)
  /\ WF_sessionVars(Accept \/ Refuse) /\ WF_sessionVars(Answer)

-----------------------------------------------------------------------------
SessionTypeOK ==
  /\ stage \in {"menu", "prompt", "serving", "ended", "crashed", "check", "waiting", "start",
                "playing", "aborted", "thrown"}
  /\ port \in {"number", "empty", "unreadable"}
  /\ conn \in {"none", "connecting", "up", "refused", "closed"}
  /\ thrContext \in {"none", "running", "returned"} /\ games \in 0 .. MaxGames
  /\ {stopped, asked, given, isReady, lost} \subseteq BOOLEAN
  /\ conn = "none" => thrContext = "none"

(* The process ends by itself for two reasons only: a port that cannot be   *)
(* read, and a game whose server could not be found or a link of the queue  *)
(* client that the server closed.  A player who types a port, and is always *)
(* let in, can play game after game; a port that is missing ends it only    *)
(* when it was taken away after such a loss.                                *)
AbortsExplained ==
  /\ stage = "aborted" => lost
  /\ stage = "thrown" => port = "unreadable" \/ (port = "empty" /\ lost)

(* A game is played only with a partition.  From the second on it is that   *)
(* of the first: the queue client connects, and the link never comes up,    *)
(* whoever listens, and nothing is asked for.                               *)
QueuedOnce ==
  /\ stage = "playing" => isReady
  /\ games > 0 => conn # "up" /\ ~asked

(* The waiting ends, by a partition, unless nobody listens or the server    *)
(* closes the link: no other way out of it is needed.                       *)
Deserted == conn \in {"refused", "closed"}
WaitingEnds == stage = "waiting" ~> stage = "start" \/ Deserted

(* A session: the process does not end without a reason from outside, and   *)
(* the queue is gone through once.                                          *)
SessionInv == SessionTypeOK /\ AbortsExplained /\ QueuedOnce
=============================================================================

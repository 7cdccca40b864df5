------------------------------- MODULE Connection -------------------------------
(* One TCP link between a client_interface and a server_interface: the class   *)
(* net::connection at both ends with its queues (net_tsqueue.hpp), the         *)
(* handlers the asio thread of each end runs, and the calls that the program   *)
(* threads make (Send, Disconnect, Update).                                    *)
(*                                                                             *)
(* A message is named by its position among those its end sent; Bodied says    *)
(* which of them have a non-empty body.  An asynchronous asio operation is a   *)
(* record: the part it works on and its result.  It is "pending" until the     *)
(* kernel completes it; then its handler waits for the asio thread.            *)
EXTENDS Integers, Sequences

CONSTANTS
  MaxSends,  \* [Ends -> Nat], bound: how often each end calls Send
  Bodied     \* the messages whose body is not empty

Ends == {"client", "server"}
Peer(e) == IF e = "client" THEN "server" ELSE "client"

ASSUME MaxSendsAssumption == MaxSends \in [Ends -> Nat]
ASSUME BodiedAssumption == Bodied \subseteq Nat \ {0}

VARIABLES
  link,      \* the TCP connection as the kernels and the acceptor see it
  ctx,       \* [Ends -> ...]: the end's io_context and the thread that runs it
  open,      \* [Ends -> BOOLEAN]: m_socket.is_open()
  posted,    \* [Ends -> Seq]: handlers waiting that were given to asio::post
  out,       \* [Ends -> Seq(Nat)]: m_qMessagesOut
  write,     \* [Ends -> operation]: the outstanding async_write
  wire,      \* [Ends -> Seq(frame)]: written by the end, not read by its peer
  read,      \* [Ends -> operation]: the outstanding async_connect or async_read
  buffer,    \* [Ends -> Nat]: the message in m_msgBuffIn
  incoming,  \* [Ends -> Seq(Nat)]: m_qMessagesIn
  sent,      \* [Ends -> Nat]: calls of Send
  handled    \* [Ends -> Seq(Nat)]: messages given to OnMessage

vars == <<link, ctx, open, posted, out, write, wire, read, buffer, incoming,
          sent, handled>>

--------------------------------------------------------------------------------
(* Operations, frames and posted handlers. *)

Idle == [part |-> "none", result |-> "none"]

(* asio starts an operation: on a closed socket it fails at once. *)
Start(e, part) == [part |-> part, result |-> IF open[e] THEN "pending" ELSE "err"]

Done(op) == [op EXCEPT !.result = "ok"]
Failed(op) == [op EXCEPT !.result = "err"]
Aborted(op) == IF op.result = "pending" THEN Failed(op) ELSE op

Frame(part, n) == [part |-> part, n |-> n]

PostedSend(n) == [op |-> "send", n |-> n]
(* A posted close; n only records how many sends were posted before it. *)
PostedClose(n) == [op |-> "close", n |-> n]

Running(e) == ctx[e] \in {"running", "stopping"}

(* io_context::run returns when no operation and no handler is left, and what  *)
(* is posted later never runs.  The acceptor always keeps the server's busy.   *)
RunsOut(e) ==
  ctx' = IF e = "client" /\ posted'[e] = <<>> /\ write'[e] = Idle /\ read'[e] = Idle
           THEN [ctx EXCEPT ![e] = IF @ = "running" THEN "idle" ELSE "stopped"]
           ELSE ctx

Established == link \in {"connected", "accepted", "denied"}

(* The socket at the far end no longer exists. *)
PeerGone(e) ==
  IF e = "server" THEN ~open["client"]
                  ELSE link = "denied" \/ (link = "accepted" /\ ~open["server"])

Init ==
  /\ link = "dialing"
  /\ ctx = [e \in Ends |-> "running"]
  /\ open = [e \in Ends |-> e = "client"]
  /\ posted = [e \in Ends |-> <<>>]
  /\ out = [e \in Ends |-> <<>>]
  /\ write = [e \in Ends |-> Idle]
  /\ wire = [e \in Ends |-> <<>>]
  /\ read = [e \in Ends |-> IF e = "client"
                              THEN [part |-> "connect", result |-> "pending"]
                              ELSE Idle]
  /\ buffer = [e \in Ends |-> 0]
  /\ incoming = [e \in Ends |-> <<>>]
  /\ sent = [e \in Ends |-> 0]
  /\ handled = [e \in Ends |-> <<>>]

--------------------------------------------------------------------------------
(* Making the link: async_connect at the client, async_accept at the server.   *)

Establish ==
  /\ link = "dialing" /\ open["client"]
  /\ read["client"] = [part |-> "connect", result |-> "pending"]
  /\ link' = "connected"
  /\ read' = [read EXCEPT !["client"] = Done(@)]
  /\ UNCHANGED <<ctx, open, posted, out, write, wire, buffer, incoming, sent, handled>>

(* No endpoint answers.  The socket stays open: isConnected() is still true. *)
Refuse ==
  /\ link = "dialing" /\ open["client"]
  /\ read["client"] = [part |-> "connect", result |-> "pending"]
  /\ link' = "refused"
  /\ read' = [read EXCEPT !["client"] = Failed(@)]
  /\ UNCHANGED <<ctx, open, posted, out, write, wire, buffer, incoming, sent, handled>>

(* The handler of async_connect: ReadHeader on success, nothing on an error. *)
ConnectHandler ==
  /\ read["client"].part = "connect" /\ read["client"].result \in {"ok", "err"}
  /\ Running("client")
  /\ read' = [read EXCEPT !["client"] =
                IF @.result = "ok" THEN Start("client", "header") ELSE Idle]
  /\ UNCHANGED <<link, open, posted, out, write, wire, buffer, incoming, sent, handled>>
  /\ RunsOut("client")

(* The accept handler approves the connection: ConnectToClient. *)
Accept ==
  /\ link = "connected" /\ Running("server")
  /\ link' = "accepted"
  /\ open' = [open EXCEPT !["server"] = TRUE]
  /\ read' = [read EXCEPT !["server"] = [part |-> "header", result |-> "pending"]]
  /\ UNCHANGED <<ctx, posted, out, write, wire, buffer, incoming, sent, handled>>

(* onClientConnect refuses: the new connection is destroyed with its socket. *)
Deny ==
  /\ link = "connected" /\ Running("server")
  /\ link' = "denied"
  /\ UNCHANGED <<ctx, open, posted, out, write, wire, read, buffer, incoming, sent, handled>>

--------------------------------------------------------------------------------
(* Calls of the program threads. *)

(* Send: only an end that finds the socket open calls it; asio::post. *)
Send(e) ==
  /\ sent[e] < MaxSends[e]
  /\ open[e] /\ ctx[e] \in {"running", "idle"}
  /\ sent' = [sent EXCEPT ![e] = @ + 1]
  /\ posted' = [posted EXCEPT ![e] = Append(@, PostedSend(sent[e] + 1))]
  /\ UNCHANGED <<link, ctx, open, out, write, wire, read, buffer, incoming, handled>>

(* Bound: no second close is posted while one waits (it would do nothing). *)
OneClosePending(e) == \A i \in DOMAIN posted[e] : posted[e][i].op = "send"

(* The server kicks a client: Disconnect posts the close and returns. *)
Kick ==
  /\ open["server"] /\ ctx["server"] = "running" /\ OneClosePending("server")
  /\ posted' = [posted EXCEPT !["server"] = Append(@, PostedClose(sent["server"]))]
  /\ UNCHANGED <<link, ctx, open, out, write, wire, read, buffer, incoming, sent, handled>>

(* client_interface::Disconnect posts a close and then stops the io_context,   *)
(* so the asio thread may or may not get to the close; the socket is leaked.   *)
ClientDisconnect ==
  /\ ctx["client"] \in {"running", "idle"}
  /\ ctx' = [ctx EXCEPT !["client"] = IF @ = "running" THEN "stopping" ELSE "stopped"]
  /\ posted' = IF open["client"]
                 THEN [posted EXCEPT !["client"] = Append(@, PostedClose(sent["client"]))]
                 ELSE posted
  /\ UNCHANGED <<link, open, out, write, wire, read, buffer, incoming, sent, handled>>

StopContext(e) ==
  /\ ctx[e] = IF e = "client" THEN "stopping" ELSE "running"
  /\ ctx' = [ctx EXCEPT ![e] = "stopped"]
  /\ UNCHANGED <<link, open, posted, out, write, wire, read, buffer, incoming, sent, handled>>

(* Update: the only consumer pops one message and gives it to OnMessage. *)
Update(e) ==
  /\ incoming[e] # <<>>
  /\ handled' = [handled EXCEPT ![e] = Append(@, Head(incoming[e]))]
  /\ incoming' = [incoming EXCEPT ![e] = Tail(@)]
  /\ UNCHANGED <<link, ctx, open, posted, out, write, wire, read, buffer, sent>>

--------------------------------------------------------------------------------
(* Handlers that were posted. *)

(* Altered form: the message is pushed at the front of m_qMessagesOut.         *)
PushesFront(e) ==
  /\ Running(e) /\ posted[e] # <<>> /\ Head(posted[e]).op = "send"
  /\ posted' = [posted EXCEPT ![e] = Tail(@)]
  /\ out' = [out EXCEPT ![e] = <<Head(posted[e]).n>> \o @]
  /\ write' = IF out[e] = <<>> THEN [write EXCEPT ![e] = Start(e, "header")] ELSE write
  /\ UNCHANGED <<link, ctx, open, wire, read, buffer, incoming, sent, handled>>

RunPostedSend(e) ==
  /\ Running(e) /\ posted[e] # <<>> /\ Head(posted[e]).op = "send"
  /\ posted' = [posted EXCEPT ![e] = Tail(@)]
  /\ out' = [out EXCEPT ![e] = Append(@, Head(posted[e]).n)]
  /\ write' = IF out[e] = <<>> THEN [write EXCEPT ![e] = Start(e, "header")] ELSE write
  /\ UNCHANGED <<link, ctx, open, wire, read, buffer, incoming, sent, handled>>

RunPostedClose(e) ==
  /\ Running(e) /\ posted[e] # <<>> /\ Head(posted[e]).op = "close"
  /\ posted' = [posted EXCEPT ![e] = Tail(@)]
  /\ open' = [open EXCEPT ![e] = FALSE]
  /\ write' = [write EXCEPT ![e] = Aborted(@)]
  /\ read' = [read EXCEPT ![e] = Aborted(@)]
  /\ UNCHANGED <<link, out, wire, buffer, incoming, sent, handled>>
  /\ RunsOut(e)

--------------------------------------------------------------------------------
(* Writing.  The kernel takes a frame, or the operation fails; its handler     *)
(* writes the body, or pops the message and starts the next one.               *)

KernelWrites(e) ==
  /\ write[e].result = "pending" /\ Established
  /\ wire' = [wire EXCEPT ![e] = Append(@, Frame(write[e].part, Head(out[e])))]
  /\ write' = [write EXCEPT ![e] = Done(@)]
  /\ UNCHANGED <<link, ctx, open, posted, out, read, buffer, incoming, sent, handled>>

(* The socket was never connected. *)
WriteRefused(e) ==
  /\ write[e].result = "pending" /\ link = "refused"
  /\ write' = [write EXCEPT ![e] = Failed(@)]
  /\ UNCHANGED <<link, ctx, open, posted, out, wire, read, buffer, incoming, sent, handled>>

(* A reset, or (on some platforms) a write before the connect completed. *)
WriteFails(e) ==
  /\ write[e].result = "pending" /\ link # "refused"
  /\ write' = [write EXCEPT ![e] = Failed(@)]
  /\ UNCHANGED <<link, ctx, open, posted, out, wire, read, buffer, incoming, sent, handled>>

WriteError(e) ==
  /\ Running(e) /\ write[e].result = "err"
  /\ open' = [open EXCEPT ![e] = FALSE]
  /\ write' = [write EXCEPT ![e] = Idle]
  /\ read' = [read EXCEPT ![e] = Aborted(@)]
  /\ UNCHANGED <<link, posted, out, wire, buffer, incoming, sent, handled>>
  /\ RunsOut(e)

HeaderWritten(e) ==
  /\ Running(e) /\ write[e] = [part |-> "header", result |-> "ok"]
  /\ Head(out[e]) \in Bodied
  /\ write' = [write EXCEPT ![e] = Start(e, "body")]
  /\ UNCHANGED <<link, ctx, open, posted, out, wire, read, buffer, incoming, sent, handled>>

(* Altered form: the body of the front message is never written.               *)
SkipsBody(e) ==
  /\ Running(e) /\ write[e].result = "ok"
  /\ out' = [out EXCEPT ![e] = Tail(@)]
  /\ write' = [write EXCEPT ![e] = IF Len(out[e]) > 1 THEN Start(e, "header") ELSE Idle]
  /\ UNCHANGED <<link, open, posted, wire, read, buffer, incoming, sent, handled>>
  /\ RunsOut(e)

(* Altered form: the next write is started without a look at the queue.        *)
WritesOnEmpty(e) ==
  /\ Running(e) /\ write[e].result = "ok"
  /\ write[e].part = "header" => Head(out[e]) \notin Bodied
  /\ out' = [out EXCEPT ![e] = Tail(@)]
  /\ write' = [write EXCEPT ![e] = Start(e, "header")]
  /\ UNCHANGED <<link, open, posted, wire, read, buffer, incoming, sent, handled>>
  /\ RunsOut(e)

(* Altered form: the handler does not start on the next message.               *)
NeverContinues(e) ==
  /\ Running(e) /\ write[e].result = "ok"
  /\ write[e].part = "header" => Head(out[e]) \notin Bodied
  /\ out' = [out EXCEPT ![e] = Tail(@)]
  /\ write' = [write EXCEPT ![e] = Idle]
  /\ UNCHANGED <<link, open, posted, wire, read, buffer, incoming, sent, handled>>
  /\ RunsOut(e)

(* The last part of the front message is out. *)
MessageWritten(e) ==
  /\ Running(e) /\ write[e].result = "ok"
  /\ write[e].part = "header" => Head(out[e]) \notin Bodied
  /\ out' = [out EXCEPT ![e] = Tail(@)]
  /\ write' = [write EXCEPT ![e] = IF Len(out[e]) > 1 THEN Start(e, "header") ELSE Idle]
  /\ UNCHANGED <<link, open, posted, wire, read, buffer, incoming, sent, handled>>
  /\ RunsOut(e)

--------------------------------------------------------------------------------
(* Reading.  An operation takes the next frame of the wire, whatever it is.    *)

KernelReads(e) ==
  /\ read[e].part \in {"header", "body"} /\ read[e].result = "pending"
  /\ wire[Peer(e)] # <<>>
  /\ wire' = [wire EXCEPT ![Peer(e)] = Tail(@)]
  /\ buffer' = [buffer EXCEPT ![e] = Head(wire[Peer(e)]).n]
  /\ read' = [read EXCEPT ![e] = Done(@)]
  /\ UNCHANGED <<link, ctx, open, posted, out, write, incoming, sent, handled>>

ReadEof(e) ==
  /\ read[e].part \in {"header", "body"} /\ read[e].result = "pending"
  /\ wire[Peer(e)] = <<>> /\ PeerGone(e)
  /\ read' = [read EXCEPT ![e] = Failed(@)]
  /\ UNCHANGED <<link, ctx, open, posted, out, write, wire, buffer, incoming, sent, handled>>

(* A reset: frames that are still under way are never read. *)
ReadFails(e) ==
  /\ read[e].part \in {"header", "body"} /\ read[e].result = "pending"
  /\ read' = [read EXCEPT ![e] = Failed(@)]
  /\ UNCHANGED <<link, ctx, open, posted, out, write, wire, buffer, incoming, sent, handled>>

(* Altered form: the error handler returns without m_socket.close().           *)
IgnoresReadError(e) ==
  /\ Running(e) /\ read[e].part \in {"header", "body"} /\ read[e].result = "err"
  /\ read' = [read EXCEPT ![e] = Idle]
  /\ UNCHANGED <<link, open, posted, out, write, wire, buffer, incoming, sent, handled>>
  /\ RunsOut(e)

(* Altered form: the finished operation keeps its result.                      *)
KeepsResult(e) ==
  /\ Running(e) /\ read[e].part \in {"header", "body"} /\ read[e].result = "err"
  /\ open' = [open EXCEPT ![e] = FALSE]
  /\ read' = [read EXCEPT ![e].part = "none"]
  /\ write' = [write EXCEPT ![e] = Aborted(@)]
  /\ UNCHANGED <<link, posted, out, wire, buffer, incoming, sent, handled>>
  /\ RunsOut(e)

ReadError(e) ==
  /\ Running(e) /\ read[e].part \in {"header", "body"} /\ read[e].result = "err"
  /\ open' = [open EXCEPT ![e] = FALSE]
  /\ read' = [read EXCEPT ![e] = Idle]
  /\ write' = [write EXCEPT ![e] = Aborted(@)]
  /\ UNCHANGED <<link, posted, out, wire, buffer, incoming, sent, handled>>
  /\ RunsOut(e)

HeaderRead(e) ==
  /\ Running(e) /\ read[e] = [part |-> "header", result |-> "ok"]
  /\ buffer[e] \in Bodied
  /\ read' = [read EXCEPT ![e] = Start(e, "body")]
  /\ UNCHANGED <<link, ctx, open, posted, out, write, wire, buffer, incoming, sent, handled>>

(* Altered form: the next read is not started.                                 *)
NotReprimed(e) ==
  /\ Running(e) /\ read[e].part \in {"header", "body"} /\ read[e].result = "ok"
  /\ read[e].part = "header" => buffer[e] \notin Bodied
  /\ incoming' = [incoming EXCEPT ![e] = Append(@, buffer[e])]
  /\ read' = [read EXCEPT ![e] = Idle]
  /\ UNCHANGED <<link, ctx, open, posted, out, write, wire, buffer, sent, handled>>

(* AddToIncomingMessageQueue, then ReadHeader again. *)
MessageRead(e) ==
  /\ Running(e) /\ read[e].part \in {"header", "body"} /\ read[e].result = "ok"
  /\ read[e].part = "header" => buffer[e] \notin Bodied
  /\ incoming' = [incoming EXCEPT ![e] = Append(@, buffer[e])]
  /\ read' = [read EXCEPT ![e] = Start(e, "header")]
  /\ UNCHANGED <<link, ctx, open, posted, out, write, wire, buffer, sent, handled>>

--------------------------------------------------------------------------------
Linking == Establish \/ Refuse \/ ConnectHandler \/ Accept \/ Deny

Calls(e) == Send(e) \/ StopContext(e) \/ Update(e)

Posted(e) == RunPostedSend(e) \/ RunPostedClose(e)

Writing(e) ==
  \/ KernelWrites(e) \/ WriteRefused(e) \/ WriteFails(e)
  \/ WriteError(e) \/ HeaderWritten(e) \/ MessageWritten(e)

Reading(e) ==
  \/ KernelReads(e) \/ ReadEof(e) \/ ReadFails(e)
  \/ ReadError(e) \/ HeaderRead(e) \/ MessageRead(e)

Next ==
  \/ Linking
  \/ Kick
  \/ ClientDisconnect
  \/ \E e \in Ends : Calls(e) \/ Posted(e) \/ Writing(e) \/ Reading(e)

(* The connect is answered, the asio threads run what is ready, the kernels    *)
(* move frames while they can, and both main loops keep calling Update.        *)
Fairness ==
  /\ WF_vars(Establish \/ Refuse)
  /\ WF_vars(ConnectHandler)
  /\ WF_vars(Accept \/ Deny)
  /\ \A e \in Ends :
       /\ WF_vars(Update(e))
       /\ WF_vars(Posted(e))
       /\ WF_vars(KernelWrites(e) \/ WriteRefused(e))
       /\ WF_vars(WriteError(e) \/ HeaderWritten(e) \/ MessageWritten(e))
       /\ WF_vars(KernelReads(e) \/ ReadEof(e))
       /\ WF_vars(ReadError(e) \/ HeaderRead(e) \/ MessageRead(e))

Spec == Init /\ [][Next]_vars /\ Fairness

--------------------------------------------------------------------------------
(* Properties. *)

Ops(parts) == {Idle} \cup [part : parts, result : {"pending", "ok", "err"}]
Frames == [part : {"header", "body"}, n : Nat]
Handlers == [op : {"send", "close"}, n : Nat]

(* Every variable keeps the type its member or history has in the code. *)
TypeOK ==
  /\ link \in {"dialing", "connected", "refused", "accepted", "denied"}
  /\ ctx \in [Ends -> {"running", "stopping", "stopped", "idle"}]
  /\ open \in [Ends -> BOOLEAN]
  /\ posted \in [Ends -> Seq(Handlers)]
  /\ out \in [Ends -> Seq(Nat)]
  /\ write \in [Ends -> Ops({"header", "body"})]
  /\ wire \in [Ends -> Seq(Frames)]
  /\ read \in [Ends -> Ops({"connect", "header", "body"})]
  /\ buffer \in [Ends -> Nat]
  /\ incoming \in [Ends -> Seq(Nat)]
  /\ sent \in [Ends -> Nat]
  /\ handled \in [Ends -> Seq(Nat)]

(* OnMessage sees the messages of the peer in the order of its Send calls,     *)
(* each once, with none left out before a later one, and only those sent.      *)
InOrder ==
  \A e \in Ends :
    /\ \A i \in DOMAIN handled[e] : handled[e][i] = i
    /\ Len(handled[e]) <= sent[Peer(e)]

(* The stream is never out of step: a read for a header finds a header next,   *)
(* and a read for a body finds the body of the message whose header it read.   *)
InStep ==
  \A e \in Ends :
    read[e].part \in {"header", "body"} /\ read[e].result = "pending" /\ wire[Peer(e)] # <<>> =>
      /\ Head(wire[Peer(e)]).part = read[e].part
      /\ read[e].part = "body" => Head(wire[Peer(e)]).n = buffer[e]

(* front() is only taken from a queue that has one: the writer works on the    *)
(* front message until it pops it, whatever is posted, closed or fails.        *)
FrontExists == \A e \in Ends : write[e] # Idle => out[e] # <<>>

(* While the socket is open a queued message always has a write working for    *)
(* it, so the pump that RunPostedSend starts cannot fall asleep.               *)
PumpAwake == \A e \in Ends : open[e] /\ out[e] # <<>> => write[e] # Idle

(* The link is no longer whole: an end closed, was never made, or was stopped. *)
Broken ==
  \/ link \in {"refused", "denied"}
  \/ \E e \in Ends : ctx[e] # "running" \/ (~open[e] /\ (e = "client" \/ link = "accepted"))

(* When the server closes an accepted connection the client notices and closes *)
(* as well, unless its io_context is told to stop; that it ran out of work     *)
(* with the socket open is no excuse.                                          *)
CloseSeen ==
  (link = "accepted" /\ ~open["server"]) ~>
    (~open["client"] \/ ctx["client"] \in {"stopping", "stopped"})

(* The two ends implement a FIFO channel in each direction: OnMessage gets the *)
(* messages in order, and as long as the link is whole it gets all of them.    *)
Channel == INSTANCE FifoChannel WITH up <- ~Broken
ImplementsChannel == Channel!Spec
--------------------------------------------------------------------------------
(* The inductive invariant.  The frames of one direction form a chain: each is *)
(* followed by its successor, from the frame the reader wants next, through    *)
(* those on the wire, to the frame the writer will write next.                 *)

(* The messages of a queue are numbered without a gap, after the first n.      *)
Consecutive(queue, n) == \A i \in DOMAIN queue : queue[i] = n + i

Weight(h) == IF h.op = "send" THEN 1 ELSE 0

(* How many sends were posted before those in a queue of handlers, of n.       *)
Before(queue, n) == IF queue = <<>> THEN n ELSE queue[1].n - Weight(queue[1])

(* Each handler of the queue counts the sends posted up to it, of n in all.    *)
Counted(queue, n) ==
  /\ \A i \in DOMAIN queue : Weight(queue[i]) <= queue[i].n /\ queue[i].n <= n
  /\ \A i \in 2..Len(queue) : queue[i].n = queue[i-1].n + Weight(queue[i])
  /\ queue # <<>> => queue[Len(queue)].n = n

Succ(f) == IF f.part = "header" /\ f.n \in Bodied THEN Frame("body", f.n)
                                                  ELSE Frame("header", f.n + 1)

(* The frames of a queue, none beyond the n-th message, follow each other; the *)
(* reader, if there is one, wants the first and the writer writes the next.    *)
Chain(queue, n, reader, first, writer, next) ==
  /\ \A i \in DOMAIN queue : queue[i].n <= n
  /\ \A i \in 2..Len(queue) : queue[i] = Succ(queue[i-1])
  /\ queue # <<>> /\ reader => queue[1] = first
  /\ queue # <<>> /\ writer => next = Succ(queue[Len(queue)])
  /\ queue = <<>> /\ reader /\ writer => next = first

(* How many messages have left m_qMessagesOut, or been put in m_qMessagesIn.   *)
Popped(e) == Before(posted[e], sent[e]) - Len(out[e])
Received(e) == Len(handled[e]) + Len(incoming[e])

CurrentPart(op) == IF op.part = "body" THEN "body" ELSE "header"

NextWrite(e) ==
  LET current == Frame(CurrentPart(write[e]), Popped(e) + 1)
  IN  IF write[e].result = "ok" THEN Succ(current) ELSE current

NextRead(e) ==
  LET current == Frame(CurrentPart(read[e]), Received(e) + 1)
  IN  IF read[e].result = "ok" /\ read[e].part # "connect" THEN Succ(current) ELSE current

(* The end may still write; the end reads or has yet to start reading.         *)
Writer(e) == write[e].result # "err" /\ (write[e] = Idle => out[e] = <<>>)
Reader(e) == \/ read[e] # Idle /\ read[e].result # "err"
             \/ e = "server" /\ link # "accepted"

(* Before the server accepts, its end has not done anything.                   *)
Untouched ==
  link # "accepted" =>
    /\ ~open["server"] /\ posted["server"] = <<>> /\ out["server"] = <<>>
    /\ write["server"] = Idle /\ read["server"] = Idle
    /\ handled["server"] = <<>> /\ incoming["server"] = <<>>

SendSide(e) ==
  /\ Counted(posted[e], sent[e])
  /\ Popped(e) >= 0
  /\ Consecutive(out[e], Popped(e))

ReceiveSide(e) ==
  /\ Consecutive(handled[e], 0)
  /\ Consecutive(incoming[e], Len(handled[e]))
  /\ (read[e].part = "body" \/ read[e] = [part |-> "header", result |-> "ok"]) =>
        buffer[e] = Received(e) + 1
  /\ Received(e) <= sent[Peer(e)] /\ buffer[e] <= sent[Peer(e)]

ChainInv(e) == Chain(wire[e], sent[e], Reader(Peer(e)), NextRead(Peer(e)),
                                       Writer(e), NextWrite(e))

IInv ==
  /\ TypeOK
  /\ Untouched
  /\ FrontExists
  /\ PumpAwake
  /\ \A e \in Ends : SendSide(e) /\ ReceiveSide(e) /\ ChainInv(e)
=================================================================================

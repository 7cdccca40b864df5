---------------------------- MODULE ConnectionProofs ----------------------------
(* Proofs about Connection: its types, its inductive invariant, and that the   *)
(* two ends implement the FIFO channel, for every MaxSends and Bodied.         *)
EXTENDS Connection, TLAPS

(* What taking the front of a queue leaves. *)
LEMMA FrontAndRest ==
  ASSUME NEW S, NEW s \in Seq(S), s # <<>>
  PROVE  /\ Head(s) \in S /\ Head(s) = s[1]
         /\ Tail(s) \in Seq(S) /\ Len(Tail(s)) = Len(s) - 1
         /\ \A i \in 1..Len(s)-1 : Tail(s)[i] = s[i+1]
  OBVIOUS

(* The asio helpers build operations. *)
LEMMA StartType ==
  ASSUME NEW e, NEW part \in {"header", "body"}
  PROVE  /\ Start(e, part) \in Ops({"header", "body"})
         /\ Start(e, part) \in Ops({"connect", "header", "body"})
  BY DEF Start, Ops

(* The idle operation fits whatever parts an operation can have. *)
LEMMA IdleType == \A parts : Idle \in Ops(parts)
  BY DEF Ops

(* So does an operation that was aborted. *)
LEMMA AbortedType ==
  ASSUME NEW parts, NEW op \in Ops(parts)
  PROVE  Aborted(op) \in Ops(parts)
  BY DEF Aborted, Failed, Ops, Idle

(* And one that completed or failed. *)
LEMMA ResultType ==
  ASSUME NEW parts, NEW op \in Ops(parts), op.result = "pending"
  PROVE  Done(op) \in Ops(parts) /\ Failed(op) \in Ops(parts)
  BY DEF Done, Failed, Ops, Idle

(* Every variable keeps its type, as long as front() exists when it is used. *)
LEMMA TypeInit == Init => TypeOK
  BY MaxSendsAssumption DEF Init, TypeOK, Ends, Ops, Idle

(* A step keeps the types. *)
LEMMA TypeStep == TypeOK /\ FrontExists /\ [Next]_vars => TypeOK'
<1> SUFFICES ASSUME TypeOK, FrontExists, [Next]_vars PROVE TypeOK'
  OBVIOUS
<1> USE DEF TypeOK
<1>1. CASE Linking
  <2>1. CASE Establish
    <3>1. Done(read["client"]) \in Ops({"connect", "header", "body"})
      BY <2>1, ResultType DEF Establish, Ends
    <3> QED BY <2>1, <3>1 DEF Establish, Ends
  <2>2. CASE Refuse
    <3>1. Failed(read["client"]) \in Ops({"connect", "header", "body"})
      BY <2>2, ResultType, ZenonT(30) DEF Refuse, Ends
    <3> QED BY <2>2, <3>1 DEF Refuse, Ends
  <2>3. CASE ConnectHandler
    BY <2>3, StartType, IdleType DEF ConnectHandler, RunsOut, Ends
  <2>4. CASE Accept
    BY <2>4 DEF Accept, Ends, Ops
  <2>5. CASE Deny
    BY <2>5 DEF Deny, Ends
  <2> QED BY <1>1, <2>1, <2>2, <2>3, <2>4, <2>5 DEF Linking
<1>2. CASE Kick
  BY <1>2 DEF Kick, PostedClose, Ends, Handlers
<1>3. CASE ClientDisconnect
  BY <1>3, SMTT(30) DEF ClientDisconnect, PostedClose, Ends, Handlers
<1>4. ASSUME NEW e \in Ends, Calls(e) PROVE TypeOK'
  <2>1. CASE Send(e)
    <3>1. PostedSend(sent[e] + 1) \in Handlers
      BY DEF PostedSend, Handlers
    <3>2. posted' \in [Ends -> Seq(Handlers)]
      BY <2>1, <3>1 DEF Send
    <3> QED BY <2>1, <3>2 DEF Send
  <2>2. CASE StopContext(e)
    BY <2>2 DEF StopContext
  <2>3. CASE Update(e)
    <3>1. /\ incoming' \in [Ends -> Seq(Nat)]
          /\ handled' \in [Ends -> Seq(Nat)]
      BY <2>3, FrontAndRest DEF Update
    <3> QED BY <2>3, <3>1 DEF Update
  <2> QED BY <1>4, <2>1, <2>2, <2>3 DEF Calls
<1>5. ASSUME NEW e \in Ends, Posted(e) PROVE TypeOK'
  <2>1. CASE RunPostedSend(e)
    <3>1. Head(posted[e]).n \in Nat
      <4>1. Head(posted[e]) \in Handlers
        BY <2>1, FrontAndRest DEF RunPostedSend
      <4> QED BY <4>1 DEF Handlers
    <3>2. out' \in [Ends -> Seq(Nat)]
      BY <2>1, <3>1 DEF RunPostedSend
    <3>3. posted' \in [Ends -> Seq(Handlers)]
      BY <2>1 DEF RunPostedSend
    <3>4. write' \in [Ends -> Ops({"header", "body"})]
      BY <2>1, StartType DEF RunPostedSend
    <3> QED BY <2>1, <3>2, <3>3, <3>4 DEF RunPostedSend
  <2>2. CASE RunPostedClose(e)
    <3>1. posted' \in [Ends -> Seq(Handlers)]
      BY <2>2 DEF RunPostedClose
    <3>2. /\ write' \in [Ends -> Ops({"header", "body"})]
          /\ read' \in [Ends -> Ops({"connect", "header", "body"})]
      BY <2>2, AbortedType DEF RunPostedClose
    <3>3. ctx' \in [Ends -> {"running", "stopping", "stopped", "idle"}]
      BY <2>2 DEF RunPostedClose, RunsOut
    <3> QED BY <2>2, <3>1, <3>2, <3>3 DEF RunPostedClose
  <2> QED BY <1>5, <2>1, <2>2 DEF Posted
<1>6. ASSUME NEW e \in Ends, Writing(e) PROVE TypeOK'
  <2>1. CASE KernelWrites(e)
    <3>1. Done(write[e]) \in Ops({"header", "body"})
      BY <2>1, ResultType DEF KernelWrites
    <3>2. ASSUME NEW n \in Nat PROVE Frame(write[e].part, n) \in Frames
      BY <2>1 DEF KernelWrites, Ops, Idle, Frame, Frames
    <3>3. Head(out[e]) \in Nat
      BY <2>1 DEF KernelWrites, FrontExists, Idle
    <3>4. wire' \in [Ends -> Seq(Frames)]
      BY <2>1, <3>2, <3>3 DEF KernelWrites
    <3> QED BY <2>1, <3>1, <3>4 DEF KernelWrites
  <2>2. CASE WriteRefused(e)
    <3>1. Failed(write[e]) \in Ops({"header", "body"})
      BY <2>2, ResultType DEF WriteRefused
    <3> QED BY <2>2, <3>1 DEF WriteRefused
  <2>3. CASE WriteFails(e)
    <3>1. Failed(write[e]) \in Ops({"header", "body"})
      BY <2>3, ResultType DEF WriteFails
    <3> QED BY <2>3, <3>1 DEF WriteFails
  <2>4. CASE WriteError(e)
    BY <2>4, AbortedType, IdleType DEF WriteError, RunsOut
  <2>5. CASE HeaderWritten(e)
    BY <2>5, StartType DEF HeaderWritten
  <2>6. CASE MessageWritten(e)
    <3>1. out' \in [Ends -> Seq(Nat)]
      BY <2>6 DEF MessageWritten, FrontExists, Idle
    <3>2. write' \in [Ends -> Ops({"header", "body"})]
      BY <2>6, StartType, IdleType DEF MessageWritten
    <3>3. ctx' \in [Ends -> {"running", "stopping", "stopped", "idle"}]
      BY <2>6 DEF MessageWritten, RunsOut
    <3> QED BY <2>6, <3>1, <3>2, <3>3 DEF MessageWritten
  <2> QED BY <1>6, <2>1, <2>2, <2>3, <2>4, <2>5, <2>6 DEF Writing
<1>7. ASSUME NEW e \in Ends, Reading(e) PROVE TypeOK'
  <2>1. CASE KernelReads(e)
    <3>1. Done(read[e]) \in Ops({"connect", "header", "body"})
      BY <2>1, ResultType DEF KernelReads
    <3>2. Peer(e) \in Ends
      BY DEF Peer, Ends
    <3>3. Head(wire[Peer(e)]) \in Frames
      BY <2>1, <3>2, SMTT(30) DEF KernelReads
    <3>4. Head(wire[Peer(e)]).n \in Nat
      BY <3>3 DEF Frames
    <3>5. wire' \in [Ends -> Seq(Frames)]
      BY <2>1, <3>2 DEF KernelReads
    <3> QED BY <2>1, <3>1, <3>4, <3>5 DEF KernelReads
  <2>2. CASE ReadEof(e)
    <3>1. Failed(read[e]) \in Ops({"connect", "header", "body"})
      BY <2>2, ResultType DEF ReadEof
    <3> QED BY <2>2, <3>1 DEF ReadEof
  <2>3. CASE ReadFails(e)
    <3>1. Failed(read[e]) \in Ops({"connect", "header", "body"})
      BY <2>3, ResultType DEF ReadFails
    <3> QED BY <2>3, <3>1 DEF ReadFails
  <2>4. CASE ReadError(e)
    BY <2>4, AbortedType, IdleType DEF ReadError, RunsOut
  <2>5. CASE HeaderRead(e)
    BY <2>5, StartType DEF HeaderRead
  <2>6. CASE MessageRead(e)
    BY <2>6, StartType DEF MessageRead
  <2> QED BY <1>7, <2>1, <2>2, <2>3, <2>4, <2>5, <2>6 DEF Reading
<1>8. CASE UNCHANGED vars
  BY <1>8 DEF vars
<1> QED BY <1>1, <1>2, <1>3, <1>4, <1>5, <1>6, <1>7, <1>8 DEF Next


--------------------------------------------------------------------------------
(* Queues of handlers and of messages. *)

(* Arithmetic of the counts of sent messages. *)
LEMMA Sums ==
  \A a, b \in Nat : /\ a + b \in Nat /\ a + (b + 1) = (a + b) + 1
                    /\ b # 0 => (a + 1) + (b - 1) = a + b
  OBVIOUS

(* A number below one that exceeds 1 is not 0. *)
LEMMA NotLast == \A a, b \in Int : a = b - 1 /\ b > 1 => a # 0
  OBVIOUS

(* The order of numbers is transitive. *)
LEMMA Below == \A a, b, c \in Nat : a <= b /\ b <= c => a <= c
  OBVIOUS

(* The length of a sequence is a number, 0 only for the empty one. *)
LEMMA LengthType == \A S : \A q \in Seq(S) : Len(q) \in Nat /\ (q # <<>> => Len(q) # 0)
  OBVIOUS

(* An element of a sequence belongs to its set. *)
LEMMA ElementType ==
  ASSUME NEW S, NEW s \in Seq(S), NEW i \in DOMAIN s
  PROVE  s[i] \in S
  OBVIOUS

(* A call that is posted continues the count of the sends (Send, Disconnect). *)
LEMMA CountedAppend ==
  ASSUME NEW P \in Seq(Handlers), NEW n \in Nat, Counted(P, n),
         NEW h \in Handlers, h.n = n + Weight(h)
  PROVE  /\ Counted(Append(P, h), h.n)
         /\ Before(Append(P, h), h.n) = Before(P, n)
<1> DEFINE Q == Append(P, h)  N == Len(P)
<1>1. Q \in Seq(Handlers) /\ Len(Q) = N + 1 /\ Q[N + 1] = h /\ \A i \in 1..N : Q[i] = P[i]
  OBVIOUS
<1>2. N \in Nat /\ h.n \in Nat /\ Weight(h) \in {0, 1} /\ Weight(h) <= h.n
  BY DEF Weight, Handlers
<1>3. \A i \in 1..N : P[i] \in Handlers
  BY ElementType
<1>4. \A i \in 1..N : P[i].n \in Nat /\ Weight(P[i]) \in {0, 1}
  BY <1>3 DEF Handlers, Weight
<1>5. \A i \in 1..N : Weight(P[i]) <= P[i].n /\ P[i].n <= n
  BY DEF Counted
<1>6. \A i \in 2..N : P[i].n = P[i-1].n + Weight(P[i])
  BY DEF Counted
<1>7. P # <<>> => P[N].n = n
  BY DEF Counted
<1> HIDE DEF Q, N
<1>8. \A i \in 1..N+1 : Weight(Q[i]) <= Q[i].n /\ Q[i].n <= h.n
  <2> SUFFICES ASSUME NEW i \in 1..N+1 PROVE Weight(Q[i]) <= Q[i].n /\ Q[i].n <= h.n
    OBVIOUS
  <2>1. CASE i = N + 1
    BY <2>1, <1>1, <1>2
  <2>2. CASE i # N + 1
    BY <2>2, <1>1, <1>2, <1>4, <1>5, SMTT(20)
  <2> QED BY <2>1, <2>2
<1>9. \A i \in 2..N+1 : Q[i].n = Q[i-1].n + Weight(Q[i])
  <2> SUFFICES ASSUME NEW i \in 2..N+1 PROVE Q[i].n = Q[i-1].n + Weight(Q[i])
    OBVIOUS
  <2>1. CASE i = N + 1
    BY <2>1, <1>1, <1>2, <1>7 DEF N
  <2>2. CASE i # N + 1
    BY <2>2, <1>1, <1>2, <1>6
  <2> QED BY <2>1, <2>2
<1>10. Before(Q, h.n) = Before(P, n)
  <2>1. CASE P = <<>>
    <3>1. N = 0
      BY <2>1 DEF N
    <3>2. Len(Q) = 1 /\ Q[1] = h
      BY <3>1, <1>1
    <3>3. Q # <<>>
      BY DEF Q
    <3> QED BY <2>1, <3>2, <3>3, <1>2 DEF Before
  <2>2. CASE P # <<>>
    BY <2>2, <1>1, <1>2 DEF Before, N
  <2> QED BY <2>1, <2>2
<1> QED BY <1>1, <1>2, <1>8, <1>9, <1>10 DEF Counted, Q

(* The posted call that runs is the first in the count (RunPostedSend, RunPostedClose). *)
LEMMA CountedTail ==
  ASSUME NEW P \in Seq(Handlers), NEW n \in Nat, Counted(P, n), P # <<>>
  PROVE  /\ Counted(Tail(P), n)
         /\ Before(Tail(P), n) = P[1].n
         /\ Before(P, n) = P[1].n - Weight(P[1])
         /\ P[1].n \in Nat /\ P[1].n <= n
<1> DEFINE Q == Tail(P)  N == Len(P)
<1>1. Q \in Seq(Handlers) /\ Len(Q) = N - 1 /\ N \in Nat \ {0} /\ \A i \in 1..N-1 : Q[i] = P[i+1]
  OBVIOUS
<1>3. \A i \in 1..N : P[i] \in Handlers
  BY ElementType
<1>4. \A i \in 1..N : P[i].n \in Nat /\ Weight(P[i]) \in {0, 1}
  BY <1>3 DEF Handlers, Weight
<1>5. \A i \in 1..N : Weight(P[i]) <= P[i].n /\ P[i].n <= n
  BY DEF Counted
<1>6. \A i \in 2..N : P[i].n = P[i-1].n + Weight(P[i])
  BY DEF Counted
<1>7. P[N].n = n
  BY DEF Counted
<1> HIDE DEF Q, N
<1>8. \A i \in 1..N-1 : Weight(Q[i]) <= Q[i].n /\ Q[i].n <= n
  <2> SUFFICES ASSUME NEW i \in 1..N-1 PROVE Weight(Q[i]) <= Q[i].n /\ Q[i].n <= n
    OBVIOUS
  <2>1. Q[i] = P[i+1] /\ i+1 \in 1..N
    BY <1>1
  <2> QED BY <2>1, <1>5
<1>9. \A i \in 2..N-1 : Q[i].n = Q[i-1].n + Weight(Q[i])
  <2> SUFFICES ASSUME NEW i \in 2..N-1 PROVE Q[i].n = Q[i-1].n + Weight(Q[i])
    OBVIOUS
  <2>1. Q[i] = P[i+1] /\ Q[i-1] = P[i] /\ i+1 \in 2..N
    BY <1>1
  <2>2. P[i+1].n = P[(i+1)-1].n + Weight(P[i+1])
    BY <2>1, <1>6
  <2> QED BY <2>1, <2>2
<1>10. Q # <<>> => Q[N-1].n = n
  BY <1>1, <1>7
<1>11. Before(Q, n) = P[1].n
  <2>1. CASE N = 1
    BY <2>1, <1>1, <1>7 DEF Before
  <2>2. CASE N # 1
    <3>1. Q # <<>> /\ Q[1] = P[2] /\ 2 \in 2..N /\ 2 \in 1..N /\ 1 \in 1..N
      BY <2>2, <1>1
    <3>2. P[2].n = P[1].n + Weight(P[2])
      BY <3>1, <1>6
    <3> QED BY <3>1, <3>2, <1>4 DEF Before
  <2> QED BY <2>1, <2>2
<1> QED BY <1>1, <1>4, <1>5, <1>8, <1>9, <1>10, <1>11, SMTT(30) DEF Counted, Before, Q

(* A message pushed behind the queue continues its numbers. *)
LEMMA ConsecutiveAppend ==
  ASSUME NEW q \in Seq(Nat), NEW n \in Nat, Consecutive(q, n)
  PROVE  Consecutive(Append(q, n + Len(q) + 1), n)
  BY DEF Consecutive

(* And popping the front leaves consecutive numbers. *)
LEMMA ConsecutiveTail ==
  ASSUME NEW q \in Seq(Nat), NEW n \in Nat, Consecutive(q, n), q # <<>>
  PROVE  Head(q) = n + 1 /\ Consecutive(Tail(q), n + 1)
  BY DEF Consecutive

(* The chain of frames under a write, a read, and a side that gives up. *)

(* What follows a frame is a frame. *)
LEMMA SuccType == ASSUME NEW f \in Frames PROVE Succ(f) \in Frames
  BY DEF Succ, Frame, Frames

(* A write puts the frame that was due on the wire, and the chain goes on. *)
LEMMA ChainAppend ==
  ASSUME NEW W \in Seq(Frames), NEW n \in Nat, NEW r, NEW first, NEW w, NEW f \in Frames,
         Chain(W, n, r, first, w, f), w, f.n <= n
  PROVE  Chain(Append(W, f), n, r, first, w, Succ(f))
<1> DEFINE V == Append(W, f)  N == Len(W)
<1>1. V \in Seq(Frames) /\ Len(V) = N + 1 /\ V[N+1] = f /\ \A i \in 1..N : V[i] = W[i]
  OBVIOUS
<1>2. N \in Nat /\ (N = 0 <=> W = <<>>)
  OBVIOUS
<1>3. \A i \in 1..N : W[i].n <= n
  BY DEF Chain
<1>4. \A i \in 2..N : W[i] = Succ(W[i-1])
  BY DEF Chain
<1>5. /\ N # 0 /\ r => W[1] = first
      /\ N # 0 => f = Succ(W[N])
      /\ N = 0 /\ r => f = first
  BY <1>2 DEF Chain
<1> HIDE DEF V, N
<1>6. \A i \in 1..N+1 : V[i].n <= n
  <2> TAKE i \in 1..N+1
  <2>1. CASE i = N + 1
    BY <2>1, <1>1
  <2>2. CASE i # N + 1
    BY <2>2, <1>1, <1>2, <1>3
  <2> QED BY <2>1, <2>2
<1>7. \A i \in 2..N+1 : V[i] = Succ(V[i-1])
  <2> TAKE i \in 2..N+1
  <2>1. CASE i = N + 1
    <3>1. N # 0 /\ V[i-1] = W[N]
      BY <2>1, <1>1, <1>2
    <3> QED BY <2>1, <3>1, <1>1, <1>5
  <2>2. CASE i # N + 1
    BY <2>2, <1>1, <1>2, <1>4
  <2> QED BY <2>1, <2>2
<1>8. r => V[1] = first
  <2>1. CASE N = 0
    BY <2>1, <1>1, <1>5
  <2>2. CASE N # 0
    BY <2>2, <1>1, <1>2, <1>5
  <2> QED BY <2>1, <2>2
<1>9. V # <<>> /\ V[Len(V)] = f
  BY <1>1, <1>2
<1> QED BY <1>1, <1>6, <1>7, <1>8, <1>9 DEF Chain, V

(* A read takes the frame that is wanted off the wire, and the chain goes on. *)
LEMMA ChainTail ==
  ASSUME NEW W \in Seq(Frames), NEW n \in Nat, NEW r, NEW first, NEW w, NEW next,
         Chain(W, n, r, first, w, next), r, W # <<>>
  PROVE  /\ Head(W) = first
         /\ Chain(Tail(W), n, r, Succ(first), w, next)
<1> DEFINE V == Tail(W)  N == Len(W)
<1>1. V \in Seq(Frames) /\ Len(V) = N - 1 /\ N \in Nat \ {0} /\ Head(W) = W[1]
  OBVIOUS
<1>2. \A i \in 1..N-1 : V[i] = W[i+1] /\ i+1 \in 1..N /\ i+1 \in 2..N
  OBVIOUS
<1>3. \A i \in 1..N : W[i].n <= n
  BY DEF Chain
<1>4. \A i \in 2..N : W[i] = Succ(W[i-1])
  BY DEF Chain
<1>5. W[1] = first /\ (w => next = Succ(W[N]))
  BY DEF Chain
<1> HIDE DEF V, N
<1>6. \A i \in 1..N-1 : V[i].n <= n
  BY <1>2, <1>3
<1>7. \A i \in 2..N-1 : V[i] = Succ(V[i-1])
  <2> TAKE i \in 2..N-1
  <2>1. V[i] = W[i+1] /\ V[i-1] = W[i] /\ i+1 \in 2..N
    BY <1>1, <1>2
  <2>2. W[i+1] = Succ(W[(i+1)-1])
    BY <2>1, <1>4
  <2> QED BY <2>1, <2>2
<1>8. V # <<>> => V[1] = Succ(first) /\ V[Len(V)] = W[N]
  <2> HAVE V # <<>>
  <2>1. N-1 \in 1..N-1 /\ 1 \in 1..N-1
    BY <1>1
  <2>2. V[1] = W[2] /\ V[N-1] = W[N] /\ 2 \in 2..N
    BY <2>1, <1>1, <1>2
  <2>3. W[2] = Succ(W[1])
    BY <2>2, <1>4
  <2> QED BY <2>2, <2>3, <1>1, <1>5
<1>9. V = <<>> => N = 1
  BY <1>1
<1> QED BY <1>1, <1>5, <1>6, <1>7, <1>8, <1>9 DEF Chain, V

(* Further sends, and a side that gives up, leave the chain whole. *)
LEMMA ChainKept ==
  ASSUME NEW W \in Seq(Frames), NEW n \in Nat, NEW m \in Nat, n <= m,
         NEW r, NEW first, NEW w, NEW next, NEW r2, NEW first2, NEW w2, NEW next2,
         Chain(W, n, r, first, w, next),
         r2 => r /\ first2 = first,
         w2 => w /\ next2 = next
  PROVE  Chain(W, m, r2, first2, w2, next2)
<1>1. \A i \in DOMAIN W : W[i] \in Frames
  BY ElementType
<1>2. \A i \in DOMAIN W : W[i].n <= m
  BY <1>1 DEF Chain, Frames
<1> QED BY <1>2 DEF Chain

--------------------------------------------------------------------------------
(* What a step of the system does to the sending side of one end.              *)

SendStays(d) == posted'[d] = posted[d] /\ out'[d] = out[d] /\ sent'[d] = sent[d]

Rests(d) == SendStays(d) /\ write'[d] = write[d]
            /\ (open'[d] => open[d] \/ (d = "server" /\ link = "connected"))

Posts(d) ==
  /\ \E h \in Handlers :
       /\ h.n = sent[d] + Weight(h) /\ sent'[d] = h.n
       /\ posted'[d] = Append(posted[d], h)
  /\ out'[d] = out[d] /\ write'[d] = write[d] /\ open'[d] = open[d] /\ open[d] /\ link' = link

TakesSend(d) ==
  /\ posted[d] # <<>> /\ Head(posted[d]).op = "send"
  /\ posted'[d] = Tail(posted[d]) /\ out'[d] = Append(out[d], Head(posted[d]).n)
  /\ write'[d] = (IF out[d] = <<>> THEN Start(d, "header") ELSE write[d])
  /\ sent'[d] = sent[d] /\ open'[d] = open[d] /\ link' = link

TakesClose(d) ==
  /\ posted[d] # <<>> /\ Head(posted[d]).op = "close"
  /\ posted'[d] = Tail(posted[d]) /\ out'[d] = out[d] /\ sent'[d] = sent[d]
  /\ write'[d] = Aborted(write[d]) /\ ~open'[d] /\ link' = link

WriteDone(d) ==
  /\ write[d].result = "pending" /\ SendStays(d) /\ open'[d] = open[d] /\ link' = link
  /\ write'[d] = Done(write[d])
  /\ wire'[d] = Append(wire[d], Frame(write[d].part, Head(out[d])))

WriteLost(d) ==
  /\ SendStays(d) /\ open'[d] = open[d] /\ link' = link
  /\ write[d].result = "pending" /\ write'[d] = Failed(write[d])

WriteGivenUp(d) ==
  /\ SendStays(d) /\ ~open'[d] /\ link' = link
  /\ \/ write[d].result = "err" /\ write'[d] = Idle
     \/ write'[d] = Aborted(write[d])

BodyNext(d) ==
  /\ SendStays(d) /\ open'[d] = open[d] /\ link' = link
  /\ write[d] = [part |-> "header", result |-> "ok"] /\ Head(out[d]) \in Bodied
  /\ write'[d] = Start(d, "body")

MessageNext(d) ==
  /\ write[d].result = "ok" /\ (write[d].part = "header" => Head(out[d]) \notin Bodied)
  /\ out'[d] = Tail(out[d]) /\ posted'[d] = posted[d] /\ sent'[d] = sent[d]
  /\ write'[d] = (IF Len(out[d]) > 1 THEN Start(d, "header") ELSE Idle)
  /\ open'[d] = open[d] /\ link' = link

SendMove(d) ==
  \/ Rests(d) \/ Posts(d) \/ TakesSend(d) \/ TakesClose(d) \/ WriteDone(d) \/ WriteLost(d)
  \/ WriteGivenUp(d) \/ BodyNext(d) \/ MessageNext(d)

(* Every step makes such a move at every end; only KernelWrites(d) puts a      *)
(* frame on the wire of d, and only it completes a write.                      *)
LEMMA SendMoves ==
  ASSUME TypeOK, [Next]_vars, NEW d \in Ends
  PROVE  SendMove(d)
<1> USE DEF SendMove, Rests, SendStays
<1>1. CASE Linking
  BY <1>1 DEF Linking, Establish, Refuse, ConnectHandler, Accept, Deny, TypeOK
<1>2. CASE Kick
  <2>1. CASE d = "server"
    <3>1. /\ PostedClose(sent["server"]) \in Handlers
          /\ PostedClose(sent["server"]).n = sent["server"] + Weight(PostedClose(sent["server"]))
      BY <2>1 DEF PostedClose, Handlers, Weight, TypeOK
    <3>2. Posts(d)
      BY <1>2, <2>1, <3>1 DEF Kick, Posts, TypeOK, PostedClose
    <3> QED BY <3>2
  <2>2. CASE d # "server"
    BY <1>2, <2>2 DEF Kick, TypeOK
  <2> QED BY <2>1, <2>2
<1>3. CASE ClientDisconnect
  <2>1. CASE d = "client" /\ open["client"]
    <3>1. /\ PostedClose(sent["client"]) \in Handlers
          /\ PostedClose(sent["client"]).n = sent["client"] + Weight(PostedClose(sent["client"]))
      BY <2>1 DEF PostedClose, Handlers, Weight, TypeOK
    <3>2. Posts(d)
      BY <1>3, <2>1, <3>1 DEF ClientDisconnect, Posts, TypeOK, PostedClose
    <3> QED BY <3>2
  <2>2. CASE ~(d = "client" /\ open["client"])
    BY <1>3, <2>2 DEF ClientDisconnect, TypeOK
  <2> QED BY <2>1, <2>2
<1>4. ASSUME NEW e \in Ends, e # d, Calls(e) \/ Posted(e) PROVE Rests(d)
  BY <1>4 DEF Calls, Send, StopContext, Update, Posted, RunPostedSend, RunPostedClose, TypeOK
<1>5. ASSUME NEW e \in Ends, e # d, Writing(e) PROVE Rests(d)
  BY <1>5 DEF Writing, KernelWrites, WriteRefused, WriteFails, WriteError, HeaderWritten,
              MessageWritten, TypeOK
<1>6. ASSUME NEW e \in Ends, e # d, Reading(e) PROVE Rests(d)
  BY <1>6 DEF Reading, KernelReads, ReadEof, ReadFails, ReadError, HeaderRead, MessageRead, TypeOK
<1>7. ASSUME Calls(d) PROVE SendMove(d)
  <2>1. CASE Send(d)
    <3>1. /\ PostedSend(sent[d] + 1) \in Handlers
          /\ PostedSend(sent[d] + 1).n = sent[d] + Weight(PostedSend(sent[d] + 1))
      BY DEF PostedSend, Handlers, Weight, TypeOK
    <3>2. Posts(d)
      BY <2>1, <3>1 DEF Send, Posts, TypeOK, PostedSend
    <3> QED BY <3>2
  <2>2. CASE StopContext(d) \/ Update(d)
    BY <2>2 DEF StopContext, Update, TypeOK
  <2> QED BY <1>7, <2>1, <2>2 DEF Calls
<1>8. ASSUME Posted(d) PROVE SendMove(d)
  <2>1. CASE RunPostedSend(d)
    BY <2>1 DEF RunPostedSend, TakesSend, TypeOK
  <2>2. CASE RunPostedClose(d)
    BY <2>2 DEF RunPostedClose, TakesClose, TypeOK
  <2> QED BY <1>8, <2>1, <2>2 DEF Posted
<1>9. ASSUME Writing(d) PROVE SendMove(d)
  <2>1. CASE KernelWrites(d)
    BY <2>1 DEF KernelWrites, WriteDone, TypeOK
  <2>2. CASE WriteRefused(d) \/ WriteFails(d)
    BY <2>2 DEF WriteRefused, WriteFails, WriteLost, TypeOK
  <2>3. CASE WriteError(d)
    BY <2>3 DEF WriteError, WriteGivenUp, TypeOK
  <2>4. CASE HeaderWritten(d)
    BY <2>4 DEF HeaderWritten, BodyNext, TypeOK
  <2>5. CASE MessageWritten(d)
    BY <2>5 DEF MessageWritten, MessageNext, TypeOK
  <2> QED BY <1>9, <2>1, <2>2, <2>3, <2>4, <2>5 DEF Writing
<1>10. ASSUME Reading(d) PROVE SendMove(d)
  <2>1. CASE ReadError(d)
    BY <2>1 DEF ReadError, WriteGivenUp, TypeOK
  <2>2. CASE ~ReadError(d)
    BY <1>10, <2>2 DEF Reading, KernelReads, ReadEof, ReadFails, HeaderRead, MessageRead, TypeOK
  <2> QED BY <2>1, <2>2
<1>11. CASE UNCHANGED vars
  BY <1>11 DEF vars
<1> QED BY <1>1, <1>2, <1>3, <1>4, <1>5, <1>6, <1>7, <1>8, <1>9, <1>10, <1>11 DEF Next

--------------------------------------------------------------------------------
(* What a step of the system does to the receiving side of one end.            *)

ReceiveStays(d) == buffer'[d] = buffer[d] /\ incoming'[d] = incoming[d] /\ handled'[d] = handled[d]

Waits(d) == ReceiveStays(d) /\ read'[d] = read[d]

Handles(d) ==
  /\ incoming[d] # <<>> /\ read'[d] = read[d] /\ buffer'[d] = buffer[d]
  /\ handled'[d] = Append(handled[d], Head(incoming[d])) /\ incoming'[d] = Tail(incoming[d])

ReadDone(d) ==
  /\ read[d].part \in {"header", "body"} /\ read[d].result = "pending" /\ wire[Peer(d)] # <<>>
  /\ read'[d] = Done(read[d]) /\ buffer'[d] = Head(wire[Peer(d)]).n
  /\ wire'[Peer(d)] = Tail(wire[Peer(d)])
  /\ incoming'[d] = incoming[d] /\ handled'[d] = handled[d] /\ link' = link

(* The operation fails or is aborted, or its handler gives up. *)
ReadGivenUp(d) ==
  /\ ReceiveStays(d)
  /\ \/ read[d] # Idle /\ (read'[d] = Failed(read[d]) \/ (read'[d] = Idle /\ link' = link))
     \/ read'[d] = Aborted(read[d]) /\ link' = link

Connects(d) ==
  /\ d = "client" /\ ReceiveStays(d)
  /\ \/ read[d] = [part |-> "connect", result |-> "pending"] /\ read'[d] = Done(read[d])
     \/ read[d] = [part |-> "connect", result |-> "ok"] /\ read'[d] = Start(d, "header")

Accepts(d) ==
  /\ d = "server" /\ ReceiveStays(d) /\ link = "connected" /\ link' = "accepted"
  /\ read'[d] = [part |-> "header", result |-> "pending"]

BodyWanted(d) ==
  /\ ReceiveStays(d) /\ link' = link
  /\ read[d] = [part |-> "header", result |-> "ok"] /\ buffer[d] \in Bodied
  /\ read'[d] = Start(d, "body")

MessageIn(d) ==
  /\ read[d].part \in {"header", "body"} /\ read[d].result = "ok"
  /\ read[d].part = "header" => buffer[d] \notin Bodied
  /\ incoming'[d] = Append(incoming[d], buffer[d]) /\ handled'[d] = handled[d]
  /\ buffer'[d] = buffer[d] /\ read'[d] = Start(d, "header") /\ link' = link

ReceiveMove(d) ==
  \/ Waits(d) \/ Handles(d) \/ ReadDone(d) \/ ReadGivenUp(d) \/ Connects(d) \/ Accepts(d)
  \/ BodyWanted(d) \/ MessageIn(d)

(* Every step makes such a move at every end. *)
LEMMA ReceiveMoves ==
  ASSUME TypeOK, [Next]_vars, NEW d \in Ends
  PROVE  ReceiveMove(d)
<1> USE DEF ReceiveMove, Waits, ReceiveStays
<1>1. CASE Linking
  <2>1. CASE Establish
    BY <2>1 DEF Establish, Connects, TypeOK
  <2>2. CASE Refuse
    BY <2>2 DEF Refuse, ReadGivenUp, Idle, TypeOK
  <2>3. CASE ConnectHandler
    <3>1. read["client"] # Idle /\ read["client"] \in Ops({"connect", "header", "body"})
      BY <2>3 DEF ConnectHandler, Idle, TypeOK, Ends
    <3>2. CASE read["client"].result = "ok"
      <4>1. read["client"] = [part |-> "connect", result |-> "ok"]
        BY <2>3, <3>1, <3>2 DEF ConnectHandler, Ops
      <4> QED BY <2>3, <3>2, <4>1 DEF ConnectHandler, Connects, TypeOK
    <3>3. CASE read["client"].result # "ok"
      BY <2>3, <3>1, <3>3 DEF ConnectHandler, ReadGivenUp, TypeOK
    <3> QED BY <3>2, <3>3
  <2>4. CASE Accept
    BY <2>4 DEF Accept, Accepts, TypeOK
  <2>5. CASE Deny
    BY <2>5 DEF Deny
  <2> QED BY <1>1, <2>1, <2>2, <2>3, <2>4, <2>5 DEF Linking
<1>2. CASE Kick \/ ClientDisconnect
  BY <1>2 DEF Kick, ClientDisconnect
<1>4. ASSUME NEW e \in Ends, e # d, Calls(e) \/ Posted(e) PROVE Waits(d)
  BY <1>4 DEF Calls, Send, StopContext, Update, Posted, RunPostedSend, RunPostedClose, TypeOK
<1>5. ASSUME NEW e \in Ends, e # d, Writing(e) PROVE Waits(d)
  BY <1>5 DEF Writing, KernelWrites, WriteRefused, WriteFails, WriteError, HeaderWritten,
              MessageWritten, TypeOK
<1>6. ASSUME NEW e \in Ends, e # d, Reading(e) PROVE Waits(d)
  BY <1>6 DEF Reading, KernelReads, ReadEof, ReadFails, ReadError, HeaderRead, MessageRead, TypeOK
<1>7. ASSUME Calls(d) PROVE ReceiveMove(d)
  BY <1>7 DEF Calls, Send, StopContext, Update, Handles, TypeOK
<1>8. ASSUME Posted(d) PROVE ReceiveMove(d)
  BY <1>8 DEF Posted, RunPostedSend, RunPostedClose, ReadGivenUp, TypeOK
<1>9. ASSUME Writing(d) PROVE ReceiveMove(d)
  <2>1. CASE WriteError(d)
    BY <2>1 DEF WriteError, ReadGivenUp, TypeOK
  <2>2. CASE ~WriteError(d)
    BY <1>9, <2>2 DEF Writing, KernelWrites, WriteRefused, WriteFails, HeaderWritten, MessageWritten
  <2> QED BY <2>1, <2>2
<1>10. ASSUME Reading(d) PROVE ReceiveMove(d)
  <2>0. Peer(d) \in Ends
    BY DEF Peer, Ends
  <2>1. CASE KernelReads(d)
    BY <2>1, <2>0 DEF KernelReads, ReadDone, TypeOK
  <2>2. CASE ReadEof(d) \/ ReadFails(d)
    BY <2>2 DEF ReadEof, ReadFails, ReadGivenUp, Idle, TypeOK
  <2>3. CASE ReadError(d)
    BY <2>3 DEF ReadError, ReadGivenUp, Idle, TypeOK
  <2>4. CASE HeaderRead(d)
    BY <2>4 DEF HeaderRead, BodyWanted, TypeOK
  <2>5. CASE MessageRead(d)
    BY <2>5 DEF MessageRead, MessageIn, TypeOK
  <2> QED BY <1>10, <2>1, <2>2, <2>3, <2>4, <2>5 DEF Reading
<1>11. CASE UNCHANGED vars
  BY <1>11 DEF vars
<1> QED BY <1>1, <1>2, <1>4, <1>5, <1>6, <1>7, <1>8, <1>9, <1>10, <1>11 DEF Next

(* A frame goes on a wire by KernelWrites and leaves it by KernelReads; when   *)
(* one end does so the other side of the link rests.  An accepted link stays.  *)
LEMMA WireMoves ==
  ASSUME TypeOK, [Next]_vars, NEW d \in Ends
  PROVE  /\ \/ WriteDone(d) /\ Waits(Peer(d))
            \/ ReadDone(Peer(d)) /\ Rests(d)
            \/ wire'[d] = wire[d]
         /\ link = "accepted" => link' = "accepted"
<1>0. Peer(d) \in Ends /\ Peer(d) # d /\ \A e \in Ends : e # d => e = Peer(d) /\ Peer(e) = d
  BY DEF Peer, Ends
<1>1. CASE Linking
  BY <1>1 DEF Linking, Establish, Refuse, ConnectHandler, Accept, Deny
<1>2. CASE Kick \/ ClientDisconnect
  BY <1>2 DEF Kick, ClientDisconnect
<1>3. ASSUME NEW e \in Ends, Calls(e) \/ Posted(e) PROVE wire' = wire /\ link' = link
  BY <1>3 DEF Calls, Send, StopContext, Update, Posted, RunPostedSend, RunPostedClose
<1>4. ASSUME NEW e \in Ends, Writing(e), ~KernelWrites(e) PROVE wire' = wire /\ link' = link
  BY <1>4 DEF Writing, WriteRefused, WriteFails, WriteError, HeaderWritten, MessageWritten
<1>5. ASSUME NEW e \in Ends, Reading(e), ~KernelReads(e) PROVE wire' = wire /\ link' = link
  BY <1>5 DEF Reading, ReadEof, ReadFails, ReadError, HeaderRead, MessageRead
<1>6. CASE KernelWrites(d)
  BY <1>6, <1>0 DEF KernelWrites, WriteDone, SendStays, Waits, ReceiveStays, TypeOK
<1>7. ASSUME NEW e \in Ends, e # d, KernelWrites(e) PROVE wire'[d] = wire[d] /\ link' = link
  BY <1>7 DEF KernelWrites, TypeOK
<1>8. ASSUME NEW e \in Ends, e # d, KernelReads(e)
      PROVE  ReadDone(Peer(d)) /\ Rests(d) /\ link' = link
  BY <1>8, <1>0 DEF KernelReads, ReadDone, Rests, SendStays, TypeOK
<1>9. CASE KernelReads(d)
  BY <1>9, <1>0 DEF KernelReads, TypeOK
<1>10. CASE UNCHANGED vars
  BY <1>10 DEF vars
<1> QED BY <1>1, <1>2, <1>3, <1>4, <1>5, <1>6, <1>7, <1>8, <1>9, <1>10 DEF Next, Writing, Reading

--------------------------------------------------------------------------------
(* Each move keeps the invariants of its side, and changes the frame that the  *)
(* side wants to move next only by moving a frame.                             *)

(* What the operations of asio carry when they start, complete and fail. *)
LEMMA OpFacts ==
  /\ \A d, part : /\ Start(d, part).part = part
                  /\ Start(d, part).result \in {"pending", "err"}
                  /\ part # "none" => Start(d, part) # Idle
  /\ \A parts : \A op \in Ops(parts) :
       /\ Done(op).part = op.part /\ Done(op).result = "ok" /\ Done(op) # Idle
       /\ Failed(op).part = op.part /\ Failed(op).result = "err" /\ Failed(op) # Idle
       /\ Aborted(op).part = op.part /\ (Aborted(op) = op \/ Aborted(op).result = "err")
       /\ Aborted(op) = Idle => op = Idle
       /\ op.result \in {"none", "pending", "ok", "err"}
       /\ op.result = "none" <=> op = Idle
  BY DEF Start, Done, Failed, Aborted, Ops, Idle

(* The sends that came before the posted ones are a number of sends. *)
LEMMA BeforeType ==
  ASSUME NEW P \in Seq(Handlers), NEW n \in Nat, Counted(P, n)
  PROVE  Before(P, n) \in Nat /\ Before(P, n) <= n
<1>1. CASE P = <<>>
  BY <1>1 DEF Before
<1>2. CASE P # <<>>
  <2>1. P[1] \in Handlers /\ 1 \in DOMAIN P
    BY <1>2, ElementType
  <2>2. Weight(P[1]) <= P[1].n /\ P[1].n <= n /\ P[1].n \in Nat /\ Weight(P[1]) \in {0, 1}
    BY <2>1 DEF Counted, Handlers, Weight
  <2> QED BY <1>2, <2>2 DEF Before
<1> QED BY <1>1, <1>2

(* What the sending side says of one end, with the types that go with it. *)
LEMMA SendFacts ==
  ASSUME TypeOK, NEW d \in Ends, SendSide(d)
  PROVE  /\ posted[d] \in Seq(Handlers) /\ out[d] \in Seq(Nat) /\ sent[d] \in Nat
         /\ write[d] \in Ops({"header", "body"})
         /\ Popped(d) \in Nat
         /\ Popped(d) + Len(out[d]) = Before(posted[d], sent[d])
         /\ Before(posted[d], sent[d]) <= sent[d]
         /\ out[d] # <<>> => Head(out[d]) = Popped(d) + 1 /\ Popped(d) + 1 <= sent[d]
<1>1. /\ posted[d] \in Seq(Handlers) /\ out[d] \in Seq(Nat) /\ sent[d] \in Nat
      /\ write[d] \in Ops({"header", "body"})
  BY DEF TypeOK
<1>2. Before(posted[d], sent[d]) \in Nat /\ Before(posted[d], sent[d]) <= sent[d]
  BY <1>1, BeforeType DEF SendSide
<1>3. Popped(d) \in Nat /\ Popped(d) + Len(out[d]) = Before(posted[d], sent[d])
  BY <1>1, <1>2 DEF SendSide, Popped
<1>4. ASSUME out[d] # <<>> PROVE Head(out[d]) = Popped(d) + 1 /\ Popped(d) + 1 <= sent[d]
  <2>1. Head(out[d]) = Popped(d) + 1
    BY <1>1, <1>3, <1>4, ConsecutiveTail DEF SendSide
  <2>2. Len(out[d]) >= 1
    BY <1>1, <1>4
  <2> QED BY <2>1, <2>2, <1>1, <1>2, <1>3
<1> QED BY <1>1, <1>2, <1>3, <1>4

(* The sending side after a step. *)
LEMMA SendSideStep ==
  ASSUME TypeOK, TypeOK', NEW d \in Ends, SendSide(d), SendMove(d),
         write[d] # Idle => out[d] # <<>>
  PROVE  /\ SendSide(d)' /\ sent[d] <= sent'[d]
         /\ Popped(d)' = IF MessageNext(d) THEN Popped(d) + 1 ELSE Popped(d)
<1>0. /\ posted[d] \in Seq(Handlers) /\ out[d] \in Seq(Nat) /\ sent[d] \in Nat
      /\ Popped(d) \in Nat /\ Popped(d) + Len(out[d]) = Before(posted[d], sent[d])
      /\ write[d] \in Ops({"header", "body"})
  BY SendFacts
<1>sizes. sent'[d] \in Nat /\ posted'[d] \in Seq(Handlers) /\ out'[d] \in Seq(Nat)
  BY DEF TypeOK
<1>1. CASE MessageNext(d)
  <2>1. out[d] # <<>> /\ posted'[d] = posted[d] /\ sent'[d] = sent[d] /\ out'[d] = Tail(out[d])
    BY <1>1, <1>0, OpFacts DEF MessageNext, Idle
  <2>2. Len(out'[d]) = Len(out[d]) - 1
    BY <2>1, <1>0
  <2>3. Popped(d)' = Popped(d) + 1
    BY <2>1, <2>2, <1>0 DEF Popped
  <2>4. Consecutive(out'[d], Popped(d) + 1)
    BY <2>1, <1>0, ConsecutiveTail DEF SendSide
  <2> QED BY <1>0, <1>1, <2>1, <2>3, <2>4 DEF SendSide
<1>2. CASE Posts(d)
  <2>1. PICK h \in Handlers : /\ h.n = sent[d] + Weight(h) /\ sent'[d] = h.n
                              /\ posted'[d] = Append(posted[d], h)
    BY <1>2 DEF Posts
  <2>2. out'[d] = out[d] /\ write'[d] = write[d]
    BY <1>2 DEF Posts
  <2>3. Counted(posted[d], sent[d])
    BY DEF SendSide
  <2>4. Counted(posted'[d], sent'[d]) /\ Before(posted'[d], sent'[d]) = Before(posted[d], sent[d])
    BY <2>1, <2>3, <1>0, CountedAppend
  <2>5. Popped(d)' = Popped(d)
    BY <2>2, <2>4 DEF Popped
  <2>6. ~MessageNext(d)
    <3>1. Len(Append(posted[d], h)) = Len(posted[d]) + 1
      BY <1>0
    <3>2. Len(posted[d]) \in Nat
      BY <1>0
    <3>3. Len(posted'[d]) # Len(posted[d])
      BY <2>1, <3>1, <3>2
    <3> QED BY <3>3 DEF MessageNext
  <2>7. sent[d] <= sent'[d]
    <3>1. Weight(h) \in {0, 1}
      BY DEF Weight
    <3> QED BY <2>1, <3>1, <1>0
  <2> QED BY <2>2, <2>4, <2>5, <2>6, <2>7 DEF SendSide
<1>3. CASE TakesSend(d) \/ TakesClose(d)
  <2>1. posted[d] # <<>> /\ posted'[d] = Tail(posted[d]) /\ sent'[d] = sent[d]
    BY <1>3 DEF TakesSend, TakesClose
  <2>2. /\ Counted(posted'[d], sent'[d])
        /\ Before(posted'[d], sent'[d]) = posted[d][1].n
        /\ Before(posted[d], sent[d]) = posted[d][1].n - Weight(posted[d][1])
        /\ posted[d][1].n \in Nat
    BY <2>1, <1>0, CountedTail DEF SendSide
  <2>3. ~MessageNext(d)
    <3>1. Len(posted'[d]) # Len(posted[d])
      BY <2>1, <1>0
    <3> QED BY <3>1 DEF MessageNext
  <2>4. Head(posted[d]) = posted[d][1]
    BY <2>1, <1>0, FrontAndRest
  <2>5. CASE TakesSend(d)
    <3>1. Weight(posted[d][1]) = 1 /\ out'[d] = Append(out[d], posted[d][1].n)
      BY <2>5, <2>4 DEF TakesSend, Weight
    <3>0. Popped(d) + Len(out[d]) = posted[d][1].n - 1
      BY <3>1, <2>2, <1>0
    <3>2. posted[d][1].n = Popped(d) + Len(out[d]) + 1
      BY <3>0, <2>2
    <3>3. Len(out'[d]) = Len(out[d]) + 1 /\ Popped(d)' = Popped(d)
      BY <3>1, <3>2, <2>2, <1>0 DEF Popped
    <3>4. Consecutive(out'[d], Popped(d))
      BY <3>1, <3>2, <1>0, ConsecutiveAppend DEF SendSide
    <3> QED BY <2>1, <2>2, <2>3, <3>3, <3>4, <1>0 DEF SendSide
  <2>6. CASE TakesClose(d)
    <3>1. Weight(posted[d][1]) = 0 /\ out'[d] = out[d]
      BY <2>6, <2>4 DEF TakesClose, Weight
    <3>2. Popped(d)' = Popped(d)
      BY <3>1, <2>2, <1>0 DEF Popped
    <3> QED BY <2>1, <2>2, <2>3, <3>1, <3>2, <1>0 DEF SendSide
  <2> QED BY <1>3, <2>5, <2>6
<1>4. CASE SendStays(d)
  <2>1. Popped(d)' = Popped(d) /\ posted'[d] = posted[d] /\ out'[d] = out[d] /\ sent'[d] = sent[d]
    BY <1>4 DEF SendStays, Popped
  <2>2. SendSide(d)'
    BY <2>1 DEF SendSide
  <2>3. CASE MessageNext(d)
    BY <1>1, <2>3
  <2>4. CASE ~MessageNext(d)
    BY <2>1, <2>2, <2>4, <1>0
  <2> QED BY <2>3, <2>4
<1> QED BY <1>1, <1>2, <1>3, <1>4 DEF SendMove, Rests, WriteDone, WriteLost, WriteGivenUp, BodyNext

(* The frame the writer will write next, after a step. *)
LEMMA WriterStep ==
  ASSUME TypeOK, TypeOK', NEW d \in Ends, SendSide(d), SendMove(d),
         write[d] # Idle => out[d] # <<>>
  PROVE  /\ Writer(d)' => Writer(d)
         /\ WriteDone(d) => /\ Writer(d) /\ NextWrite(d) = Frame(write[d].part, Head(out[d]))
                            /\ NextWrite(d)' = Succ(NextWrite(d))
         /\ ~WriteDone(d) /\ Writer(d)' => NextWrite(d)' = NextWrite(d)
<1>0. /\ posted[d] \in Seq(Handlers) /\ out[d] \in Seq(Nat) /\ sent[d] \in Nat
      /\ Popped(d) \in Nat /\ write[d] \in Ops({"header", "body"})
      /\ out[d] # <<>> => Head(out[d]) = Popped(d) + 1
  BY SendFacts
<1>1. Popped(d)' = IF MessageNext(d) THEN Popped(d) + 1 ELSE Popped(d)
  BY SendSideStep
<1>2. Writer(d) <=> write[d].result # "err" /\ (write[d] = Idle => out[d] = <<>>)
  BY DEF Writer
<1>3. Writer(d)' <=> write'[d].result # "err" /\ (write'[d] = Idle => out'[d] = <<>>)
  BY DEF Writer
<1>4. write[d].part \in {"none", "header", "body"} /\ (write[d] # Idle => write[d].part # "none")
  BY <1>0 DEF Ops, Idle
<1>5. CASE MessageNext(d)
  <2>1. write[d].result = "ok" /\ write[d] # Idle /\ Popped(d)' = Popped(d) + 1
    BY <1>1, <1>5 DEF MessageNext, Idle
  <2>2. Writer(d) /\ ~WriteDone(d)
    BY <1>2, <1>5, <2>1 DEF MessageNext, WriteDone
  <2>3. NextWrite(d) = Frame("header", Popped(d) + 2)
    <3>1. Head(out[d]) = Popped(d) + 1
      BY <2>1, <1>0
    <3>2. CASE write[d].part = "header"
      <4>1. Popped(d) + 1 \notin Bodied
        BY <1>5, <3>1, <3>2 DEF MessageNext
      <4> QED BY <3>2, <4>1, <2>1, <1>0 DEF NextWrite, CurrentPart, Succ, Frame
    <3>3. CASE write[d].part = "body"
      BY <3>3, <2>1, <1>0 DEF NextWrite, CurrentPart, Succ, Frame
    <3> QED BY <3>2, <3>3, <2>1, <1>4
  <2>4. CurrentPart(write'[d]) = "header" /\ write'[d].result # "ok"
    BY <1>5, OpFacts DEF MessageNext, CurrentPart, Idle
  <2>5. NextWrite(d)' = Frame("header", Popped(d) + 2)
    <3>1. NextWrite(d)' = Frame("header", Popped(d)' + 1)
      BY <2>4 DEF NextWrite
    <3> QED BY <3>1, <2>1, <1>0
  <2> QED BY <2>2, <2>3, <2>5
<1>6. CASE BodyNext(d)
  <2>1. write[d].result = "ok" /\ write[d].part = "header" /\ write[d] # Idle /\ ~MessageNext(d)
    BY <1>6 DEF BodyNext, MessageNext, Idle
  <2>2. Writer(d) /\ ~WriteDone(d) /\ Popped(d)' = Popped(d)
    BY <1>1, <1>2, <2>1 DEF WriteDone
  <2>3. Popped(d) + 1 \in Bodied
    BY <1>6, <1>0, <2>1 DEF BodyNext
  <2>4. NextWrite(d) = Frame("body", Popped(d) + 1)
    BY <2>1, <2>3 DEF NextWrite, CurrentPart, Succ, Frame
  <2>5. CurrentPart(write'[d]) = "body" /\ write'[d].result # "ok"
    BY <1>6, OpFacts DEF BodyNext, CurrentPart
  <2>6. NextWrite(d)' = Frame("body", Popped(d) + 1)
    BY <2>2, <2>5 DEF NextWrite
  <2> QED BY <2>2, <2>4, <2>6
<1>7. CASE WriteDone(d)
  <2>1. write[d].result = "pending" /\ write'[d] = Done(write[d]) /\ ~MessageNext(d)
    BY <1>7 DEF WriteDone, MessageNext
  <2>2. Writer(d) /\ Popped(d)' = Popped(d) /\ Head(out[d]) = Popped(d) + 1
        /\ CurrentPart(write[d]) = write[d].part
    BY <1>0, <1>1, <1>2, <1>4, <2>1 DEF Idle, CurrentPart
  <2>3. CurrentPart(write'[d]) = CurrentPart(write[d]) /\ write'[d].result = "ok"
    BY <2>1, <1>0, OpFacts DEF CurrentPart
  <2>4. NextWrite(d) = Frame(write[d].part, Head(out[d]))
    BY <2>1, <2>2 DEF NextWrite
  <2>5. NextWrite(d)' = Succ(NextWrite(d))
    BY <2>1, <2>2, <2>3 DEF NextWrite
  <2> QED BY <1>7, <2>2, <2>4, <2>5
<1>8. CASE write'[d].result = "err"
  BY <1>3, <1>7, <1>8
<1>9. CASE write'[d] = Idle /\ out'[d] # <<>>
  BY <1>3, <1>7, <1>9
<1>10. CASE TakesSend(d) /\ out[d] = <<>>
  <2>1. write[d] = Idle /\ ~MessageNext(d) /\ ~WriteDone(d)
    BY <1>10, <1>0 DEF TakesSend, MessageNext, WriteDone, Idle
  <2>2. Writer(d) /\ Popped(d)' = Popped(d)
    BY <1>1, <1>2, <1>10, <2>1 DEF Idle
  <2>3. CurrentPart(write'[d]) = "header" /\ write'[d].result # "ok"
    BY <1>10, OpFacts DEF TakesSend, CurrentPart
  <2>4. NextWrite(d)' = Frame("header", Popped(d) + 1)
    BY <2>2, <2>3 DEF NextWrite
  <2>5. NextWrite(d) = Frame("header", Popped(d) + 1)
    BY <2>1 DEF NextWrite, CurrentPart, Idle
  <2> QED BY <2>1, <2>2, <2>4, <2>5
<1>11. CASE /\ write'[d] = write[d] /\ ~MessageNext(d) /\ ~WriteDone(d)
            /\ out[d] = <<>> => out'[d] = <<>>
            /\ out[d] # <<>> => out'[d] # <<>>
  <2>1. NextWrite(d)' = NextWrite(d)
    BY <1>1, <1>11 DEF NextWrite
  <2> QED BY <2>1, <1>2, <1>3, <1>11
<1> QED
  <2>1. CASE Rests(d) \/ Posts(d)
    BY <2>1, <1>5, <1>7, <1>11 DEF Rests, Posts, SendStays
  <2>2. CASE TakesSend(d)
    <3>1. out'[d] # <<>>
      BY <2>2, <1>0 DEF TakesSend
    <3> QED BY <2>2, <3>1, <1>5, <1>7, <1>10, <1>11 DEF TakesSend
  <2>3. CASE TakesClose(d) \/ WriteGivenUp(d)
    <3>1. \/ write'[d] = Aborted(write[d]) /\ out'[d] = out[d]
          \/ write[d].result = "err" /\ write'[d] = Idle /\ out'[d] = out[d]
      BY <2>3 DEF TakesClose, WriteGivenUp, SendStays
    <3>2. CASE write'[d] = Aborted(write[d]) /\ out'[d] = out[d]
      BY <3>2, <1>0, <1>5, <1>7, <1>8, <1>11, OpFacts
    <3>3. CASE write[d].result = "err" /\ write'[d] = Idle /\ out'[d] = out[d]
      BY <3>3, <1>9 DEF Idle
    <3> QED BY <3>1, <3>2, <3>3
  <2>4. CASE WriteLost(d)
    BY <2>4, <1>0, <1>8, OpFacts DEF WriteLost
  <2> QED BY <2>1, <2>2, <2>3, <2>4, <1>5, <1>6, <1>7 DEF SendMove

(* The receiving side after a step, conjunct by conjunct. *)
LEMMA ReceiveSideFrom ==
  ASSUME NEW d \in Ends, Consecutive(handled'[d], 0), Consecutive(incoming'[d], Len(handled'[d])),
         (read'[d].part = "body" \/ read'[d] = [part |-> "header", result |-> "ok"]) =>
            buffer'[d] = Received(d)' + 1,
         Received(d)' <= sent'[Peer(d)], buffer'[d] <= sent'[Peer(d)]
  PROVE  ReceiveSide(d)'
  BY DEF ReceiveSide

(* The receiving side after a step. *)
LEMMA ReceiveSideStep ==
  ASSUME TypeOK, TypeOK', NEW d \in Ends, ReceiveSide(d), ReceiveMove(d), ChainInv(Peer(d)),
         sent[Peer(d)] <= sent'[Peer(d)]
  PROVE  /\ ReceiveSide(d)'
         /\ Received(d)' = IF MessageIn(d) THEN Received(d) + 1 ELSE Received(d)
         /\ ReadDone(d) => NextRead(d) = Head(wire[Peer(d)])
<1> DEFINE p == Peer(d)
<1>0. /\ p \in Ends /\ incoming[d] \in Seq(Nat) /\ handled[d] \in Seq(Nat) /\ buffer[d] \in Nat
      /\ sent[p] \in Nat /\ sent'[p] \in Nat /\ wire[p] \in Seq(Frames)
      /\ read[d] \in Ops({"connect", "header", "body"})
      /\ sent[p] <= sent'[p]
  BY DEF TypeOK, Peer, Ends
<1>sizes. Len(incoming[d]) \in Nat /\ Len(handled[d]) \in Nat /\ Received(d) \in Nat
       /\ Received(d) = Len(handled[d]) + Len(incoming[d])
       /\ Received(d)' = Len(handled'[d]) + Len(incoming'[d])
  <2>1. Received(d) = Len(handled[d]) + Len(incoming[d])
    BY DEF Received
  <2>2. Received(d)' = Len(handled'[d]) + Len(incoming'[d])
    BY DEF Received
  <2>3. Len(incoming[d]) \in Nat /\ Len(handled[d]) \in Nat
    BY <1>0, LengthType
  <2> QED BY <2>1, <2>2, <2>3, Sums
<1>1. /\ Consecutive(handled[d], 0) /\ Consecutive(incoming[d], Len(handled[d]))
      /\ (read[d].part = "body" \/ read[d] = [part |-> "header", result |-> "ok"]) =>
            buffer[d] = Received(d) + 1
      /\ Received(d) <= sent[p] /\ buffer[d] <= sent[p]
  BY DEF ReceiveSide
<1>2. CASE ReadDone(d)
  <2>1. /\ wire[p] # <<>> /\ read[d].result = "pending" /\ read[d].part \in {"header", "body"}
        /\ buffer'[d] = Head(wire[p]).n /\ read'[d] = Done(read[d]) /\ ~MessageIn(d)
        /\ incoming'[d] = incoming[d] /\ handled'[d] = handled[d]
    BY <1>2 DEF ReadDone, MessageIn
  <2>2. Reader(d)
    BY <2>1 DEF Reader, Idle
  <2>3. Peer(p) = d
    BY DEF Peer, Ends
  <2>4. wire[p][1] = NextRead(d) /\ wire[p][1].n <= sent[p] /\ Head(wire[p]) = wire[p][1]
    BY <2>1, <2>2, <2>3, <1>0 DEF ChainInv, Chain
  <2>5. NextRead(d) = Frame(read[d].part, Received(d) + 1)
    BY <2>1 DEF NextRead, CurrentPart
  <2>6. buffer'[d] = Received(d) + 1 /\ buffer'[d] <= sent'[p]
    <3>1. NextRead(d).n = Received(d) + 1
      BY <2>5 DEF Frame
    <3>2. buffer'[d] = Received(d) + 1
      BY <3>1, <2>1, <2>4
    <3>3. buffer'[d] <= sent[p] /\ buffer'[d] \in Nat
      <4>1. buffer'[d] = wire[p][1].n
        BY <2>1, <2>4
      <4>2. buffer'[d] <= sent[p]
        BY <4>1, <2>4
      <4>3. buffer'[d] \in Nat
        BY <1>0 DEF TypeOK
      <4> QED BY <4>2, <4>3
    <3> QED BY <3>2, <3>3, <1>0, Below
  <2>7. Received(d)' = Received(d)
    BY <2>1, <1>sizes
  <2>8. Received(d)' <= sent'[p]
    BY <2>7, <1>0, <1>1, <1>sizes, Below
  <2>9. ReceiveSide(d)'
    BY <2>1, <2>6, <2>7, <2>8, <1>1, ReceiveSideFrom
  <2> QED BY <2>1, <2>4, <2>7, <2>9
<1>3. CASE MessageIn(d)
  <2>1. /\ read[d].part \in {"header", "body"} /\ read[d].result = "ok"
        /\ incoming'[d] = Append(incoming[d], buffer[d]) /\ handled'[d] = handled[d]
        /\ buffer'[d] = buffer[d] /\ read'[d] = Start(d, "header") /\ ~ReadDone(d)
    BY <1>3 DEF MessageIn, ReadDone
  <2>2. buffer[d] = Received(d) + 1
    <3>1. read[d] \in [part : {"connect", "header", "body"}, result : {"pending", "ok", "err"}]
      BY <2>1, <1>0 DEF Ops, Idle
    <3>2. read[d].part = "header" => read[d] = [part |-> "header", result |-> "ok"]
      BY <2>1, <3>1
    <3> QED BY <2>1, <3>2, <1>1
  <2>3. Received(d)' = Received(d) + 1
    <3>1. Len(incoming'[d]) = Len(incoming[d]) + 1
      BY <2>1, <1>0
    <3> QED BY <2>1, <3>1, <1>sizes, Sums, ZenonT(30)
  <2>4. buffer[d] = Len(handled[d]) + Len(incoming[d]) + 1
    BY <2>2, <1>sizes
  <2>5. Consecutive(incoming'[d], Len(handled'[d]))
    BY <2>1, <2>4, <1>0, <1>sizes, <1>1, ConsecutiveAppend
  <2>6. read'[d].part = "header" /\ read'[d].result # "ok"
    BY <2>1, OpFacts
  <2>7. Received(d)' <= sent'[p] /\ buffer'[d] <= sent'[p]
    BY <2>1, <2>2, <2>3, <1>0, <1>1
  <2>8. ReceiveSide(d)'
    <3>1. ~(read'[d].part = "body" \/ read'[d] = [part |-> "header", result |-> "ok"])
      BY <2>6
    <3>2. Consecutive(handled'[d], 0)
      BY <2>1, <1>1
    <3> QED BY <3>1, <3>2, <2>5, <2>7, ReceiveSideFrom
  <2> QED BY <1>3, <2>1, <2>3, <2>8
<1>4. CASE Handles(d)
  <2>1. /\ incoming[d] # <<>> /\ read'[d] = read[d] /\ buffer'[d] = buffer[d]
        /\ handled'[d] = Append(handled[d], Head(incoming[d])) /\ incoming'[d] = Tail(incoming[d])
    BY <1>4 DEF Handles
  <2>2. Len(handled'[d]) = Len(handled[d]) + 1 /\ Len(incoming'[d]) = Len(incoming[d]) - 1
        /\ Len(handled[d]) \in Nat /\ Len(incoming[d]) \in Nat
    BY <2>1, <1>0
  <2>3. Head(incoming[d]) = Len(handled[d]) + 1 /\ Consecutive(incoming'[d], Len(handled'[d]))
    BY <2>1, <2>2, <1>0, <1>1, ConsecutiveTail
  <2>4. Consecutive(handled'[d], 0)
    BY <2>1, <2>3, <1>0, <1>1, ConsecutiveAppend
  <2>5. Received(d)' = Received(d)
    <3>1. Len(incoming[d]) # 0
      BY <2>1, <1>0, LengthType
    <3>2. (Len(handled[d]) + 1) + (Len(incoming[d]) - 1) = Len(handled[d]) + Len(incoming[d])
      BY <3>1, <1>sizes, Sums
    <3> QED BY <2>2, <3>2, <1>sizes
  <2>6. ~MessageIn(d) /\ ~ReadDone(d)
    <3>1. handled'[d] # handled[d]
      BY <2>2
    <3> QED BY <3>1 DEF MessageIn, ReadDone
  <2>7. Received(d)' <= sent'[p] /\ buffer'[d] <= sent'[p]
    BY <2>1, <2>5, <1>0, <1>1, <1>sizes, Below
  <2>8. ReceiveSide(d)'
    BY <2>1, <2>3, <2>4, <2>5, <2>7, <1>1, ReceiveSideFrom
  <2> QED BY <2>5, <2>6, <2>8
<1>5. CASE ReceiveStays(d)
  <2>1. incoming'[d] = incoming[d] /\ handled'[d] = handled[d] /\ buffer'[d] = buffer[d]
        /\ Received(d)' = Received(d)
    BY <1>5 DEF ReceiveStays, Received
  <2>2. CASE ReadDone(d) \/ MessageIn(d)
    BY <2>2, <1>2, <1>3
  <2>3. CASE (read'[d].part = "body" \/ read'[d] = [part |-> "header", result |-> "ok"]) =>
              buffer[d] = Received(d) + 1
    <3>0. Received(d)' <= sent'[p] /\ buffer'[d] <= sent'[p]
      BY <2>1, <1>0, <1>1, <1>sizes, Below
    <3>1. ReceiveSide(d)'
      BY <2>1, <2>3, <3>0, <1>1, ReceiveSideFrom
    <3> QED BY <3>1, <2>1, <2>2
  <2>4. CASE Waits(d)
    BY <2>3, <2>4, <1>1 DEF Waits
  <2>5. CASE ReadGivenUp(d)
    <3>1. read'[d] = Idle \/ read'[d] = Failed(read[d]) \/ read'[d] = Aborted(read[d])
      BY <2>5 DEF ReadGivenUp
    <3>2. read'[d].part = read[d].part \/ read'[d] = Idle
      BY <3>1, <1>0, OpFacts
    <3>3. read'[d].result = "err" \/ read'[d] = read[d] \/ read'[d] = Idle
      BY <3>1, <1>0, OpFacts
    <3>4. (read'[d].part = "body" \/ read'[d] = [part |-> "header", result |-> "ok"]) =>
             (read[d].part = "body" \/ read[d] = [part |-> "header", result |-> "ok"])
      BY <3>2, <3>3 DEF Idle
    <3> QED BY <2>3, <3>4, <1>1
  <2>6. CASE Connects(d) \/ Accepts(d)
    <3>1. read'[d].part # "body" /\ (read'[d].part = "connect" \/ read'[d].result # "ok")
      BY <2>6, OpFacts DEF Connects, Accepts, Done
    <3> QED BY <2>3, <3>1
  <2>7. CASE BodyWanted(d)
    BY <2>3, <2>7, <1>1 DEF BodyWanted
  <2> QED BY <1>5, <2>2, <2>4, <2>5, <2>6, <2>7, <1>4
          DEF ReceiveMove, Handles
<1> QED BY <1>2, <1>3, <1>4, <1>5 DEF ReceiveMove, Waits, ReadGivenUp, Connects, Accepts, BodyWanted

(* The frame the reader wants next, after a step. *)
LEMMA ReaderStep ==
  ASSUME TypeOK, TypeOK', NEW d \in Ends, ReceiveSide(d), ReceiveMove(d), ChainInv(Peer(d)),
         sent[Peer(d)] <= sent'[Peer(d)], Untouched, link = "accepted" => link' = "accepted"
  PROVE  /\ Reader(d)' => Reader(d)
         /\ ReadDone(d) => Reader(d) /\ NextRead(d)' = Succ(NextRead(d))
         /\ ~ReadDone(d) /\ Reader(d)' => NextRead(d)' = NextRead(d)
<1>0. /\ read[d] \in Ops({"connect", "header", "body"}) /\ Received(d) \in Nat
      /\ incoming[d] \in Seq(Nat) /\ handled[d] \in Seq(Nat)
  <2>1. /\ read[d] \in Ops({"connect", "header", "body"})
        /\ incoming[d] \in Seq(Nat) /\ handled[d] \in Seq(Nat)
    BY DEF TypeOK
  <2>2. Len(incoming[d]) \in Nat /\ Len(handled[d]) \in Nat
    BY <2>1, LengthType
  <2> QED BY <2>1, <2>2, Sums DEF Received
<1>1. Received(d)' = IF MessageIn(d) THEN Received(d) + 1 ELSE Received(d)
  BY ReceiveSideStep
<1>2. Reader(d) <=> (read[d] # Idle /\ read[d].result # "err") \/ (d = "server" /\ link # "accepted")
  BY DEF Reader
<1>3. Reader(d)' <=> (read'[d] # Idle /\ read'[d].result # "err") \/ (d = "server" /\ link' # "accepted")
  BY DEF Reader
<1>4. d = "server" /\ link # "accepted" => read[d] = Idle
  BY DEF Untouched
<1>5. (read[d].part = "body" \/ read[d] = [part |-> "header", result |-> "ok"]) =>
         buffer[d] = Received(d) + 1
  BY DEF ReceiveSide
<1>6. CASE ReadDone(d)
  <2>1. /\ read[d].part \in {"header", "body"} /\ read[d].result = "pending"
        /\ read'[d] = Done(read[d]) /\ ~MessageIn(d)
    BY <1>6 DEF ReadDone, MessageIn
  <2>2. Reader(d) /\ Received(d)' = Received(d)
    BY <2>1, <1>1, <1>2 DEF Idle
  <2>3. read'[d].part = read[d].part /\ read'[d].result = "ok"
    BY <2>1, <1>0, OpFacts
  <2>4. CurrentPart(read'[d]) = CurrentPart(read[d])
    BY <2>3 DEF CurrentPart
  <2>5. NextRead(d)' = Succ(NextRead(d))
    BY <2>1, <2>2, <2>3, <2>4 DEF NextRead
  <2> QED BY <1>6, <2>2, <2>5
<1>7. CASE MessageIn(d)
  <2>1. /\ read[d].part \in {"header", "body"} /\ read[d].result = "ok"
        /\ read'[d] = Start(d, "header") /\ ~ReadDone(d)
        /\ read[d].part = "header" => buffer[d] \notin Bodied
    BY <1>7 DEF ReadDone, MessageIn
  <2>2. Reader(d) /\ Received(d)' = Received(d) + 1
    BY <2>1, <1>1, <1>2, <1>7 DEF Idle
  <2>3. NextRead(d) = Frame("header", Received(d) + 2)
    <3>1. CASE read[d].part = "header"
      <4>1. read[d] \in [part : {"connect", "header", "body"}, result : {"pending", "ok", "err"}]
        BY <2>1, <1>0 DEF Ops, Idle
      <4>2. read[d] = [part |-> "header", result |-> "ok"]
        BY <2>1, <3>1, <4>1
      <4>3. Received(d) + 1 \notin Bodied
        BY <2>1, <3>1, <4>2, <1>5
      <4> QED BY <4>2, <4>3, <1>0 DEF NextRead, CurrentPart, Succ, Frame
    <3>2. CASE read[d].part = "body"
      BY <3>2, <2>1, <1>0 DEF NextRead, CurrentPart, Succ, Frame
    <3> QED BY <2>1, <3>1, <3>2
  <2>4. CurrentPart(read'[d]) = "header" /\ read'[d].result # "ok"
    BY <2>1, OpFacts DEF CurrentPart
  <2>5. NextRead(d)' = Frame("header", Received(d) + 2)
    <3>1. NextRead(d)' = Frame("header", Received(d)' + 1)
      BY <2>4 DEF NextRead
    <3>2. (Received(d) + 1) + 1 = Received(d) + 2
      BY <1>0
    <3> QED BY <3>1, <3>2, <2>2
  <2> QED BY <2>1, <2>2, <2>3, <2>5
<1>8. CASE BodyWanted(d)
  <2>1. /\ read[d] = [part |-> "header", result |-> "ok"] /\ read'[d] = Start(d, "body")
        /\ buffer[d] \in Bodied /\ ~ReadDone(d)
    BY <1>8 DEF BodyWanted, ReadDone
  <2>2. ~MessageIn(d)
    BY <2>1 DEF MessageIn
  <2>3. Reader(d) /\ Received(d)' = Received(d)
    BY <2>1, <2>2, <1>1, <1>2 DEF Idle
  <2>4. NextRead(d) = Frame("body", Received(d) + 1)
    BY <2>1, <1>5 DEF NextRead, CurrentPart, Succ, Frame
  <2>5. CurrentPart(read'[d]) = "body" /\ read'[d].result # "ok"
    BY <2>1, OpFacts DEF CurrentPart
  <2>6. NextRead(d)' = Frame("body", Received(d) + 1)
    BY <2>3, <2>5 DEF NextRead
  <2> QED BY <2>1, <2>3, <2>4, <2>6
<1>9. CASE ~MessageIn(d) /\ read'[d] = read[d]
  <2>1. ~ReadDone(d)
    <3>1. ASSUME ReadDone(d) PROVE FALSE
      <4>1. read[d].result = "pending" /\ read'[d].result = "ok"
        BY <3>1, <1>0, OpFacts DEF ReadDone
      <4> QED BY <4>1, <1>9
    <3> QED BY <3>1
  <2>2. NextRead(d)' = NextRead(d)
    BY <1>1, <1>9 DEF NextRead
  <2> QED BY <2>1, <2>2, <1>2, <1>3, <1>9
<1>10. CASE Handles(d)
  <2>1. ~MessageIn(d)
    <3>1. handled'[d] # handled[d]
      <4>1. Len(handled'[d]) = Len(handled[d]) + 1 /\ Len(handled[d]) \in Nat
        BY <1>0, <1>10 DEF Handles
      <4> QED BY <4>1
    <3> QED BY <3>1 DEF MessageIn
  <2> QED BY <2>1, <1>9, <1>10 DEF Handles
<1>11. CASE ReadGivenUp(d)
  <2>1. \/ read'[d].result = "err" \/ read'[d] = read[d] \/ read'[d] = Idle
    BY <1>11, <1>0, OpFacts DEF ReadGivenUp
  <2>2. CASE read'[d] = read[d]
    BY <2>2, <1>7, <1>9
  <2>3. CASE read'[d].result = "err"
    <3>1. d = "server" /\ link # "accepted" => read[d] = Idle /\ Aborted(Idle) = Idle
      BY <1>4 DEF Aborted, Idle
    <3>2. ~(d = "server" /\ link' # "accepted")
      BY <3>1, <2>3, <1>11, <1>3 DEF ReadGivenUp, Idle
    <3> QED BY <3>2, <2>3, <1>3, <1>6
  <2>4. CASE read'[d] = Idle /\ read[d] # Idle
    <3>1. ~(d = "server" /\ link' # "accepted")
      BY <2>4, <1>4, <1>11
    <3> QED BY <3>1, <2>4, <1>3, <1>6
  <2> QED BY <2>1, <2>2, <2>3, <2>4
<1>12. CASE Connects(d)
  <2>1. /\ d = "client" /\ read[d].part = "connect" /\ Reader(d) /\ ~ReadDone(d) /\ ~MessageIn(d)
    BY <1>12, <1>2 DEF Connects, ReadDone, MessageIn, Idle
  <2>2. CurrentPart(read[d]) = "header"
    BY <2>1 DEF CurrentPart
  <2>3. NextRead(d) = Frame("header", Received(d) + 1)
    BY <2>1, <2>2 DEF NextRead
  <2>4. /\ CurrentPart(read'[d]) = "header"
        /\ read'[d].part = "connect" \/ read'[d].result # "ok"
    BY <1>12, OpFacts DEF Connects, CurrentPart, Done
  <2>5. NextRead(d)' = Frame("header", Received(d) + 1)
    BY <2>1, <2>4, <1>1 DEF NextRead
  <2> QED BY <2>1, <2>3, <2>5
<1>13. CASE Accepts(d)
  <2>1. read[d] = Idle /\ Reader(d) /\ ~ReadDone(d) /\ ~MessageIn(d)
    BY <1>13, <1>2, <1>4 DEF Accepts, ReadDone, MessageIn, Idle
  <2>2. NextRead(d) = Frame("header", Received(d) + 1)
    BY <2>1 DEF NextRead, CurrentPart, Idle
  <2>3. NextRead(d)' = Frame("header", Received(d) + 1)
    BY <2>1, <1>1, <1>13 DEF Accepts, NextRead, CurrentPart
  <2> QED BY <2>1, <2>2, <2>3
<1>14. CASE Waits(d)
  BY <1>7, <1>9, <1>14 DEF Waits
<1> QED BY <1>6, <1>7, <1>8, <1>10, <1>11, <1>12, <1>13, <1>14 DEF ReceiveMove

--------------------------------------------------------------------------------
(* The inductive invariant. *)

(* The chain of one direction, after a step of the writer, the reader or none. *)
LEMMA ChainStep ==
  ASSUME IInv, TypeOK', [Next]_vars, NEW d \in Ends
  PROVE  ChainInv(d)'
<1> DEFINE p == Peer(d)
<1>0. p \in Ends /\ Peer(p) = d
  BY DEF Peer, Ends
<1>1. /\ TypeOK /\ Untouched /\ SendSide(d) /\ ReceiveSide(p) /\ ChainInv(d)
      /\ write[d] # Idle => out[d] # <<>>
  BY <1>0 DEF IInv, FrontExists
<1>2. SendMove(d) /\ ReceiveMove(p)
  BY <1>0, <1>1, SendMoves, ReceiveMoves
<1>3. /\ sent[d] <= sent'[d] /\ sent[d] \in Nat /\ sent'[d] \in Nat
      /\ wire[d] \in Seq(Frames)
  BY <1>1, <1>2, SendSideStep DEF TypeOK
<1>4. /\ (WriteDone(d) /\ Waits(p)) \/ (ReadDone(p) /\ Rests(d)) \/ wire'[d] = wire[d]
      /\ link = "accepted" => link' = "accepted"
  BY <1>1, WireMoves
<1>5. /\ Writer(d)' => Writer(d)
      /\ WriteDone(d) => /\ Writer(d) /\ NextWrite(d) = Frame(write[d].part, Head(out[d]))
                         /\ NextWrite(d)' = Succ(NextWrite(d))
      /\ ~WriteDone(d) /\ Writer(d)' => NextWrite(d)' = NextWrite(d)
  BY <1>1, <1>2, WriterStep
<1>6. /\ Reader(p)' => Reader(p)
      /\ ReadDone(p) => Reader(p) /\ NextRead(p)' = Succ(NextRead(p))
      /\ ~ReadDone(p) /\ Reader(p)' => NextRead(p)' = NextRead(p)
  BY <1>0, <1>1, <1>2, <1>3, <1>4, ReaderStep
<1>7. Chain(wire[d], sent[d], Reader(p), NextRead(p), Writer(d), NextWrite(d))
  BY <1>1 DEF ChainInv
<1>8. SUFFICES Chain(wire'[d], sent'[d], Reader(p)', NextRead(p)', Writer(d)', NextWrite(d)')
  BY DEF ChainInv
<1>9. CASE WriteDone(d) /\ Waits(p)
  <2>1. wire'[d] = Append(wire[d], NextWrite(d)) /\ sent'[d] = sent[d]
    BY <1>5, <1>9 DEF WriteDone, SendStays
  <2>2. Writer(d) /\ NextWrite(d)' = Succ(NextWrite(d))
    BY <1>5, <1>9
  <2>3. NextWrite(d) \in Frames /\ NextWrite(d).n <= sent[d]
    <3>1. write[d] # Idle /\ write[d].part \in {"header", "body"}
      BY <1>1, <1>9, SMTT(30) DEF WriteDone, TypeOK, Ops, Idle
    <3>2. Head(out[d]) = Popped(d) + 1 /\ Popped(d) + 1 <= sent[d] /\ Popped(d) \in Nat
      BY <1>1, <3>1, SendFacts
    <3>3. Head(out[d]) \in Nat
      BY <1>1, <3>1, FrontAndRest DEF TypeOK
    <3> QED BY <3>1, <3>2, <3>3, <1>5, <1>9 DEF Frame, Frames
  <2>4. ~ReadDone(p)
    <3>1. read'[p] = read[p] /\ read[p] \in Ops({"connect", "header", "body"})
      BY <1>0, <1>1, <1>9 DEF Waits, TypeOK
    <3> QED BY <3>1, OpFacts DEF ReadDone
  <2>5. Chain(wire'[d], sent[d], Reader(p), NextRead(p), Writer(d), Succ(NextWrite(d)))
    BY <2>1, <2>2, <2>3, <1>3, <1>7, ChainAppend
  <2>6. wire'[d] \in Seq(Frames)
    BY DEF TypeOK
  <2>7. Reader(p)' => Reader(p) /\ NextRead(p)' = NextRead(p)
    BY <2>4, <1>6
  <2>8. Writer(d)' => Writer(d) /\ NextWrite(d)' = Succ(NextWrite(d))
    BY <2>2
  <2> QED BY <2>5, <2>6, <2>7, <2>8, <1>3, ChainKept
<1>10. CASE ReadDone(p) /\ Rests(d)
  <2>1. wire'[d] = Tail(wire[d]) /\ wire[d] # <<>>
    BY <1>0, <1>10 DEF ReadDone
  <2>2. Reader(p) /\ NextRead(p)' = Succ(NextRead(p))
    BY <1>6, <1>10
  <2>3. ~WriteDone(d)
    <3>1. write'[d] = write[d] /\ write[d] \in Ops({"header", "body"})
      BY <1>1, <1>10 DEF Rests, TypeOK
    <3> QED BY <3>1, OpFacts DEF WriteDone
  <2>4. Chain(wire'[d], sent[d], Reader(p), Succ(NextRead(p)), Writer(d), NextWrite(d))
    <3>1. Chain(Tail(wire[d]), sent[d], Reader(p), Succ(NextRead(p)), Writer(d), NextWrite(d))
      <4>1. wire[d] # <<>> /\ Reader(p) /\ sent[d] \in Nat /\ wire[d] \in Seq(Frames)
        BY <2>1, <2>2, <1>3
      <4> HIDE DEF p
      <4> QED BY <4>1, <1>7, ChainTail
    <3> QED BY <2>1, <3>1
  <2>5. wire'[d] \in Seq(Frames)
    BY DEF TypeOK
  <2>6. Writer(d)' => Writer(d) /\ NextWrite(d)' = NextWrite(d)
    BY <2>3, <1>5
  <2>7. Reader(p)' => Reader(p) /\ NextRead(p)' = Succ(NextRead(p))
    BY <2>2
  <2> QED BY <2>4, <2>5, <2>6, <2>7, <1>3, ChainKept
<1>11. CASE wire'[d] = wire[d]
  <2>1. ~WriteDone(d)
    <3>1. Len(Append(wire[d], Frame(write[d].part, Head(out[d])))) = Len(wire[d]) + 1
      BY <1>3
    <3>2. Len(wire[d]) \in Nat
      BY <1>3, LengthType
    <3> QED BY <3>1, <3>2, <1>11 DEF WriteDone
  <2>2. ~ReadDone(p)
    <3>1. ASSUME wire[d] # <<>> PROVE Len(Tail(wire[d])) = Len(wire[d]) - 1 /\ Len(wire[d]) \in Nat
      BY <1>3, <3>1, FrontAndRest, LengthType
    <3>2. ASSUME ReadDone(p) PROVE FALSE
      <4>1. wire[d] # <<>> /\ wire'[d] = Tail(wire[d])
        BY <3>2, <1>0 DEF ReadDone
      <4>2. Len(Tail(wire[d])) = Len(wire[d]) - 1 /\ Len(wire[d]) \in Nat
        BY <4>1, <3>1
      <4>3. Tail(wire[d]) = wire[d]
        BY <4>1, <1>11
      <4>4. Len(Tail(wire[d])) = Len(wire[d])
        BY <4>3
      <4> QED BY <4>2, <4>4
    <3> QED BY <3>2
  <2>3. Reader(p)' => Reader(p) /\ NextRead(p)' = NextRead(p)
    BY <2>2, <1>6
  <2>4. Writer(d)' => Writer(d) /\ NextWrite(d)' = NextWrite(d)
    BY <2>1, <1>5
  <2> QED BY <2>3, <2>4, <1>3, <1>7, <1>11, ChainKept
<1> QED BY <1>4, <1>9, <1>10, <1>11

(* The write pump of one end: front() exists and an open socket keeps pumping. *)
LEMMA PumpStep ==
  ASSUME TypeOK, Untouched, NEW d \in Ends, SendMove(d),
         write[d] # Idle => out[d] # <<>>,
         open[d] /\ out[d] # <<>> => write[d] # Idle
  PROVE  /\ write'[d] # Idle => out'[d] # <<>>
         /\ open'[d] /\ out'[d] # <<>> => write'[d] # Idle
<1>1. out[d] \in Seq(Nat) /\ write[d] \in Ops({"header", "body"}) /\ posted[d] \in Seq(Handlers)
  BY DEF TypeOK
<1>2. CASE Rests(d)
  BY <1>2 DEF Rests, SendStays, Untouched
<1>3. CASE Posts(d)
  BY <1>3 DEF Posts
<1>4. CASE TakesSend(d)
  <2>1. out'[d] # <<>>
    <3>1. Head(posted[d]) \in Handlers
      BY <1>1, <1>4, FrontAndRest DEF TakesSend
    <3>2. out'[d] = Append(out[d], Head(posted[d]).n)
      BY <1>4 DEF TakesSend
    <3>3. Len(Append(out[d], Head(posted[d]).n)) = Len(out[d]) + 1 /\ Len(out[d]) \in Nat
      BY <1>1, <3>1 DEF Handlers
    <3>4. Len(out'[d]) # 0
      BY <3>2, <3>3
    <3>5. Len(<<>>) = 0
      OBVIOUS
    <3> QED BY <3>4, <3>5
  <2>2. open[d] => write'[d] # Idle
    BY <1>4, OpFacts DEF TakesSend
  <2>3. open'[d] = open[d]
    BY <1>4 DEF TakesSend
  <2> QED BY <2>1, <2>2, <2>3
<1>abort. Aborted(Idle) = Idle
  BY DEF Aborted, Idle
<1>5. CASE TakesClose(d)
  BY <1>1, <1>5, <1>abort DEF TakesClose
<1>6. CASE WriteDone(d)
  BY <1>1, <1>6, OpFacts DEF WriteDone, SendStays, Idle
<1>7. CASE WriteLost(d)
  BY <1>1, <1>7, OpFacts DEF WriteLost, SendStays, Idle
<1>8. CASE WriteGivenUp(d)
  BY <1>1, <1>8, <1>abort DEF WriteGivenUp, SendStays
<1>9. CASE BodyNext(d)
  BY <1>1, <1>9, OpFacts DEF BodyNext, SendStays, Idle
<1>10. CASE MessageNext(d)
  <2>1. out[d] # <<>> /\ out'[d] = Tail(out[d]) /\ open'[d] = open[d]
    BY <1>10 DEF MessageNext, Idle
  <2>2. Len(out[d]) > 1 => out'[d] # <<>>
    <3>1. Len(Tail(out[d])) = Len(out[d]) - 1 /\ Len(out[d]) \in Nat
      BY <1>1, <2>1, FrontAndRest, LengthType
    <3>2. Len(<<>>) = 0
      OBVIOUS
    <3>3. Len(out'[d]) = Len(Tail(out[d]))
      BY <2>1
    <3>4. ASSUME Len(out[d]) > 1 PROVE Len(Tail(out[d])) # 0
      <4>1. Len(Tail(out[d])) \in Int /\ Len(out[d]) \in Int
        BY <1>1, <2>1, <3>1, FrontAndRest, LengthType
      <4> QED BY <4>1, <3>1, <3>4, NotLast
    <3> QED BY <3>2, <3>3, <3>4
  <2>5. ~(Len(out[d]) > 1) => out'[d] = <<>>
    BY <1>1, <2>1
  <2>3. write'[d] = (IF Len(out[d]) > 1 THEN Start(d, "header") ELSE Idle)
    BY <1>10 DEF MessageNext
  <2>4. Start(d, "header") # Idle
    BY OpFacts
  <2> QED BY <2>2, <2>3, <2>4, <2>5
<1> QED BY <1>2, <1>3, <1>4, <1>5, <1>6, <1>7, <1>8, <1>9, <1>10 DEF SendMove

(* Before the accept no step of the server is possible but the accept itself.  *)
LEMMA UntouchedStep ==
  ASSUME TypeOK, TypeOK', Untouched, [Next]_vars
  PROVE  Untouched'
<1>1. CASE link = "accepted"
  <2>1. link' = "accepted"
    BY <1>1, WireMoves DEF Ends
  <2> QED BY <2>1 DEF Untouched
<1>2. CASE link # "accepted"
  <2>0. /\ ~open["server"] /\ posted["server"] = <<>> /\ out["server"] = <<>>
        /\ write["server"] = Idle /\ read["server"] = Idle
        /\ handled["server"] = <<>> /\ incoming["server"] = <<>>
    BY <1>2 DEF Untouched
  <2> DEFINE Same == /\ open'["server"] = open["server"] /\ posted'["server"] = posted["server"]
                     /\ out'["server"] = out["server"] /\ write'["server"] = write["server"]
                     /\ read'["server"] = read["server"] /\ handled'["server"] = handled["server"]
                     /\ incoming'["server"] = incoming["server"]
  <2>1. CASE Accept
    BY <2>1 DEF Accept, Untouched
  <2>2. ASSUME Linking, ~Accept PROVE Same
    <3>1. CASE Establish
      BY <3>1 DEF Establish, TypeOK, Ends
    <3>2. CASE Refuse
      BY <3>2 DEF Refuse, TypeOK, Ends
    <3>3. CASE ConnectHandler
      BY <3>3 DEF ConnectHandler, TypeOK, Ends
    <3>4. CASE Deny
      BY <3>4 DEF Deny
    <3> QED BY <2>2, <3>1, <3>2, <3>3, <3>4 DEF Linking
  <2>3. ~Kick
    BY <2>0 DEF Kick
  <2>4. ASSUME ClientDisconnect PROVE Same
    BY <2>4 DEF ClientDisconnect, TypeOK
  <2>5. ASSUME NEW e \in Ends, Calls(e) PROVE Same
    BY <2>0, <2>5 DEF Calls, Send, StopContext, Update, TypeOK, Ends
  <2>6. ASSUME NEW e \in Ends, Posted(e) PROVE Same
    <3>1. e = "client"
      BY <2>0, <2>6 DEF Posted, RunPostedSend, RunPostedClose, Ends
    <3> QED BY <2>6, <3>1, ZenonT(30) DEF Posted, RunPostedSend, RunPostedClose, TypeOK, Ends
  <2>7. ASSUME NEW e \in Ends, Writing(e) PROVE Same
    <3>1. e = "client"
      BY <2>0, <2>7 DEF Writing, KernelWrites, WriteRefused, WriteFails, WriteError, HeaderWritten,
                        MessageWritten, Ends, Idle
    <3>2. CASE WriteError(e)
      BY <3>1, <3>2 DEF WriteError, TypeOK, Ends
    <3>3. CASE ~WriteError(e)
      BY <2>7, <3>1, <3>3 DEF Writing, KernelWrites, WriteRefused, WriteFails, HeaderWritten,
                              MessageWritten, TypeOK, Ends
    <3> QED BY <3>2, <3>3
  <2>8. ASSUME NEW e \in Ends, Reading(e) PROVE Same
    <3>1. e = "client"
      BY <2>0, <2>8 DEF Reading, KernelReads, ReadEof, ReadFails, ReadError, HeaderRead, MessageRead,
                        Ends, Idle
    <3>2. CASE ReadError(e)
      BY <3>1, <3>2 DEF ReadError, TypeOK, Ends
    <3>3. CASE ~ReadError(e)
      BY <2>8, <3>1, <3>3 DEF Reading, KernelReads, ReadEof, ReadFails, HeaderRead, MessageRead,
                              TypeOK, Ends
    <3> QED BY <3>2, <3>3
  <2>9. ASSUME UNCHANGED vars PROVE Same
    BY <2>9 DEF vars
  <2>10. Accept \/ Same
    BY <2>2, <2>3, <2>4, <2>5, <2>6, <2>7, <2>8, <2>9 DEF Next
  <2> QED BY <2>0, <2>1, <2>10 DEF Untouched
<1> QED BY <1>1, <1>2

(* A link starts in the inductive invariant. *)
LEMMA IInvInit == Init => IInv
<1> SUFFICES ASSUME Init PROVE IInv
  OBVIOUS
<1>1. TypeOK /\ Untouched /\ FrontExists /\ PumpAwake
  BY TypeInit DEF Init, Untouched, FrontExists, PumpAwake, Ends
<1>2. ASSUME NEW e \in Ends PROVE SendSide(e)
  BY <1>2 DEF Init, SendSide, Counted, Popped, Before, Consecutive
<1>3. ASSUME NEW e \in Ends PROVE ReceiveSide(e)
  <2>1. Peer(e) \in Ends
    BY <1>3 DEF Peer, Ends
  <2> QED BY <1>3, <2>1 DEF Init, ReceiveSide, Received, Consecutive, Idle
<1>4. ASSUME NEW e \in Ends PROVE ChainInv(e)
  <2>1. Peer(e) \in Ends
    BY <1>4 DEF Peer, Ends
  <2>2. wire[e] = <<>> /\ NextWrite(e) = Frame("header", 1)
    BY <1>4 DEF Init, NextWrite, CurrentPart, Popped, Before, Idle
  <2>3. NextRead(Peer(e)) = Frame("header", 1)
    BY <2>1 DEF Init, NextRead, CurrentPart, Received, Idle
  <2> QED BY <2>2, <2>3 DEF ChainInv, Chain
<1> QED BY <1>1, <1>2, <1>3, <1>4 DEF IInv

(* Every step keeps it. *)
LEMMA IInvStep == IInv /\ [Next]_vars => IInv'
<1> SUFFICES ASSUME IInv, [Next]_vars PROVE IInv'
  OBVIOUS
<1>1. TypeOK /\ Untouched /\ FrontExists /\ PumpAwake
  BY DEF IInv
<1>2. TypeOK'
  BY <1>1, TypeStep
<1>3. Untouched'
  BY <1>1, <1>2, UntouchedStep
<1>4. ASSUME NEW d \in Ends
      PROVE  /\ SendMove(d) /\ ReceiveMove(d) /\ SendSide(d) /\ ReceiveSide(d)
             /\ (write[d] # Idle => out[d] # <<>>)
             /\ (open[d] /\ out[d] # <<>> => write[d] # Idle)
  BY <1>1, <1>4, SendMoves, ReceiveMoves DEF IInv, FrontExists, PumpAwake
<1>5. FrontExists' /\ PumpAwake'
  BY <1>1, <1>4, PumpStep DEF FrontExists, PumpAwake
<1>6. ASSUME NEW d \in Ends PROVE SendSide(d)' /\ sent[d] <= sent'[d]
  BY <1>1, <1>2, <1>4, <1>6, SendSideStep
<1>7. ASSUME NEW d \in Ends PROVE ReceiveSide(d)'
  <2>1. Peer(d) \in Ends /\ sent[Peer(d)] <= sent'[Peer(d)]
    BY <1>6, <1>7 DEF Peer, Ends
  <2>2. ReceiveSide(d) /\ ReceiveMove(d) /\ ChainInv(Peer(d))
    BY <1>4, <1>7, <2>1 DEF IInv
  <2> QED BY <1>1, <1>2, <1>7, <2>1, <2>2, ReceiveSideStep
<1>8. ASSUME NEW d \in Ends PROVE ChainInv(d)'
  BY <1>2, <1>8, ChainStep
<1> QED BY <1>2, <1>3, <1>5, <1>6, <1>7, <1>8 DEF IInv

--------------------------------------------------------------------------------
(* The theorems. *)

(* So it holds in every state of a run. *)
LEMMA Invariant == Spec => []IInv
BY IInvInit, IInvStep, PTL DEF Spec

(* Every variable keeps its type in every run, for every MaxSends and Bodied.  *)
THEOREM TypeCorrect == Spec => []TypeOK
<1>1. IInv => TypeOK
  BY DEF IInv
<1> QED BY <1>1, Invariant, PTL

(* OnMessage sees the messages of the peer once and in the order of its Send   *)
(* calls, whatever the interleaving of handlers, closes and failures is.       *)
THEOREM InOrderHolds == Spec => []InOrder
<1>1. IInv => InOrder
  <2> SUFFICES ASSUME IInv, NEW e \in Ends
               PROVE  /\ \A i \in DOMAIN handled[e] : handled[e][i] = i
                      /\ Len(handled[e]) <= sent[Peer(e)]
    BY DEF InOrder
  <2>1. /\ Consecutive(handled[e], 0) /\ Received(e) <= sent[Peer(e)]
        /\ handled[e] \in Seq(Nat) /\ incoming[e] \in Seq(Nat) /\ sent[Peer(e)] \in Nat
    BY DEF IInv, ReceiveSide, TypeOK, Peer, Ends
  <2>2. Len(handled[e]) \in Nat /\ Len(incoming[e]) \in Nat
    BY <2>1, LengthType
  <2>3. Len(handled[e]) <= sent[Peer(e)]
    <3>1. Len(handled[e]) + Len(incoming[e]) <= sent[Peer(e)] /\ sent[Peer(e)] \in Nat
      BY <2>1 DEF Received
    <3>2. \A a, b, c \in Nat : a + b <= c => a <= c
      OBVIOUS
    <3> QED BY <2>1, <2>2, <3>1, <3>2
  <2>4. \A i \in DOMAIN handled[e] : handled[e][i] = i
    BY <2>1 DEF Consecutive
  <2> QED BY <2>3, <2>4
<1> QED BY <1>1, Invariant, PTL

(* A read that waits finds the frame it is for: the chain of frames begins     *)
(* with the one the reader wants next.                                         *)
THEOREM InStepHolds == Spec => []InStep
<1>1. IInv => InStep
  <2> SUFFICES ASSUME IInv, NEW e \in Ends, read[e].part \in {"header", "body"},
                      read[e].result = "pending", wire[Peer(e)] # <<>>
               PROVE  /\ Head(wire[Peer(e)]).part = read[e].part
                      /\ read[e].part = "body" => Head(wire[Peer(e)]).n = buffer[e]
    BY DEF InStep
  <2>1. Peer(e) \in Ends /\ Peer(Peer(e)) = e
    BY DEF Peer, Ends
  <2>2. Reader(e)
    BY DEF Reader, Idle
  <2>3. Head(wire[Peer(e)]) = NextRead(e)
    <3>1. wire[Peer(e)] \in Seq(Frames)
      BY <2>1 DEF IInv, TypeOK
    <3>2. wire[Peer(e)][1] = NextRead(e)
      BY <2>1, <2>2 DEF IInv, ChainInv, Chain
    <3> QED BY <3>1, <3>2, FrontAndRest
  <2>4. NextRead(e) = Frame(read[e].part, Received(e) + 1)
    BY DEF NextRead, CurrentPart
  <2>5. read[e].part = "body" => buffer[e] = Received(e) + 1
    BY DEF IInv, ReceiveSide
  <2> QED BY <2>3, <2>4, <2>5 DEF Frame
<1> QED BY <1>1, Invariant, PTL

(* front() is never taken from an empty queue. *)
THEOREM FrontExistsHolds == Spec => []FrontExists
<1>1. IInv => FrontExists
  BY DEF IInv
<1> QED BY <1>1, Invariant, PTL

(* An open socket with a queued message always has a write working for it.     *)
THEOREM PumpAwakeHolds == Spec => []PumpAwake
<1>1. IInv => PumpAwake
  BY DEF IInv
<1> QED BY <1>1, Invariant, PTL

(* Once the link is broken it stays broken. *)
LEMMA BrokenStays ==
  ASSUME TypeOK, TypeOK', [Next]_vars, Broken
  PROVE  Broken'
<1>1. ASSUME link \in {"refused", "denied"} PROVE link' = link
  <2>1. ASSUME Linking PROVE link' = link
    BY <1>1, <2>1 DEF Linking, Establish, Refuse, ConnectHandler, Accept, Deny
  <2>2. ASSUME ~Linking PROVE link' = link
    BY <2>2 DEF Next, Kick, ClientDisconnect, Calls, Send, StopContext, Update, Posted,
                RunPostedSend, RunPostedClose, Writing, KernelWrites, WriteRefused, WriteFails,
                WriteError, HeaderWritten, MessageWritten, Reading, KernelReads, ReadEof, ReadFails,
                ReadError, HeaderRead, MessageRead, vars
  <2> QED BY <2>1, <2>2
<1>2. ASSUME NEW e \in Ends, ctx[e] # "running" PROVE ctx'[e] # "running"
  <2>1. ASSUME ctx' = ctx PROVE ctx'[e] # "running"
    BY <1>2, <2>1
  <2>2. ASSUME NEW d, RunsOut(d) PROVE ctx'[e] # "running"
    BY <1>2, <2>2 DEF RunsOut, TypeOK
  <2>3. ASSUME ctx' # ctx, \A d : ~RunsOut(d) PROVE ctx'[e] # "running"
    <3>1. CASE ClientDisconnect
      BY <1>2, <3>1 DEF ClientDisconnect, TypeOK
    <3>2. ASSUME NEW d \in Ends, StopContext(d) PROVE ctx'[e] # "running"
      BY <1>2, <3>2 DEF StopContext, TypeOK
    <3> QED BY <2>3, <3>1, <3>2
            DEF Next, Linking, Establish, Refuse, ConnectHandler, Accept, Deny, Kick, Calls, Send,
                Update, Posted, RunPostedSend, RunPostedClose, Writing, KernelWrites, WriteRefused,
                WriteFails, WriteError, HeaderWritten, MessageWritten, Reading, KernelReads, ReadEof,
                ReadFails, ReadError, HeaderRead, MessageRead, vars
  <2> QED BY <2>1, <2>2, <2>3
<1>3. ASSUME NEW e \in Ends, ~open[e], e = "client" \/ link = "accepted"
      PROVE  ~open'[e] /\ (e = "client" \/ link' = "accepted")
  <2>1. Rests(e) \/ Posts(e) \/ ~open'[e] \/ open'[e] = open[e]
    BY <1>3, SendMoves
       DEF SendMove, TakesSend, TakesClose, WriteDone, WriteLost, WriteGivenUp, BodyNext, MessageNext
  <2>2. ~open'[e]
    BY <1>3, <2>1 DEF Rests, Posts
  <2>3. link = "accepted" => link' = "accepted"
    BY <1>3, WireMoves
  <2> QED BY <1>3, <2>2, <2>3
<1> QED BY <1>1, <1>2, <1>3 DEF Broken

(* The two ends implement the safety part of the FIFO channel: a step hands    *)
(* over the next message, sends one, breaks the link, or does nothing to it.   *)
THEOREM ImplementsSafe == Spec => Channel!Safe
<1>1. Init => Channel!Init
  BY ZenonT(30) DEF Init, Channel!Init, Broken, Ends
<1>2. ASSUME IInv, IInv', [Next]_vars PROVE [Channel!Next]_(Channel!vars)
  <2>0. TypeOK /\ TypeOK'
    BY <1>2 DEF IInv
  <2>1. ASSUME NEW e \in Ends, Send(e) PROVE Channel!Send(e)
    BY <2>1 DEF Send, Channel!Send, Broken
  <2>2. ASSUME NEW e \in Ends, Update(e) PROVE Channel!Deliver(e, Peer(e)) /\ Peer(e) # e
    <3>1. /\ handled[e] \in Seq(Nat) /\ incoming[e] \in Seq(Nat) /\ incoming[e] # <<>>
          /\ sent[Peer(e)] \in Nat /\ Consecutive(incoming[e], Len(handled[e]))
          /\ Received(e) <= sent[Peer(e)]
      BY <1>2, <2>0, <2>2 DEF IInv, ReceiveSide, Update, TypeOK, Peer, Ends
    <3>2. Head(incoming[e]) = Len(handled[e]) + 1
      BY <3>1, ConsecutiveTail, LengthType
    <3>3. Len(handled[e]) < sent[Peer(e)]
      <4>1. Len(incoming[e]) \in Nat /\ Len(incoming[e]) # 0 /\ Len(handled[e]) \in Nat
        BY <3>1, LengthType
      <4>2. Len(handled[e]) + Len(incoming[e]) <= sent[Peer(e)]
        BY <3>1 DEF Received
      <4>3. \A a, b, c \in Nat : b # 0 /\ a + b <= c => a < c
        OBVIOUS
      <4> QED BY <3>1, <4>1, <4>2, <4>3
    <3>4. handled' = [handled EXCEPT ![e] = Append(@, Len(@) + 1)]
      BY <2>2, <3>2 DEF Update
    <3>5. UNCHANGED <<sent, ~Broken>>
      BY <2>2 DEF Update, Broken
    <3> QED BY <3>3, <3>4, <3>5 DEF Channel!Deliver, Peer, Ends
  <2>3. ASSUME ~\E e \in Ends : Send(e) \/ Update(e) PROVE UNCHANGED <<sent, handled>>
    BY <1>2, <2>3
       DEF Next, Linking, Establish, Refuse, ConnectHandler, Accept, Deny, Kick, ClientDisconnect,
           Calls, StopContext, Posted, RunPostedSend, RunPostedClose, Writing, KernelWrites,
           WriteRefused, WriteFails, WriteError, HeaderWritten, MessageWritten, Reading, KernelReads,
           ReadEof, ReadFails, ReadError, HeaderRead, MessageRead, vars
  <2>4. ASSUME UNCHANGED <<sent, handled>> PROVE Channel!Fail \/ UNCHANGED Channel!vars
    <3>1. Broken => Broken'
      BY <1>2, <2>0, BrokenStays
    <3> QED BY <2>4, <3>1 DEF Channel!Fail, Channel!vars
  <2>5. ASSUME NEW e \in Ends PROVE Peer(e) \in Ends
    BY DEF Peer, Ends
  <2> QED BY <2>1, <2>2, <2>3, <2>4, <2>5 DEF Channel!Next
<1> QED BY <1>1, <1>2, Invariant, PTL DEF Spec, Channel!Safe
=================================================================================

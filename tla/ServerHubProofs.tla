----------------------------- MODULE ServerHubProofs -----------------------------
(* Proofs about ServerHub, for any number of connections, any width of the key *)
(* of connectionStatus and any bounds: its types and the deque without null    *)
(* pointers, that only the accept handler can take part in a deadlock, that    *)
(* connectionStatus keeps what it was told, and that a broadcast reaches each  *)
(* connection once and in order.                                               *)
EXTENDS ServerHub, SequenceLemmas

(* What is left of a queue are elements at different places of it, no null     *)
(* pointer among them.                                                         *)
LEMMA WithoutNullSelects ==
  ASSUME NEW S, NEW q \in Seq(S)
  PROVE  /\ WithoutNull(q) \in Seq(S \ {Null})
         /\ \A i \in DOMAIN WithoutNull(q) : \E a \in DOMAIN q : WithoutNull(q)[i] = q[a]
         /\ \A i, j \in DOMAIN WithoutNull(q) :
              i # j => \E a, b \in DOMAIN q : a # b /\ WithoutNull(q)[i] = q[a]
                                                    /\ WithoutNull(q)[j] = q[b]
<1>1. PICK kept : kept = {i \in DOMAIN q : q[i] # Null}
  OBVIOUS
<1>2. PICK w : w = WithoutNull(q)
  OBVIOUS
<1>3. w = Selection(q, kept)
  BY <1>1, <1>2 DEF WithoutNull, Selection
<1>4. kept \in SUBSET (DOMAIN q) /\ \A i \in kept : q[i] \in S \ {Null}
  BY <1>1
<1>5. /\ Cardinality(kept) \in Nat /\ DOMAIN w = 1..Cardinality(kept)
      /\ \A k \in DOMAIN w : \E i \in kept : w[k] = q[i]
      /\ \A k, m \in DOMAIN w : k # m => \E i, j \in kept : i # j /\ w[k] = q[i] /\ w[m] = q[j]
      /\ w \in Seq({q[i] : i \in kept})
  BY <1>3, <1>4, Selected
<1>6. w \in Seq(S \ {Null})
  BY <1>4, <1>5
<1>7. \A i \in DOMAIN w : \E a \in DOMAIN q : w[i] = q[a]
  BY <1>4, <1>5
<1>8. \A i, j \in DOMAIN w : i # j => \E a, b \in DOMAIN q : a # b /\ w[i] = q[a] /\ w[j] = q[b]
  BY <1>4, <1>5
<1> QED BY <1>2, <1>6, <1>7, <1>8

(* The mutexes are held by one thread at a time, by each as far as what it is  *)
(* doing says: renderMutex is taken first, but for the accept handler.         *)
LockInv ==
  /\ \A t, u \in Threads : t # u => holds[t] \cap holds[u] = {}
  /\ holds["asio"] = IF \E c \in Conns : stage[c] = "pushed" THEN {"deq"} ELSE {}
  /\ holds["main"] = IF doing.kind = "idle" THEN {}
                     ELSE IF doing.at = 0 THEN {"render"} ELSE {"render", "deq"}
  /\ holds["ui"] \subseteq {"render"}
  /\ doing.kind = "idle" => doing = Idle
  /\ doing.kind = "forget" => doing.at = 0

(* The accept handler is with one connection at a time.  Whoever sent a        *)
(* message, and whoever main is at or has given up, has joined.                *)
JoinInv ==
  /\ \A c, d \in Conns : c # d => stage[c] \in {"away", "joined", "denied"}
                                  \/ stage[d] \in {"away", "joined", "denied"}
  /\ \A i \in DOMAIN inbox : stage[inbox[i].from] = "joined"
  /\ doing.kind # "idle" => doing.from \in Conns /\ stage[doing.from] = "joined"
  /\ \A c \in told : stage[c] = "joined"

Numbered(c) == stage[c] \in {"pushed", "joined"}

(* A connection that was pushed has a number of its own, and is in the deque   *)
(* once at most; the null pointers in it are those that a walk has left behind. *)
DequeInv ==
  /\ nextId >= 1
  /\ \A c \in Conns : Numbered(c) => id[c] \in 1..nextId-1
  /\ \A c, d \in Conns : Numbered(c) /\ Numbered(d) /\ c # d => id[c] # id[d]
  /\ \A i \in DOMAIN deque : deque[i] # Null => Numbered(deque[i])
  /\ \A i, j \in DOMAIN deque : i # j /\ deque[i] # Null => deque[i] # deque[j]
  /\ \A i \in DOMAIN deque : deque[i] = Null => doing.kind = "relay" /\ i < doing.at

(* Main is on its walk along the deque, with the last broadcast begun.          *)
Walking == doing.kind = "relay" /\ doing.at # 0

(* That broadcast, for those at a place of the deque that main has not come to.  *)
Pending(i) == IF Walking /\ i >= doing.at THEN {Len(relayed)} ELSE {}

(* What was sent to a connection is ascending and a first part of what was      *)
(* meant for it.                                                                *)
FirstPart(c) ==
  /\ \A i, j \in DOMAIN got[c] : i < j => got[c][i] < got[c][j]
  /\ Sent(c) \subseteq Owed(c)
  /\ \A k \in Sent(c), j \in Owed(c) : j < k => j \in Sent(c)
  /\ ~Numbered(c) => got[c] = <<>>

(* To those in the deque all of it was sent, but for the broadcast under way.   *)
SentInv ==
  /\ \A c \in Conns : FirstPart(c) /\ joinedAt[c] <= Len(relayed)
  /\ \A c \in Conns : \A i \in DOMAIN deque : deque[i] = c =>
       /\ Owed(c) \ Pending(i) = Sent(c) \ Pending(i)
       /\ Sent(c) \cap Pending(i) = {}
  /\ Walking => relayed # <<>> /\ relayed[Len(relayed)] = doing.from
  /\ Walking => \A c \in Conns : \A i \in DOMAIN deque : deque[i] = c =>
                   joinedAt[c] < Len(relayed)

(* The keys of those who told their status and are not lost.                   *)
StatusInv == nextId <= KeyCount + 1 => \A c \in told \ lost : Key(id[c]) \in status

(* The inductive invariant.                                                    *)
HubIInv == TypeOK /\ LockInv /\ JoinInv /\ DequeInv /\ SentInv /\ StatusInv

--------------------------------------------------------------------------------
(* Steps that leave alone what the invariants are about, but for what has come *)
(* in and whose socket is open.                                                *)
Quiet == UNCHANGED <<holds, stage, id, nextId, deque, status, doing, relayed, joinedAt, got,
                     lost, told>>

(* What a client does, and what runs on its socket, is such a step.            *)
LEMMA QuietSteps ==
  /\ \A c \in Conns, kind \in {"relay", "answer", "status"} : Receive(c, kind) => Quiet
  /\ \A c \in Conns : Break(c) \/ RunClose(c) \/ Kick(c) \/ BanUser(c) => Quiet /\ UNCHANGED inbox
  /\ \A a \in Addresses : BanExact(a) \/ Unban(a) => Quiet /\ UNCHANGED inbox
  /\ Answer => Quiet
  /\ UNCHANGED vars => Quiet /\ UNCHANGED inbox
  BY DEF Receive, Break, RunClose, Kick, BanUser, BanExact, Unban, Answer, Quiet, accepting,
         handling, vars

(* What taking the front of the inbox gives and leaves.                        *)
LEMMA FrontOfInbox ==
  ASSUME NEW S, NEW s \in Seq(S), s # <<>>
  PROVE  /\ Head(s) \in S /\ Head(s) = s[1] /\ 1 \in DOMAIN s
         /\ Tail(s) \in Seq(S)
         /\ \A i \in DOMAIN Tail(s) : i + 1 \in DOMAIN s /\ Tail(s)[i] = s[i + 1]
  OBVIOUS

(* Every variable keeps its type.                                              *)
LEMMA TypeInit == Init => TypeOK
  BY DEF Init, TypeOK, Idle, Stages, Threads

(* No step takes a variable out of its type.                                   *)
LEMMA TypeStep == HubIInv /\ [Next]_vars => TypeOK'
<1> SUFFICES ASSUME HubIInv, [Next]_vars PROVE TypeOK'
  OBVIOUS
<1> DEFINE Messages == [kind : {"relay", "answer", "status"}, from : Conns]
           Mutexes == SUBSET {"render", "deq"}
<1> USE DEF accepting, handling
<1>0. TypeOK
  BY DEF HubIInv
<1>1. ASSUME NEW c \in Conns, Request(c) PROVE TypeOK'
  BY <1>0, <1>1 DEF Request, TypeOK, Stages
<1>2. ASSUME NEW c \in Conns PROVE Key(id[c]) \in 0..KeyCount-1
  <2>1. id[c] \in Int
    BY <1>0 DEF TypeOK
  <2> QED BY <2>1, NumbersAssumption DEF Key
<1>3. ASSUME NEW c \in Conns, Approve(c) PROVE TypeOK'
  <2>1. stage' \in [Conns -> Stages]
    <3>1. stage' = [stage EXCEPT ![c] = "refused"] \/ stage' = [stage EXCEPT ![c] = "approved"]
      BY <1>3 DEF Approve
    <3> QED BY <1>0, <3>1 DEF TypeOK, Stages
  <2>2. status' \subseteq 0..KeyCount-1
    <3>1. status' = status \/ status' = status \cup {Key(id[c])}
      BY <1>3 DEF Approve
    <3> QED BY <1>0, <1>2, <3>1 DEF TypeOK
  <2> QED BY <1>0, <1>3, <2>1, <2>2 DEF Approve, TypeOK
<1>4. ASSUME NEW c \in Conns, Push(c) PROVE TypeOK'
  <2>1. holds' \in [Threads -> Mutexes]
    <3>1. holds \in [Threads -> Mutexes] /\ "asio" \in Threads
      BY <1>0 DEF TypeOK, Threads
    <3> QED BY <1>4, <3>1 DEF Push
  <2>2. deque' \in Seq(Conns \cup {Null}) /\ Len(relayed) \in Nat
    BY <1>0, <1>4 DEF Push, TypeOK
  <2> QED BY <1>0, <1>4, <2>1, <2>2 DEF Push, TypeOK, Stages
<1>5. ASSUME NEW c \in Conns, Announce(c) PROVE TypeOK'
  <2>1. holds' \in [Threads -> Mutexes]
    <3>1. holds \in [Threads -> Mutexes] /\ "asio" \in Threads
      BY <1>0 DEF TypeOK, Threads
    <3> QED BY <1>5, <3>1 DEF Announce
  <2> QED BY <1>0, <1>5, <2>1 DEF Announce, TypeOK, Stages
<1>6. ASSUME NEW c \in Conns, Deny(c) PROVE TypeOK'
  BY <1>0, <1>6 DEF Deny, TypeOK, Stages
<1>7. ASSUME NEW c \in Conns, NEW kind \in {"relay", "answer", "status"}, Receive(c, kind)
      PROVE  TypeOK'
  <2>1. inbox \in Seq(Messages) /\ [kind |-> kind, from |-> c] \in Messages
    BY <1>0 DEF TypeOK
  <2>2. inbox' \in Seq(Messages)
    BY <1>7, <2>1 DEF Receive
  <2> QED BY <1>0, <1>7, <2>2, SMTT(30) DEF Receive, TypeOK
<1>8. ASSUME NEW c \in Conns, Break(c) \/ RunClose(c) \/ Kick(c) \/ BanUser(c) PROVE TypeOK'
  BY <1>0, <1>8, AddressAssumption DEF Break, RunClose, Kick, BanUser, TypeOK
<1>9. ASSUME NEW a \in Addresses, BanExact(a) \/ Unban(a) PROVE TypeOK'
  BY <1>0, <1>9 DEF BanExact, Unban, TypeOK
<1>10. ASSUME inbox # <<>>
       PROVE  Head(inbox).from \in Conns /\ Tail(inbox) \in Seq(Messages)
  <2>1. inbox \in Seq(Messages)
    BY <1>0 DEF TypeOK
  <2>2. Head(inbox) \in Messages /\ Tail(inbox) \in Seq(Messages)
    BY <1>10, <2>1, FrontOfInbox
  <2> QED BY <2>2
<1>11. CASE Answer
  BY <1>0, <1>10, <1>11 DEF Answer, TypeOK
<1>12. CASE KeepStatus
  <2>1. Head(inbox).from \in Conns /\ inbox' \in Seq(Messages)
    BY <1>10, <1>12 DEF KeepStatus
  <2>2. Key(id[Head(inbox).from]) \in 0..KeyCount-1
    BY <1>2, <2>1
  <2> QED BY <1>0, <1>12, <2>1, <2>2 DEF KeepStatus, TypeOK
<1>13. ASSUME NEW m \in Mutexes, holds' = [holds EXCEPT !["main"] = m]
       PROVE  holds' \in [Threads -> Mutexes]
  <2>1. holds \in [Threads -> Mutexes] /\ "main" \in Threads
    BY <1>0 DEF TypeOK, Threads
  <2> QED BY <1>13, <2>1
<1>14. CASE AnswerLost
  <2>1. Head(inbox).from \in Conns /\ inbox' \in Seq(Messages)
    BY <1>10, <1>14 DEF AnswerLost
  <2>2. holds' \in [Threads -> Mutexes]
    BY <1>13, <1>14 DEF AnswerLost
  <2>3. doing' \in [kind : {"idle", "forget", "relay"}, from : Conns \cup {Null}, at : Nat]
    BY <1>14, <2>1 DEF AnswerLost
  <2>4. status' \subseteq 0..KeyCount-1 /\ lost' \subseteq Conns
    BY <1>0, <1>14, <2>1 DEF AnswerLost, Erase, TypeOK
  <2> QED BY <1>0, <1>14, <2>1, <2>2, <2>3, <2>4 DEF AnswerLost, TypeOK
<1>15. WithoutNull(deque) \in Seq(Conns \cup {Null})
  <2>1. deque \in Seq(Conns \cup {Null})
    BY <1>0 DEF TypeOK
  <2>2. WithoutNull(deque) \in Seq((Conns \cup {Null}) \ {Null})
    BY <2>1, WithoutNullSelects
  <2> QED BY <2>2
<1>16. Idle \in [kind : {"idle", "forget", "relay"}, from : Conns \cup {Null}, at : Nat]
  BY DEF Idle
<1>17. CASE Forget
  <2>1. holds' \in [Threads -> Mutexes]
    BY <1>13, <1>17 DEF Forget
  <2> QED BY <1>0, <1>15, <1>16, <1>17, <2>1 DEF Forget, TypeOK
<1>18. CASE TakeRelay
  <2>1. Head(inbox).from \in Conns /\ inbox' \in Seq(Messages)
    BY <1>10, <1>18 DEF TakeRelay
  <2>2. holds' \in [Threads -> Mutexes]
    BY <1>13, <1>18 DEF TakeRelay
  <2>3. doing' \in [kind : {"idle", "forget", "relay"}, from : Conns \cup {Null}, at : Nat]
    BY <1>18, <2>1 DEF TakeRelay
  <2> QED BY <1>0, <1>18, <2>1, <2>2, <2>3 DEF TakeRelay, TypeOK
<1>19. CASE BeginRelay
  <2>1. holds' \in [Threads -> Mutexes]
    BY <1>13, <1>19 DEF BeginRelay
  <2>2. doing.from \in Conns
    BY <1>19 DEF BeginRelay, HubIInv, JoinInv
  <2>3. doing' \in [kind : {"idle", "forget", "relay"}, from : Conns \cup {Null}, at : Nat]
    BY <1>0, <1>19 DEF BeginRelay, TypeOK
  <2>4. relayed' \in Seq(Conns)
    BY <1>0, <1>19, <2>2 DEF BeginRelay, TypeOK
  <2> QED BY <1>0, <1>19, <2>1, <2>3, <2>4 DEF BeginRelay, TypeOK
<1>20. CASE RelayNext
  <2>1. deque[doing.at] \in Conns
    <3>1. deque[doing.at] \in Conns \cup {Null} /\ doing.at \in Nat
      BY <1>0, <1>20 DEF RelayNext, TypeOK
    <3>2. deque[doing.at] # Null
      BY <1>20, <3>1 DEF RelayNext, HubIInv, DequeInv
    <3> QED BY <3>1, <3>2
  <2>2. got' \in [Conns -> Seq(Nat)]
    <3>1. got \in [Conns -> Seq(Nat)] /\ Len(relayed) \in Nat
      BY <1>0 DEF TypeOK
    <3>2. Append(got[deque[doing.at]], Len(relayed)) \in Seq(Nat)
      BY <2>1, <3>1
    <3> QED BY <1>20, <3>1, <3>2 DEF RelayNext
  <2>3. deque' \in Seq(Conns \cup {Null})
    <3>1. deque \in Seq(Conns \cup {Null}) /\ doing.at \in DOMAIN deque
      BY <1>0, <1>20 DEF RelayNext, TypeOK
    <3>2. deque' = deque \/ deque' = [deque EXCEPT ![doing.at] = Null]
      BY <1>20 DEF RelayNext
    <3> QED BY <3>1, <3>2
  <2>4. status' \subseteq 0..KeyCount-1 /\ lost' \subseteq Conns
    BY <1>0, <1>20, <2>1 DEF RelayNext, Erase, TypeOK
  <2>5. doing' \in [kind : {"idle", "forget", "relay"}, from : Conns \cup {Null}, at : Nat]
    <3>1. doing' = [doing EXCEPT !.at = @ + 1]
      BY <1>20 DEF RelayNext
    <3>2. doing \in [kind : {"idle", "forget", "relay"}, from : Conns \cup {Null}, at : Nat]
      BY <1>0 DEF TypeOK
    <3> QED BY <3>1, <3>2
  <2> QED BY <1>0, <1>20, <2>2, <2>3, <2>4, <2>5 DEF RelayNext, TypeOK
<1>21. CASE EndRelay
  <2>1. holds' \in [Threads -> Mutexes]
    BY <1>13, <1>21 DEF EndRelay
  <2> QED BY <1>0, <1>15, <1>16, <1>21, <2>1 DEF EndRelay, TypeOK
<1>22. CASE OpenPane \/ DrawPane
  <2>1. holds' \in [Threads -> Mutexes]
    <3>1. holds \in [Threads -> Mutexes] /\ "ui" \in Threads
      BY <1>0 DEF TypeOK, Threads
    <3> QED BY <1>22, <3>1 DEF OpenPane, DrawPane
  <2>2. refreshes' \in Nat
    BY <1>0, <1>22 DEF OpenPane, DrawPane, TypeOK
  <2> QED BY <1>0, <1>22, <2>1, <2>2 DEF OpenPane, DrawPane, TypeOK
<1>23. CASE UNCHANGED vars
  BY <1>0, <1>23 DEF vars, TypeOK
<1> QED BY <1>1, <1>3, <1>4, <1>5, <1>6, <1>7, <1>8, <1>9, <1>11, <1>12, <1>14, <1>17, <1>18, <1>19,
           <1>20, <1>21, <1>22, <1>23 DEF Next, Accepting, Handling

--------------------------------------------------------------------------------
(* The mutexes.                                                                *)
LEMMA LockInit == Init => LockInv
  BY DEF Init, LockInv, Idle, Threads

(* Whoever holds a mutex keeps the others from it.                             *)
LEMMA LockStep == HubIInv /\ [Next]_vars => LockInv'
<1> SUFFICES ASSUME HubIInv, [Next]_vars PROVE LockInv'
  OBVIOUS
<1>1. LockInv
  BY DEF HubIInv
<1>2. /\ holds \in [Threads -> SUBSET {"render", "deq"}] /\ stage \in [Conns -> Stages]
      /\ doing \in [kind : {"idle", "forget", "relay"}, from : Conns \cup {Null}, at : Nat]
  BY DEF HubIInv, TypeOK
<1>3. CASE Quiet
  BY <1>1, <1>3 DEF Quiet, LockInv
<1>4. ASSUME NEW c \in Conns, Request(c) \/ Approve(c) \/ Deny(c) PROVE LockInv'
  <2>1. holds' = holds /\ doing' = doing
    BY <1>4 DEF Request, Approve, Deny, handling
  <2>2. \A d \in Conns : stage'[d] = "pushed" <=> stage[d] = "pushed"
    BY <1>2, <1>4 DEF Request, Approve, Deny, Stages
  <2> QED BY <1>1, <2>1, <2>2 DEF LockInv
<1>5. ASSUME NEW c \in Conns, Push(c) PROVE LockInv'
  <2>1. \A d \in Conns : stage[d] # "pushed"
    BY <1>5 DEF Push, HubIInv, JoinInv
  <2>2. holds["asio"] = {} /\ "deq" \notin holds["main"] /\ "deq" \notin holds["ui"]
    BY <1>1, <1>5, <2>1 DEF LockInv, Push, CanLock, Threads
  <2>3. holds' = [t \in Threads |-> IF t = "asio" THEN {"deq"} ELSE holds[t]]
    BY <1>2, <1>5, <2>2 DEF Push, Threads
  <2>4. stage'[c] = "pushed" /\ doing' = doing
    BY <1>2, <1>5 DEF Push, handling
  <2> QED BY <1>1, <2>2, <2>3, <2>4 DEF LockInv, Threads
<1>6. ASSUME NEW c \in Conns, Announce(c) PROVE LockInv'
  <2>1. \A d \in Conns : stage'[d] # "pushed"
    BY <1>2, <1>6 DEF Announce, HubIInv, JoinInv, Stages
  <2>2. holds["asio"] = {"deq"}
    BY <1>1, <1>6 DEF LockInv, Announce
  <2>3. holds' = [t \in Threads |-> IF t = "asio" THEN {} ELSE holds[t]]
    BY <1>2, <1>6, <2>2 DEF Announce, Threads
  <2>4. doing' = doing
    BY <1>6 DEF Announce, handling
  <2> QED BY <1>1, <2>1, <2>3, <2>4 DEF LockInv, Threads
<1>7. CASE KeepStatus \/ RelayNext
  <2>1. stage' = stage /\ holds' = holds
    BY <1>7 DEF KeepStatus, RelayNext, accepting
  <2>2. doing'.kind = doing.kind /\ (doing'.at = 0 <=> doing.at = 0) /\ (doing = Idle => doing' = Idle)
    <3>1. CASE KeepStatus
      BY <3>1 DEF KeepStatus
    <3>2. CASE RelayNext
      <4>1. doing' = [doing EXCEPT !.at = @ + 1] /\ doing.kind = "relay" /\ doing.at # 0
        BY <1>2, <3>2 DEF RelayNext, HubIInv, TypeOK
      <4> QED BY <1>2, <4>1 DEF Idle
    <3> QED BY <1>7, <3>1, <3>2
  <2> QED BY <1>1, <2>1, <2>2 DEF LockInv
<1>8. CASE AnswerLost \/ TakeRelay
  <2>1. stage' = stage /\ holds["main"] = {} /\ \A t \in Threads : "render" \notin holds[t]
    BY <1>1, <1>8 DEF AnswerLost, TakeRelay, accepting, CanLock, LockInv, Idle, Threads
  <2>2. holds' = [t \in Threads |-> IF t = "main" THEN {"render"} ELSE holds[t]]
    BY <1>2, <1>8 DEF AnswerLost, TakeRelay, Threads
  <2>3. doing'.kind # "idle" /\ doing'.at = 0
    BY <1>8 DEF AnswerLost, TakeRelay
  <2> QED BY <1>1, <2>1, <2>2, <2>3 DEF LockInv, Threads
<1>9. CASE Forget \/ EndRelay
  <2>1. stage' = stage /\ doing' = Idle
    BY <1>9 DEF Forget, EndRelay, accepting
  <2>2. holds' = [t \in Threads |-> IF t = "main" THEN {} ELSE holds[t]]
    BY <1>2, <1>9 DEF Forget, EndRelay, Threads
  <2> QED BY <1>1, <2>1, <2>2 DEF LockInv, Threads, Idle
<1>10. CASE BeginRelay
  <2>1. stage' = stage /\ holds["main"] = {"render"} /\ \A t \in Threads : "deq" \notin holds[t]
    BY <1>1, <1>10 DEF BeginRelay, accepting, CanLock, LockInv, Threads
  <2>2. holds' = [t \in Threads |-> IF t = "main" THEN {"render", "deq"} ELSE holds[t]]
    BY <1>2, <1>10 DEF BeginRelay, Threads
  <2>3. doing'.kind = "relay" /\ doing'.at = 1
    BY <1>2, <1>10 DEF BeginRelay
  <2> QED BY <1>1, <2>1, <2>2, <2>3 DEF LockInv, Threads
<1>11. CASE OpenPane \/ DrawPane
  <2>1. stage' = stage /\ doing' = doing
    BY <1>11 DEF OpenPane, DrawPane, accepting, handling
  <2>2. \/ /\ holds' = [t \in Threads |-> IF t = "ui" THEN {"render"} ELSE holds[t]]
           /\ \A t \in Threads : t # "ui" => "render" \notin holds[t]
        \/ holds' = [t \in Threads |-> IF t = "ui" THEN {} ELSE holds[t]]
    BY <1>2, <1>11 DEF OpenPane, DrawPane, CanLock, Threads
  <2> QED BY <1>1, <2>1, <2>2 DEF LockInv, Threads
<1> QED BY <1>3, <1>4, <1>5, <1>6, <1>7, <1>8, <1>9, <1>10, <1>11, QuietSteps
        DEF Next, Accepting, Handling

--------------------------------------------------------------------------------
(* Who has joined.                                                             *)
LEMMA JoinInit == Init => JoinInv
  BY DEF Init, JoinInv, Idle

(* The accept handler is with one connection, and none that joined leaves.     *)
LEMMA JoinStep == HubIInv /\ [Next]_vars => JoinInv'
<1> SUFFICES ASSUME HubIInv, [Next]_vars PROVE JoinInv'
  OBVIOUS
<1> USE DEF accepting, handling
<1>1. JoinInv
  BY DEF HubIInv
<1>2. /\ stage \in [Conns -> Stages] /\ told \subseteq Conns
      /\ inbox \in Seq([kind : {"relay", "answer", "status"}, from : Conns])
      /\ doing \in [kind : {"idle", "forget", "relay"}, from : Conns \cup {Null}, at : Nat]
  BY DEF HubIInv, TypeOK
<1>3. ASSUME NEW i \in DOMAIN inbox PROVE inbox[i].from \in Conns
  <2> DEFINE Messages == [kind : {"relay", "answer", "status"}, from : Conns]
  <2>1. inbox \in Seq(Messages)
    BY <1>2
  <2>2. inbox[i] \in Messages
    <3> HIDE DEF Messages
    <3> QED BY <2>1
  <2> QED BY <2>2
<1>4. ASSUME stage' = stage, doing' = doing, told' = told,
             \A i \in DOMAIN inbox' : stage[inbox'[i].from] = "joined"
      PROVE  JoinInv'
  BY <1>1, <1>4 DEF JoinInv
<1>5. CASE Quiet /\ inbox' = inbox
  BY <1>1, <1>4, <1>5 DEF Quiet, JoinInv
<1>6. ASSUME NEW c \in Conns, Accepting(c) PROVE JoinInv'
  <2>1. inbox' = inbox /\ doing' = doing /\ told' = told /\ stage[c] # "joined"
    BY <1>6 DEF Accepting, Request, Approve, Push, Announce, Deny
  <2>2. \A d \in Conns \ {c} : stage[d] \in {"away", "joined", "denied"}
    BY <1>1, <1>6 DEF Accepting, Request, Approve, Push, Announce, Deny, Listening, JoinInv
  <2>3. \A d \in Conns \ {c} : stage'[d] = stage[d]
    BY <1>2, <1>6 DEF Accepting, Request, Approve, Push, Announce, Deny
  <2>4. \A d \in Conns : stage[d] = "joined" => stage'[d] = "joined"
    BY <2>1, <2>3
  <2>5. /\ \A i \in DOMAIN inbox' : stage'[inbox'[i].from] = "joined"
        /\ doing'.kind # "idle" => doing'.from \in Conns /\ stage'[doing'.from] = "joined"
        /\ \A d \in told' : stage'[d] = "joined"
    BY <1>1, <1>2, <1>3, <2>1, <2>4 DEF JoinInv
  <2> QED BY <2>2, <2>3, <2>5 DEF JoinInv
<1>7. ASSUME NEW c \in Conns, NEW kind \in {"relay", "answer", "status"}, Receive(c, kind)
      PROVE  JoinInv'
  <2>1. inbox' = Append(inbox, [kind |-> kind, from |-> c]) /\ stage[c] = "joined"
    BY <1>7 DEF Receive
  <2>2. \A i \in DOMAIN inbox' : stage[inbox'[i].from] = "joined"
    BY <1>1, <1>2, <2>1 DEF JoinInv
  <2> QED BY <1>4, <1>7, <2>2 DEF Receive
<1>8. ASSUME inbox # <<>>
      PROVE  /\ stage[Head(inbox).from] = "joined" /\ Head(inbox).from \in Conns
             /\ \A i \in DOMAIN Tail(inbox) : stage[Tail(inbox)[i].from] = "joined"
  <2>1. /\ Head(inbox) = inbox[1] /\ 1 \in DOMAIN inbox
        /\ \A i \in DOMAIN Tail(inbox) : i + 1 \in DOMAIN inbox /\ Tail(inbox)[i] = inbox[i + 1]
    BY <1>2, <1>8, FrontOfInbox
  <2> QED BY <1>1, <1>3, <2>1 DEF JoinInv
<1>9. CASE Answer
  BY <1>4, <1>8, <1>9 DEF Answer
<1>10. CASE KeepStatus
  <2>1. /\ inbox' = Tail(inbox) /\ told' = told \cup {Head(inbox).from} /\ inbox # <<>>
        /\ stage' = stage /\ doing' = doing
    BY <1>10 DEF KeepStatus
  <2> QED BY <1>1, <1>8, <2>1 DEF JoinInv
<1>11. CASE AnswerLost \/ TakeRelay
  <2>1. /\ inbox' = Tail(inbox) /\ inbox # <<>> /\ stage' = stage /\ told' = told
        /\ doing'.from = Head(inbox).from
    BY <1>11 DEF AnswerLost, TakeRelay
  <2> QED BY <1>1, <1>8, <2>1 DEF JoinInv
<1>12. CASE Forget \/ EndRelay
  <2>1. inbox' = inbox /\ stage' = stage /\ told' = told /\ doing' = Idle
    BY <1>12 DEF Forget, EndRelay
  <2> QED BY <1>1, <2>1 DEF JoinInv, Idle
<1>13. CASE BeginRelay \/ RelayNext
  <2>1. inbox' = inbox /\ stage' = stage /\ told' = told
    BY <1>13 DEF BeginRelay, RelayNext
  <2>2. doing'.from = doing.from /\ doing'.kind = doing.kind
    BY <1>2, <1>13 DEF BeginRelay, RelayNext
  <2> QED BY <1>1, <2>1, <2>2 DEF JoinInv
<1>14. CASE OpenPane \/ DrawPane
  BY <1>1, <1>4, <1>14 DEF OpenPane, DrawPane, JoinInv
<1> QED BY <1>5, <1>6, <1>7, <1>9, <1>10, <1>11, <1>12, <1>13, <1>14, QuietSteps
        DEF Next, Handling

--------------------------------------------------------------------------------
(* The deque.                                                                  *)
LEMMA DequeInit == Init => DequeInv
  BY DEF Init, DequeInv, Numbered

(* What is left of the deque when the null pointers are taken out.             *)
LEMMA WithoutNullLeaves ==
  ASSUME deque \in Seq(Conns \cup {Null})
  PROVE  LET w == WithoutNull(deque) IN
         /\ \A i \in DOMAIN w : w[i] # Null /\ \E a \in DOMAIN deque : w[i] = deque[a]
         /\ \A i, j \in DOMAIN w :
              i # j => \E a, b \in DOMAIN deque : a # b /\ w[i] = deque[a] /\ w[j] = deque[b]
<1> DEFINE S == Conns \cup {Null}
           w == WithoutNull(deque)
<1>1. deque \in Seq(S)
  OBVIOUS
<1> HIDE DEF S
<1>2. /\ w \in Seq(S \ {Null})
      /\ \A i \in DOMAIN w : \E a \in DOMAIN deque : w[i] = deque[a]
      /\ \A i, j \in DOMAIN w :
           i # j => \E a, b \in DOMAIN deque : a # b /\ w[i] = deque[a] /\ w[j] = deque[b]
  BY <1>1, WithoutNullSelects
<1>3. \A i \in DOMAIN w : w[i] # Null
  BY <1>2
<1> QED BY <1>2, <1>3

(* A new connection gets a new number and a place of its own; what is taken    *)
(* out of the deque leaves the others as they were.                            *)
LEMMA DequeStep == HubIInv /\ [Next]_vars => DequeInv'
<1> SUFFICES ASSUME HubIInv, [Next]_vars PROVE DequeInv'
  OBVIOUS
<1> USE DEF accepting, handling
<1>1. DequeInv
  BY DEF HubIInv
<1>2. /\ stage \in [Conns -> Stages] /\ id \in [Conns -> Int] /\ nextId \in Nat
      /\ deque \in Seq(Conns \cup {Null})
      /\ doing \in [kind : {"idle", "forget", "relay"}, from : Conns \cup {Null}, at : Nat]
  BY DEF HubIInv, TypeOK
<1>3. CASE UNCHANGED <<stage, id, nextId, deque, doing>>
  BY <1>1, <1>3 DEF DequeInv, Numbered
<1>4. ASSUME NEW c \in Conns, Request(c) \/ Approve(c) \/ Announce(c) \/ Deny(c)
      PROVE  DequeInv'
  <2>1. id' = id /\ nextId' = nextId /\ deque' = deque /\ doing' = doing
    BY <1>4 DEF Request, Approve, Announce, Deny
  <2>2. \A d \in Conns : Numbered(d)' <=> Numbered(d)
    BY <1>2, <1>4 DEF Request, Approve, Announce, Deny, Numbered, Stages
  <2>3. \A i \in DOMAIN deque : deque[i] # Null => deque[i] \in Conns
    BY <1>2
  <2> QED BY <1>1, <2>1, <2>2, <2>3, WithoutNullLeaves DEF DequeInv
<1>5. ASSUME NEW c \in Conns, Push(c) PROVE DequeInv'
  <2>1. /\ id' = [id EXCEPT ![c] = nextId] /\ nextId' = nextId + 1
        /\ deque' = Append(deque, c) /\ doing' = doing
    BY <1>5 DEF Push
  <2>2. ~Numbered(c) /\ \A d \in Conns : Numbered(d)' <=> (d = c \/ Numbered(d))
    BY <1>2, <1>5 DEF Push, Numbered
  <2>3. /\ DOMAIN deque' = 1..Len(deque) + 1 /\ deque'[Len(deque) + 1] = c
        /\ \A i \in 1..Len(deque) : deque'[i] = deque[i]
        /\ Len(deque) \in Nat /\ DOMAIN deque = 1..Len(deque)
    BY <1>2, <2>1
  <2>4. \A i \in DOMAIN deque : deque[i] # Null => deque[i] \in Conns /\ deque[i] # c
    BY <1>1, <1>2, <2>2 DEF DequeInv
  <2>5. "deq" \notin holds["main"]
    BY <1>5 DEF Push, CanLock, Threads
  <2>6. c # Null
    BY ConnsAssumption
  <2>7. /\ \A d \in Conns : Numbered(d)' => id'[d] \in 1..nextId' - 1
        /\ \A d, e \in Conns : Numbered(d)' /\ Numbered(e)' /\ d # e => id'[d] # id'[e]
    BY <1>1, <1>2, <2>1, <2>2 DEF DequeInv
  <2>8. (\A i \in DOMAIN deque : deque[i] # Null => Numbered(deque[i]))'
    BY <1>1, <2>2, <2>3, <2>4 DEF DequeInv, Numbered
  <2>9. \A i, j \in DOMAIN deque' : i # j /\ deque'[i] # Null => deque'[i] # deque'[j]
    BY <1>1, <2>3, <2>4, <2>6 DEF DequeInv
  <2>10. \A i \in DOMAIN deque' : deque'[i] = Null => doing'.kind = "relay" /\ i < doing'.at
    BY <1>1, <2>1, <2>3, <2>6 DEF DequeInv
  <2>11. nextId' >= 1
    BY <1>2, <2>1
  <2> QED BY <2>7, <2>8, <2>9, <2>10, <2>11 DEF DequeInv
<1>6. ASSUME UNCHANGED <<stage, id, nextId>>,
             (\A i \in DOMAIN deque : deque[i] # Null => Numbered(deque[i]))',
             (\A i, j \in DOMAIN deque : i # j /\ deque[i] # Null => deque[i] # deque[j])',
             (\A i \in DOMAIN deque : deque[i] = Null => doing.kind = "relay" /\ i < doing.at)'
      PROVE  DequeInv'
  BY <1>1, <1>6 DEF DequeInv, Numbered
<1>7. ASSUME UNCHANGED <<stage, id, nextId, deque>>, \A i \in DOMAIN deque : deque[i] # Null
      PROVE  DequeInv'
  BY <1>1, <1>6, <1>7 DEF DequeInv, Numbered
<1>8. \A i \in DOMAIN deque : i \in Nat /\ i >= 1
  BY <1>2
<1>9. CASE AnswerLost \/ TakeRelay
  <2>1. \A i \in DOMAIN deque : deque[i] # Null
    BY <1>1, <1>9 DEF AnswerLost, TakeRelay, DequeInv, Idle
  <2> QED BY <1>7, <1>9, <2>1 DEF AnswerLost, TakeRelay
<1>10. CASE BeginRelay
  <2>1. ASSUME NEW i \in DOMAIN deque PROVE deque[i] # Null
    <3>1. ~(i < doing.at)
      BY <1>8, <1>10 DEF BeginRelay
    <3> QED BY <1>1, <3>1 DEF DequeInv
  <2> QED BY <1>7, <1>10, <2>1 DEF BeginRelay
<1>11. CASE Forget \/ EndRelay
  <2>1. deque' = WithoutNull(deque) /\ UNCHANGED <<stage, id, nextId>>
    BY <1>11 DEF Forget, EndRelay
  <2>2. deque \in Seq(Conns \cup {Null})
    BY <1>2
  <2>3. \A i \in DOMAIN deque' : deque'[i] # Null
    BY <2>1, <2>2, WithoutNullLeaves
  <2>4. (\A i \in DOMAIN deque : deque[i] # Null => Numbered(deque[i]))'
    BY <1>1, <2>1, <2>2, <2>3, WithoutNullLeaves DEF DequeInv, Numbered
  <2>5. \A i, j \in DOMAIN deque' : i # j => deque'[i] # deque'[j]
    BY <1>1, <2>1, <2>2, <2>3, WithoutNullLeaves DEF DequeInv
  <2> QED BY <1>6, <2>1, <2>3, <2>4, <2>5
<1>12. CASE RelayNext
  <2>1. /\ doing' = [doing EXCEPT !.at = @ + 1] /\ doing.kind = "relay"
        /\ UNCHANGED <<stage, id, nextId>>
        /\ deque' = deque \/ deque' = [deque EXCEPT ![doing.at] = Null]
    BY <1>12 DEF RelayNext
  <2>2. doing'.kind = "relay" /\ doing'.at = doing.at + 1 /\ doing.at \in Nat
    BY <1>2, <2>1
  <2>3. /\ DOMAIN deque' = DOMAIN deque
        /\ \A i \in DOMAIN deque : deque'[i] = deque[i] \/ (deque'[i] = Null /\ i = doing.at)
        /\ \A i \in DOMAIN deque : i \in Nat
    BY <1>2, <2>1
  <2>4. (\A i \in DOMAIN deque : deque[i] # Null => Numbered(deque[i]))'
    BY <1>1, <2>1, <2>3 DEF DequeInv, Numbered
  <2>5. \A i, j \in DOMAIN deque' : i # j /\ deque'[i] # Null => deque'[i] # deque'[j]
    BY <1>1, <2>3 DEF DequeInv
  <2>6. \A i \in DOMAIN deque' : deque'[i] = Null => doing'.kind = "relay" /\ i < doing'.at
    BY <1>1, <2>2, <2>3 DEF DequeInv
  <2> QED BY <1>6, <2>1, <2>4, <2>5, <2>6
<1>13. CASE KeepStatus \/ OpenPane \/ DrawPane
  BY <1>3, <1>13 DEF KeepStatus, OpenPane, DrawPane
<1>14. CASE Quiet
  BY <1>3, <1>14 DEF Quiet
<1> QED BY <1>4, <1>5, <1>9, <1>10, <1>11, <1>12, <1>13, <1>14, QuietSteps
        DEF Next, Accepting, Handling

--------------------------------------------------------------------------------
(* connectionStatus.                                                           *)
LEMMA StatusInit == Init => StatusInv
  BY DEF Init, StatusInv

(* Numbers that are different and fit the key have different keys.             *)
LEMMA KeysDiffer ==
  ASSUME NEW m \in 1..KeyCount, NEW n \in 1..KeyCount, m # n
  PROVE  Key(m) # Key(n)
<1>1. KeyCount \in Nat \ {0}
  BY NumbersAssumption
<1>2. ASSUME NEW k \in 1..KeyCount PROVE Key(k) = IF k = KeyCount THEN 0 ELSE k
  <2>1. CASE k = KeyCount
    <3>1. KeyCount % KeyCount = 0
      BY <1>1
    <3> QED BY <2>1, <3>1 DEF Key
  <2>2. CASE k # KeyCount
    <3>1. k \in 0..KeyCount - 1
      BY <1>1, <2>2
    <3>2. k % KeyCount = k
      BY <1>1, <3>1
    <3> QED BY <2>2, <3>2 DEF Key
  <2> QED BY <2>1, <2>2
<1> QED BY <1>1, <1>2

(* Only the key of a connection that is lost is erased.                        *)
LEMMA StatusStep == HubIInv /\ [Next]_vars => StatusInv'
<1> SUFFICES ASSUME HubIInv, [Next]_vars, nextId' <= KeyCount + 1
             PROVE  (\A c \in told \ lost : Key(id[c]) \in status)'
  BY DEF StatusInv
<1> USE DEF accepting, handling
<1>1. /\ nextId \in Nat /\ KeyCount \in Nat /\ id \in [Conns -> Int]
      /\ told \subseteq Conns /\ lost \subseteq Conns
  BY NumbersAssumption DEF HubIInv, TypeOK
<1>2. nextId' = nextId \/ nextId' = nextId + 1
  BY QuietSteps
     DEF Next, Accepting, Handling, Quiet, vars, Request, Approve, Push, Announce, Deny,
         KeepStatus, AnswerLost, Forget, TakeRelay, BeginRelay, RelayNext, EndRelay, OpenPane,
         DrawPane
<1>3. nextId <= KeyCount + 1
  <2>1. nextId \in Nat /\ KeyCount \in Nat
    BY <1>1
  <2> QED BY <1>2, <2>1
<1>4. \A c \in told \ lost : Key(id[c]) \in status
  BY <1>3 DEF HubIInv, StatusInv
<1>5. ASSUME UNCHANGED <<id, told, lost>>, status \subseteq status'
      PROVE  (\A c \in told \ lost : Key(id[c]) \in status)'
  BY <1>4, <1>5
<1>6. \A c \in told : Numbered(c)
  BY DEF HubIInv, JoinInv, Numbered
<1>7. ASSUME NEW c \in Conns, Push(c)
      PROVE  (\A d \in told \ lost : Key(id[d]) \in status)'
  <2>1. id' = [id EXCEPT ![c] = nextId] /\ UNCHANGED <<told, lost, status>> /\ stage[c] = "approved"
    BY <1>7 DEF Push
  <2>2. \A d \in told : id'[d] = id[d]
    BY <1>1, <1>6, <2>1 DEF Numbered
  <2> QED BY <1>4, <2>1, <2>2
<1>8. ASSUME NEW c \in Conns, Numbered(c), Erase(c), UNCHANGED <<id, told>>
      PROVE  (\A d \in told \ lost : Key(id[d]) \in status)'
  <2>1. ASSUME NEW d \in told \ lost, d # c PROVE Key(id[d]) # Key(id[c])
    <3>1. d \in Conns /\ Numbered(d)
      BY <1>1, <1>6
    <3>2. id[d] # id[c] /\ id[d] \in 1..nextId-1 /\ id[c] \in 1..nextId-1
      BY <1>8, <2>1, <3>1 DEF HubIInv, DequeInv
    <3>3. id[d] \in 1..KeyCount /\ id[c] \in 1..KeyCount
      BY <1>1, <1>3, <3>2
    <3> QED BY <3>2, <3>3, KeysDiffer
  <2> QED BY <1>4, <1>8, <2>1 DEF Erase
<1>9. CASE AnswerLost
  <2>1. inbox # <<>> /\ Erase(Head(inbox).from) /\ UNCHANGED <<id, told>>
    BY <1>9 DEF AnswerLost
  <2>2. Head(inbox).from \in Conns /\ Numbered(Head(inbox).from)
    <3> DEFINE Messages == [kind : {"relay", "answer", "status"}, from : Conns]
    <3>1. inbox \in Seq(Messages)
      BY DEF HubIInv, TypeOK
    <3>2. Head(inbox) \in Messages /\ Head(inbox) = inbox[1] /\ 1 \in DOMAIN inbox
      <4> HIDE DEF Messages
      <4> QED BY <2>1, <3>1, FrontOfInbox
    <3>3. stage[Head(inbox).from] = "joined"
      BY <3>2 DEF HubIInv, JoinInv
    <3> QED BY <3>2, <3>3 DEF Numbered
  <2> QED BY <1>8, <2>1, <2>2
<1>10. CASE RelayNext
  <2>1. CASE UNCHANGED <<status, lost>>
    BY <1>5, <1>10, <2>1 DEF RelayNext
  <2>2. CASE Erase(deque[doing.at])
    <3>1. deque[doing.at] # Null
      BY <1>10 DEF RelayNext, HubIInv, DequeInv, TypeOK
    <3>2. deque[doing.at] \in Conns /\ Numbered(deque[doing.at])
      BY <1>10, <3>1 DEF RelayNext, HubIInv, DequeInv, TypeOK
    <3> QED BY <1>8, <1>10, <2>2, <3>2 DEF RelayNext
  <2> QED BY <1>10, <2>1, <2>2 DEF RelayNext
<1>11. CASE KeepStatus
  <2>1. /\ status' = status \cup {Key(id[Head(inbox).from])} /\ UNCHANGED <<id, lost>>
        /\ told' = told \cup {Head(inbox).from}
    BY <1>11 DEF KeepStatus
  <2> QED BY <1>4, <2>1
<1>12. ASSUME NEW c \in Conns, Request(c) \/ Approve(c) \/ Announce(c) \/ Deny(c)
       PROVE  (\A d \in told \ lost : Key(id[d]) \in status)'
  <2>1. UNCHANGED <<id, told, lost>> /\ status \subseteq status'
    BY <1>12 DEF Request, Approve, Announce, Deny
  <2> QED BY <1>5, <2>1
<1>13. CASE Forget \/ TakeRelay \/ BeginRelay \/ EndRelay \/ OpenPane \/ DrawPane
  BY <1>5, <1>13 DEF Forget, TakeRelay, BeginRelay, EndRelay, OpenPane, DrawPane
<1>14. CASE Quiet
  BY <1>5, <1>14 DEF Quiet
<1> QED BY <1>7, <1>9, <1>10, <1>11, <1>12, <1>13, <1>14, QuietSteps
        DEF Next, Accepting, Handling

--------------------------------------------------------------------------------
(* The broadcasts.                                                             *)
LEMMA SentInit == Init => SentInv
<1> SUFFICES ASSUME Init PROVE SentInv
  OBVIOUS
<1>1. \A c \in Conns : got[c] = <<>> /\ joinedAt[c] = 0
  BY DEF Init
<1>2. relayed = <<>> /\ deque = <<>> /\ doing = Idle
  BY DEF Init
<1>3. \A c \in Conns : Sent(c) = {} /\ Owed(c) = {}
  BY <1>1, <1>2 DEF Sent, Owed
<1> QED BY <1>1, <1>2, <1>3 DEF SentInv, FirstPart, Walking, Idle

(* What is sent to a connection is determined by what got holds, what is meant *)
(* for it by the broadcasts and by when it joined.                             *)
LEMMA SameBroadcasts ==
  ASSUME NEW c \in Conns, joinedAt'[c] = joinedAt[c], relayed' = relayed, got'[c] = got[c]
  PROVE  Owed(c)' = Owed(c) /\ Sent(c)' = Sent(c)
  BY DEF Owed, Sent

(* A broadcast more is meant for all that have joined, but for its sender.     *)
LEMMA OneMore ==
  ASSUME NEW c \in Conns, relayed \in Seq(Conns), NEW s \in Conns, joinedAt[c] \in Nat,
         relayed' = Append(relayed, s), joinedAt'[c] = joinedAt[c],
         joinedAt[c] <= Len(relayed)
  PROVE  /\ Owed(c)' = Owed(c) \cup (IF s = c THEN {} ELSE {Len(relayed)+1})
         /\ Len(relayed') = Len(relayed) + 1 /\ Len(relayed) \in Nat
         /\ relayed'[Len(relayed')] = s
<1>1. /\ Len(relayed') = Len(relayed) + 1 /\ Len(relayed) \in Nat
      /\ relayed'[Len(relayed) + 1] = s
      /\ \A k \in 1..Len(relayed) : relayed'[k] = relayed[k]
  OBVIOUS
<1>2. 1..Len(relayed) + 1 = (1..Len(relayed)) \cup {Len(relayed) + 1}
  BY <1>1
<1>3. Len(relayed) + 1 > joinedAt[c]
  BY <1>1
<1> QED BY <1>1, <1>2, <1>3 DEF Owed

(* Every step that relays, joins or sends keeps the accounts of what is owed.  *)
LEMMA SentStep == HubIInv /\ [Next]_vars => SentInv'
<1> SUFFICES ASSUME HubIInv, [Next]_vars PROVE SentInv'
  OBVIOUS
<1> USE DEF accepting, handling
<1>1. SentInv
  BY DEF HubIInv
<1>2. /\ stage \in [Conns -> Stages] /\ deque \in Seq(Conns \cup {Null})
      /\ relayed \in Seq(Conns) /\ joinedAt \in [Conns -> Nat] /\ got \in [Conns -> Seq(Nat)]
      /\ doing \in [kind : {"idle", "forget", "relay"}, from : Conns \cup {Null}, at : Nat]
  BY DEF HubIInv, TypeOK
<1>3. Len(relayed) \in Nat /\ \A c \in Conns : joinedAt[c] \in Nat
  BY <1>2
<1>4. \A c \in Conns : Sent(c) \subseteq Owed(c) /\ Owed(c) \subseteq 1..Len(relayed)
  BY <1>1 DEF SentInv, FirstPart, Owed
(* Nothing is sent and no broadcast begun.                                     *)
<1>5. ASSUME UNCHANGED <<relayed, joinedAt, got>>,
             \A c \in Conns : Numbered(c) => Numbered(c)'
      PROVE  (\A c \in Conns : FirstPart(c) /\ joinedAt[c] <= Len(relayed))'
  <2> SUFFICES ASSUME NEW c \in Conns
               PROVE  FirstPart(c)' /\ joinedAt'[c] <= Len(relayed')
    OBVIOUS
  <2>1. Owed(c)' = Owed(c) /\ Sent(c)' = Sent(c)
    BY <1>5, SameBroadcasts
  <2> QED BY <1>1, <1>5, <2>1 DEF SentInv, FirstPart
(* What is in the deque was there before, and main is not on its walk.         *)
<1>6. ASSUME UNCHANGED <<relayed, joinedAt, got>>,
             \A c \in Conns : Numbered(c) => Numbered(c)',
             ~Walking', \A i \in DOMAIN deque : Pending(i) = {},
             \A i \in DOMAIN deque' : \E a \in DOMAIN deque : deque'[i] = deque[a]
      PROVE  SentInv'
  <2>1. \A c \in Conns : Owed(c)' = Owed(c) /\ Sent(c)' = Sent(c)
    BY <1>6, SameBroadcasts
  <2>2. \A i : Pending(i)' = {}
    BY <1>6 DEF Pending
  <2>3. ASSUME NEW c \in Conns, NEW i \in DOMAIN deque, deque[i] = c PROVE Owed(c) = Sent(c)
    <3>1. Pending(i) = {}
      BY <1>6
    <3>2. Owed(c) \ Pending(i) = Sent(c) \ Pending(i)
      BY <1>1, <2>3 DEF SentInv
    <3> QED BY <3>1, <3>2
  <2> QED BY <1>5, <1>6, <2>1, <2>2, <2>3 DEF SentInv
<1>7. ASSUME UNCHANGED <<relayed, joinedAt, got, deque, doing>>,
             \A c \in Conns : Numbered(c) => Numbered(c)'
      PROVE  SentInv'
  <2>1. \A c \in Conns : Owed(c)' = Owed(c) /\ Sent(c)' = Sent(c)
    BY <1>7, SameBroadcasts
  <2>2. (Walking' <=> Walking) /\ \A i : Pending(i)' = Pending(i)
    BY <1>7 DEF Pending, Walking
  <2> QED BY <1>1, <1>5, <1>7, <2>1, <2>2 DEF SentInv
<1>8. ASSUME stage' = stage PROVE \A c \in Conns : Numbered(c) => Numbered(c)'
  BY <1>8 DEF Numbered
<1>9. CASE Quiet
  BY <1>7, <1>8, <1>9 DEF Quiet
<1>10. ASSUME NEW c \in Conns, Request(c) \/ Approve(c) \/ Announce(c) \/ Deny(c)
       PROVE  SentInv'
  <2>1. UNCHANGED <<relayed, joinedAt, got, deque, doing>>
    BY <1>10 DEF Request, Approve, Announce, Deny
  <2>2. \A d \in Conns : Numbered(d) => Numbered(d)'
    BY <1>2, <1>10 DEF Request, Approve, Announce, Deny, Numbered
  <2> QED BY <1>7, <2>1, <2>2
<1>11. CASE KeepStatus \/ OpenPane \/ DrawPane
  <2>1. UNCHANGED <<relayed, joinedAt, got, deque, doing, stage>>
    BY <1>11 DEF KeepStatus, OpenPane, DrawPane
  <2> QED BY <1>7, <1>8, <2>1
<1>12. CASE AnswerLost \/ TakeRelay
  <2>1. UNCHANGED <<relayed, joinedAt, got, deque, stage>> /\ doing = Idle /\ doing'.at = 0
    BY <1>12 DEF AnswerLost, TakeRelay
  <2>2. ~Walking' /\ \A i \in DOMAIN deque : Pending(i) = {}
    BY <2>1 DEF Walking, Pending, Idle
  <2> QED BY <1>6, <1>8, <2>1, <2>2
<1>13. CASE Forget \/ EndRelay
  <2>1. /\ UNCHANGED <<relayed, joinedAt, got, stage>> /\ deque' = WithoutNull(deque)
        /\ doing' = Idle
    BY <1>13 DEF Forget, EndRelay
  <2>2. \A i \in DOMAIN deque : Pending(i) = {}
    BY <1>2, <1>13 DEF Forget, EndRelay, Walking, Pending
  <2>3. \A i \in DOMAIN deque' : \E a \in DOMAIN deque : deque'[i] = deque[a]
    <3>1. deque \in Seq(Conns \cup {Null})
      BY <1>2
    <3> QED BY <2>1, <3>1, WithoutNullLeaves
  <2>4. ~Walking'
    BY <2>1 DEF Walking, Idle
  <2> QED BY <1>6, <1>8, <2>1, <2>2, <2>3, <2>4
(* A new connection has missed every broadcast so far.                         *)
<1>14. ASSUME NEW c \in Conns, Push(c) PROVE SentInv'
  <2>1. /\ UNCHANGED <<relayed, got, doing>> /\ deque' = Append(deque, c)
        /\ joinedAt' = [joinedAt EXCEPT ![c] = Len(relayed)]
        /\ stage' = [stage EXCEPT ![c] = "pushed"] /\ stage[c] = "approved"
    BY <1>14 DEF Push
  <2>2. ~Walking /\ ~Walking'
    BY <1>14, <2>1 DEF Push, CanLock, Threads, Walking, HubIInv, LockInv
  <2>3. \A i : Pending(i) = {} /\ Pending(i)' = {}
    BY <2>2 DEF Pending
  <2>4. got[c] = <<>> /\ joinedAt'[c] = Len(relayed)
    BY <1>1, <1>2, <2>1 DEF SentInv, FirstPart, Numbered
  <2>5. Sent(c)' = {} /\ Owed(c)' = {}
    BY <1>3, <2>1, <2>4 DEF Sent, Owed
  <2>6. ASSUME NEW d \in Conns, d # c
        PROVE  /\ joinedAt'[d] = joinedAt[d] /\ Owed(d)' = Owed(d) /\ Sent(d)' = Sent(d)
               /\ Numbered(d)' <=> Numbered(d)
    BY <1>2, <2>1, <2>6, SameBroadcasts DEF Numbered
  <2>7. ASSUME NEW d \in Conns PROVE FirstPart(d)' /\ joinedAt'[d] <= Len(relayed')
    <3>1. CASE d = c
      BY <1>3, <2>1, <2>4, <2>5, <3>1 DEF FirstPart
    <3>2. CASE d # c
      BY <1>1, <2>1, <2>6, <3>2 DEF SentInv, FirstPart
    <3> QED BY <3>1, <3>2
  <2>8. ASSUME NEW d \in Conns, NEW i \in DOMAIN deque', deque'[i] = d
        PROVE  Owed(d)' = Sent(d)'
    <3>1. CASE d = c
      BY <2>5, <3>1
    <3>2. CASE d # c
      <4>1. i \in DOMAIN deque /\ deque[i] = d
        BY <1>2, <2>1, <2>8, <3>2
      <4>2. Owed(d) \ Pending(i) = Sent(d) \ Pending(i)
        BY <1>1, <4>1 DEF SentInv
      <4> QED BY <2>3, <2>6, <3>2, <4>2
    <3> QED BY <3>1, <3>2
  <2> QED BY <2>2, <2>3, <2>7, <2>8 DEF SentInv
(* A broadcast begins: it is meant for all in the deque, and sent to none yet. *)
<1>15. CASE BeginRelay
  <2>1. /\ UNCHANGED <<got, deque, stage, joinedAt>> /\ doing' = [doing EXCEPT !.at = 1]
        /\ relayed' = Append(relayed, doing.from) /\ doing.kind = "relay" /\ doing.at = 0
        /\ doing.from \in Conns
    BY <1>15 DEF BeginRelay, HubIInv, JoinInv
  <2>2. doing'.at = 1 /\ doing'.kind = "relay" /\ doing'.from = doing.from
    BY <1>2, <2>1
  <2> DEFINE n == Len(relayed) + 1
  <2>3. \A c \in Conns : Owed(c)' = Owed(c) \cup (IF doing.from = c THEN {} ELSE {n})
    BY <1>1, <1>2, <1>3, <2>1, OneMore DEF SentInv
  <2>4. Len(relayed') = n /\ relayed'[n] = doing.from
    BY <1>2, <2>1
  <2>5. \A c \in Conns : Sent(c)' = Sent(c)
    BY <2>1 DEF Sent
  <2>6. ASSUME NEW c \in Conns PROVE n \notin Sent(c) /\ \A k \in Sent(c) : k < n
    BY <1>3, <1>4
  <2>7. ASSUME NEW c \in Conns PROVE FirstPart(c)' /\ joinedAt'[c] <= Len(relayed')
    <3>1. FirstPart(c) /\ joinedAt[c] <= Len(relayed)
      BY <1>1 DEF SentInv
    <3>2. Sent(c)' \subseteq Owed(c)'
      BY <2>3, <2>5, <3>1 DEF FirstPart
    <3>3. \A k \in Sent(c)', j \in Owed(c)' : j < k => j \in Sent(c)'
      <4> SUFFICES ASSUME NEW k \in Sent(c), NEW j \in Owed(c) \cup {n}, j < k
                   PROVE  j \in Sent(c)
        BY <2>3, <2>5
      <4>1. k \in Nat /\ n \in Nat /\ k < n
        BY <1>3, <1>4, <2>6
      <4>2. j # n
        BY <4>1
      <4> QED BY <3>1, <4>2 DEF FirstPart
    <3>4. joinedAt'[c] <= Len(relayed')
      BY <1>3, <2>1, <2>4, <3>1
    <3> QED BY <2>1, <3>1, <3>2, <3>3, <3>4 DEF FirstPart, Numbered
  <2>8. \A i \in DOMAIN deque : Pending(i) = {} /\ Pending(i)' = {n}
    BY <1>2, <2>1, <2>2, <2>4 DEF Pending, Walking
  <2>9. ASSUME NEW c \in Conns, NEW i \in DOMAIN deque', deque'[i] = c
        PROVE  /\ Owed(c)' \ Pending(i)' = Sent(c)' \ Pending(i)'
               /\ Sent(c)' \cap Pending(i)' = {}
               /\ joinedAt'[c] < Len(relayed')
    <3>1. i \in DOMAIN deque /\ Owed(c) \ Pending(i) = Sent(c) \ Pending(i)
      BY <1>1, <2>1, <2>9 DEF SentInv
    <3>2. Owed(c) = Sent(c)
      BY <2>8, <3>1
    <3>3. joinedAt[c] < n
      BY <1>1, <1>3 DEF SentInv
    <3> HIDE DEF n
    <3> QED BY <2>1, <2>3, <2>4, <2>5, <2>6, <2>8, <3>1, <3>2, <3>3
  <2>10. relayed' # <<>> /\ relayed'[Len(relayed')] = doing'.from
    <3>1. n # 0 /\ Len(<<>>) = 0
      BY <1>3
    <3> QED BY <2>2, <2>4, <3>1
  <2> QED BY <2>7, <2>9, <2>10 DEF SentInv
(* The broadcast is sent to one connection more, or a dead one is dropped.     *)
<1>16. CASE RelayNext
  <2>1. /\ UNCHANGED <<relayed, stage, joinedAt>> /\ doing' = [doing EXCEPT !.at = @ + 1]
        /\ doing.kind = "relay" /\ doing.at \in DOMAIN deque
    BY <1>16 DEF RelayNext
  <2>2. PICK n \in Nat : n = Len(relayed)
    BY <1>3
  <2>3. PICK at \in DOMAIN deque : at = doing.at
    BY <2>1
  <2>4. PICK c \in Conns : c = deque[at]
    <3>1. at \in Nat /\ deque[at] \in Conns \cup {Null}
      BY <1>2, <2>3
    <3>2. deque[at] # Null
      BY <2>3, <3>1 DEF HubIInv, DequeInv
    <3> QED BY <3>1, <3>2
  <2>5. /\ doing'.at = at + 1 /\ doing'.kind = "relay" /\ doing'.from = doing.from
        /\ at \in Nat /\ at # 0 /\ Walking /\ Walking'
    BY <1>2, <2>1, <2>3 DEF Walking
  <2>6. \A i \in DOMAIN deque : /\ Pending(i) = (IF i >= at THEN {n} ELSE {})
                               /\ Pending(i)' = (IF i >= at + 1 THEN {n} ELSE {})
    BY <2>1, <2>2, <2>3, <2>5 DEF Pending
  <2>7. \A i \in DOMAIN deque : i # at => Pending(i)' = Pending(i)
    <3>1. \A i \in DOMAIN deque : i \in Nat
      BY <1>2
    <3>2. \A i \in DOMAIN deque : i # at => (i >= at <=> i >= at + 1)
      BY <2>5, <3>1
    <3> QED BY <2>6, <3>2
  <2>8. Pending(at) = {n} /\ Pending(at)' = {}
    <3>1. at >= at /\ ~(at >= at + 1)
      BY <2>5
    <3> QED BY <2>6, <3>1
  <2>9. relayed # <<>> /\ relayed[n] = doing.from /\ n # 0
    BY <1>1, <1>2, <2>2, <2>5 DEF SentInv
  <2>10. relayed' # <<>> /\ relayed'[Len(relayed')] = doing'.from
    BY <2>1, <2>2, <2>5, <2>9
  <2>11. ASSUME NEW d \in Conns, NEW i \in DOMAIN deque, deque[i] = d
         PROVE  /\ Owed(d) \ Pending(i) = Sent(d) \ Pending(i) /\ Sent(d) \cap Pending(i) = {}
                /\ joinedAt[d] < n
    BY <1>1, <2>2, <2>5, <2>11 DEF SentInv
  <2>12. joinedAt[c] < n /\ Owed(c) \ {n} = Sent(c) \ {n} /\ n \notin Sent(c)
    BY <2>4, <2>8, <2>11
  <2>13. n \in Owed(c) <=> doing.from # c
    BY <1>3, <2>2, <2>9, <2>12 DEF Owed
  <2>14. \A d \in Conns : Owed(d)' = Owed(d)
    BY <2>1 DEF Owed
  <2>15. \A d \in Conns : FirstPart(d) /\ joinedAt[d] <= Len(relayed)
    BY <1>1 DEF SentInv
  <2>16. Numbered(c) /\ \A i \in DOMAIN deque : deque[i] = c => i = at
    BY <2>4, ConnsAssumption DEF HubIInv, DequeInv
(* The socket is closed, and its place becomes a null pointer.                 *)
  <2>17. CASE ~alive[c]
    <3>1. got' = got /\ deque' = [deque EXCEPT ![at] = Null]
      BY <1>16, <2>3, <2>4, <2>17 DEF RelayNext
    <3>2. \A d \in Conns : Sent(d)' = Sent(d)
      BY <3>1 DEF Sent
    <3>3. ASSUME NEW d \in Conns PROVE FirstPart(d)' /\ joinedAt'[d] <= Len(relayed')
      BY <1>5, <1>8, <2>1, <3>1
    <3>4. ASSUME NEW d \in Conns, NEW i \in DOMAIN deque', deque'[i] = d
          PROVE  /\ Owed(d)' \ Pending(i)' = Sent(d)' \ Pending(i)'
                 /\ Sent(d)' \cap Pending(i)' = {}
                 /\ joinedAt'[d] < Len(relayed')
      <4>1. i \in DOMAIN deque /\ deque[i] = d /\ i # at
        BY <1>2, <3>1, <3>4, ConnsAssumption
      <4> QED BY <2>1, <2>2, <2>7, <2>11, <2>14, <3>2, <4>1
    <3> QED BY <2>10, <3>3, <3>4 DEF SentInv
(* The connection is the sender, which is left out.                            *)
  <2>18. CASE alive[c] /\ c = doing.from
    <3>1. got' = got /\ deque' = deque
      BY <1>16, <2>3, <2>4, <2>18 DEF RelayNext
    <3>2. \A d \in Conns : Sent(d)' = Sent(d)
      BY <3>1 DEF Sent
    <3>3. ASSUME NEW d \in Conns PROVE FirstPart(d)' /\ joinedAt'[d] <= Len(relayed')
      BY <1>5, <1>8, <2>1, <3>1
    <3>4. Owed(c) = Sent(c)
      BY <2>12, <2>13, <2>18
    <3>5. ASSUME NEW d \in Conns, NEW i \in DOMAIN deque', deque'[i] = d
          PROVE  /\ Owed(d)' \ Pending(i)' = Sent(d)' \ Pending(i)'
                 /\ Sent(d)' \cap Pending(i)' = {}
                 /\ joinedAt'[d] < Len(relayed')
      <4>1. CASE i = at
        <5>1. d = c
          BY <2>4, <3>1, <3>5, <4>1
        <5> QED BY <2>1, <2>2, <2>8, <2>12, <2>14, <3>2, <3>4, <4>1, <5>1
      <4>2. CASE i # at
        BY <2>1, <2>2, <2>7, <2>11, <2>14, <3>1, <3>2, <3>5, <4>2
      <4> QED BY <4>1, <4>2
    <3> QED BY <2>10, <3>3, <3>5 DEF SentInv
(* It is sent the broadcast.                                                   *)
  <2>19. CASE alive[c] /\ c # doing.from
    <3>1. got' = [got EXCEPT ![c] = Append(@, n)] /\ deque' = deque
      BY <1>16, <2>2, <2>3, <2>4, <2>19 DEF RelayNext
    <3>2. got[c] \in Seq(Nat) /\ got'[c] = Append(got[c], n)
      BY <1>2, <3>1
    <3>3. Sent(c)' = Sent(c) \cup {n}
      <4>1. /\ DOMAIN got'[c] = DOMAIN got[c] \cup {Len(got[c]) + 1}
            /\ \A i \in DOMAIN got[c] : got'[c][i] = got[c][i]
            /\ got'[c][Len(got[c]) + 1] = n
        BY <3>2
      <4> QED BY <4>1 DEF Sent
    <3>4. Sent(c)' = Owed(c)
      BY <2>12, <2>13, <2>19, <3>3
    <3>5. ASSUME NEW d \in Conns, d # c PROVE got'[d] = got[d] /\ Sent(d)' = Sent(d)
      <4>1. got'[d] = got[d]
        BY <1>2, <3>1, <3>5
      <4> QED BY <4>1 DEF Sent
    <3>6. \A i, j \in DOMAIN got'[c] : i < j => got'[c][i] < got'[c][j]
      <4> SUFFICES ASSUME NEW i \in DOMAIN got'[c], NEW j \in DOMAIN got'[c], i < j
                   PROVE  got'[c][i] < got'[c][j]
        OBVIOUS
      <4>1. i \in DOMAIN got[c] /\ got'[c][i] = got[c][i]
        BY <3>2
      <4>2. CASE j \in DOMAIN got[c]
        BY <2>15, <3>2, <4>1, <4>2 DEF FirstPart
      <4>3. CASE j \notin DOMAIN got[c]
        <5>1. got'[c][j] = n
          BY <3>2, <4>3
        <5>2. got[c][i] \in Sent(c)
          BY <4>1 DEF Sent
        <5>3. got[c][i] \in 1..n /\ got[c][i] # n
          BY <1>4, <2>2, <2>12, <5>2
        <5> QED BY <4>1, <5>1, <5>3
      <4> QED BY <4>2, <4>3
    <3>7. ASSUME NEW d \in Conns, d = c PROVE FirstPart(d)'
      <4>1. Sent(d)' = Owed(d)'
        BY <2>14, <3>4, <3>7 DEF Sent
      <4>2. Numbered(d)'
        BY <1>8, <2>1, <2>16, <3>7
      <4>3. \A i, j \in DOMAIN got'[d] : i < j => got'[d][i] < got'[d][j]
        BY <3>6, <3>7
      <4> QED BY <4>1, <4>2, <4>3 DEF FirstPart
    <3>8. ASSUME NEW d \in Conns PROVE FirstPart(d)' /\ joinedAt'[d] <= Len(relayed')
      <4>1. joinedAt'[d] <= Len(relayed')
        BY <2>1, <2>15
      <4>2. CASE d # c
        BY <2>1, <2>14, <2>15, <3>5, <4>2 DEF FirstPart, Numbered
      <4>3. CASE d = c
        BY <3>7, <4>1, <4>3
      <4> QED BY <4>1, <4>2, <4>3
    <3>9. ASSUME NEW d \in Conns, NEW i \in DOMAIN deque', deque'[i] = d
          PROVE  /\ Owed(d)' \ Pending(i)' = Sent(d)' \ Pending(i)'
                 /\ Sent(d)' \cap Pending(i)' = {}
                 /\ joinedAt'[d] < Len(relayed')
      <4>1. CASE i = at
        <5>1. d = c
          BY <2>4, <3>1, <3>9, <4>1
        <5> QED BY <2>1, <2>2, <2>8, <2>12, <2>14, <3>4, <4>1, <5>1
      <4>2. CASE i # at
        <5>1. d # c
          BY <2>16, <3>1, <3>9, <4>2
        <5> QED BY <2>1, <2>2, <2>7, <2>11, <2>14, <3>1, <3>5, <3>9, <4>2, <5>1
      <4> QED BY <4>1, <4>2
    <3> QED BY <2>10, <3>8, <3>9 DEF SentInv
  <2> QED BY <2>17, <2>18, <2>19
<1> QED BY <1>9, <1>10, <1>11, <1>12, <1>13, <1>14, <1>15, <1>16, QuietSteps
        DEF Next, Accepting, Handling

--------------------------------------------------------------------------------
(* Every reachable state is one the inductive invariant describes.             *)
THEOREM Reachable == Spec => []HubIInv
<1>1. Init => HubIInv
  BY TypeInit, LockInit, JoinInit, DequeInit, SentInit, StatusInit DEF HubIInv
<1>2. HubIInv /\ [Next]_vars => HubIInv'
  BY TypeStep, LockStep, JoinStep, DequeStep, SentStep, StatusStep DEF HubIInv
<1> QED BY <1>1, <1>2, PTL DEF Spec

(* The hub is well formed, and who locks the deque never finds a null pointer  *)
(* that main has left there.                                                   *)
THEOREM HubWellFormed == Spec => []HubInv
<1>1. HubIInv => HubInv
  <2> SUFFICES ASSUME HubIInv PROVE TypeOK /\ NoNull
    BY DEF HubInv
  <2>1. ASSUME NEW i \in DOMAIN deque, deque[i] = Null PROVE "deq" \in holds["main"]
    <3>1. deque \in Seq(Conns \cup {Null}) /\ doing.at \in Nat
      BY DEF HubIInv, TypeOK
    <3>2. doing.kind = "relay" /\ i < doing.at /\ i >= 1
      BY <2>1, <3>1 DEF HubIInv, DequeInv
    <3>3. doing.at # 0
      BY <3>1, <3>2
    <3> QED BY <3>2, <3>3 DEF HubIInv, LockInv
  <2> QED BY <2>1 DEF HubIInv, NoNull
<1> QED BY <1>1, Reachable, PTL

(* Two threads that wait for each other: one of them is the accept handler.    *)
THEOREM OthersDoNotDeadlock == Spec => []OnlyAcceptDeadlocks
<1>1. HubIInv => OnlyAcceptDeadlocks
  <2> SUFFICES ASSUME HubIInv, \A c \in Conns : stage[c] # "pushed" PROVE ~Deadlocked
    BY DEF OnlyAcceptDeadlocks
  <2>1. LockInv
    BY DEF HubIInv
  <2>2. holds["asio"] = {} /\ Wants("asio") = {}
    BY <2>1 DEF LockInv, Wants
  <2>3. "deq" \notin holds["ui"] /\ holds["ui"] \subseteq {"render"}
    BY <2>1 DEF LockInv
  <2>4. Wants("main") \subseteq {"deq"}
    BY DEF Wants
  <2> QED BY <2>2, <2>3, <2>4 DEF Deadlocked, Threads
<1> QED BY <1>1, Reachable, PTL

(* connectionStatus keeps the entry of every client that is still there.       *)
THEOREM StatusIsKept == Spec => []StatusKept
<1>1. HubIInv => StatusKept
  <2> SUFFICES ASSUME HubIInv, nextId - 1 <= KeyCount
               PROVE  \A c \in told \ lost : Key(id[c]) \in status
    BY DEF StatusKept
  <2>1. nextId \in Nat /\ KeyCount \in Nat
    BY NumbersAssumption DEF HubIInv, TypeOK
  <2>2. nextId <= KeyCount + 1
    BY <2>1
  <2> QED BY <2>2 DEF HubIInv, StatusInv
<1> QED BY <1>1, Reachable, PTL

(* Each broadcast reaches each connection once and in order.                   *)
THEOREM BroadcastsReachAll == Spec => []EachOnce
<1>1. HubIInv => EachOnce
  <2> SUFFICES ASSUME HubIInv PROVE EachOnce
    OBVIOUS
  <2>1. \A c \in Conns : FirstPart(c)
    BY DEF HubIInv, SentInv
  <2>2. ASSUME NEW c \in Conns, NEW i \in DOMAIN deque, deque[i] = c, doing.at = 0
        PROVE  Sent(c) = Owed(c)
    <3>1. Pending(i) = {}
      BY <2>2 DEF Pending, Walking
    <3>2. Owed(c) \ Pending(i) = Sent(c) \ Pending(i)
      BY <2>2 DEF HubIInv, SentInv
    <3> QED BY <3>1, <3>2
  <2> QED BY <2>1, <2>2 DEF EachOnce, FirstPart
<1> QED BY <1>1, Reachable, PTL
================================================================================

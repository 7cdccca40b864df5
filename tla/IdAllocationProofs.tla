--------------------------- MODULE IdAllocationProofs ---------------------------
(* Proofs about IdAllocation: its types, that a server's partitions are        *)
(* disjoint, that a client's ships carry ids of its own partition, and that a  *)
(* single server never sees the same id twice.                                 *)
EXTENDS IdAllocation, TLAPS

(* Arithmetic on ids. *)

(* What is left of a number in the width of an Instance_Id is one. *)
LEMMA ModType == \A x \in Nat : x % IdCount \in Ids
  BY WidthAssumption DEF Ids

(* A product turned into an Instance_Id is one, however the build computes it. *)
LEMMA MinsType == ASSUME NEW n \in Nat PROVE Mins(n) \subseteq Ids
<1>1. n * Size \in Nat
  BY SizeAssumption
<1>2. CASE n * Size <= IntMax
  BY <1>1, <1>2, WidthAssumption DEF Mins, Ids
<1>3. CASE ~(n * Size <= IntMax)
  <2> DEFINE x == n * Size  i == x % (2 * (IntMax + 1))
  <2>1. i \in 0..2 * (IntMax + 1) - 1
    BY <1>1, WidthAssumption
  <2> HIDE DEF i
  <2>2. (IF i <= IntMax THEN i ELSE i + IdCount - 2 * (IntMax + 1)) \in Ids
    BY <2>1, WidthAssumption DEF Ids
  <2>3. Wrapped(x) \in Ids
    BY <2>2 DEF Wrapped, i
  <2>4. x % IdCount \in Ids
    BY <1>1, ModType
  <2> QED BY <1>3, <2>3, <2>4 DEF Mins
<1> QED BY <1>2, <1>3

(* Of two parts the one with the larger number begins past the other. *)
LEMMA Apart ==
  ASSUME NEW n \in Nat, NEW m \in Nat, n < m
  PROVE  n * Size + Size <= m * Size
<1>1. PICK k \in Nat : m = n + 1 + k
  <2>1. m - n - 1 \in Nat /\ m = n + 1 + (m - n - 1)
    OBVIOUS
  <2> QED BY <2>1
<1>2. m * Size = n * Size + Size + k * Size
  BY <1>1, SizeAssumption
<1>3. k * Size \in Nat /\ n * Size \in Nat
  BY SizeAssumption
<1> QED BY <1>2, <1>3, SizeAssumption

(* Without an overflow the n-th grant is the n-th part. *)
LEMMA MinsExact ==
  ASSUME NoOverflow, NEW n \in 1..MaxGrants, NEW min \in Mins(n)
  PROVE  min = n * Size /\ (min + Size - 1) % IdCount = n * Size + Size - 1
<1>1. n \in Nat /\ n < MaxGrants + 1 /\ MaxGrants + 1 \in Nat
  BY BoundsAssumption
<1>2. n * Size + Size <= (MaxGrants + 1) * Size
  BY <1>1, Apart
<1>3. n * Size \in Nat /\ (MaxGrants + 1) * Size \in Nat
  BY <1>1, SizeAssumption
<1>4. n * Size <= IntMax /\ n * Size + Size <= IntMax
  BY <1>2, <1>3, SizeAssumption, WidthAssumption DEF NoOverflow
<1>5. min = n * Size
  BY <1>4 DEF Mins
<1>6. \A x \in Nat : x < IdCount => x % IdCount = x
  BY WidthAssumption
<1>7. n * Size + Size - 1 \in Nat /\ n * Size + Size - 1 < IdCount
  BY <1>3, <1>4, SizeAssumption, WidthAssumption
<1> QED BY <1>5, <1>6, <1>7

--------------------------------------------------------------------------------
(* Every variable keeps its type. *)

(* Drawing an id leaves a partition (getNext). *)
LEMMA AdvanceType == ASSUME NEW part \in Partitions PROVE Advance(part) \in Partitions
<1>1. part.nxt + 1 \in Nat
  BY DEF Partitions, Ids
<1>2. (part.nxt + 1) % IdCount \in Ids
  BY <1>1, ModType
<1> QED BY <1>2 DEF Advance, Partitions

(* The initial values have their types. *)
LEMMA TypeInit == Init => TypeOK
<1> SUFFICES ASSUME Init PROVE TypeOK
  OBVIOUS
<1>1. 0 \in Ids /\ 1 \in Ids
  BY WidthAssumption DEF Ids
<1>2. Size - 1 \in Ids
  BY WidthAssumption, SizeAssumption DEF Ids
<1>3. Partition(0, 0, 1) \in Partitions /\ Partition(1, Size - 1, 1) \in Partitions
  BY <1>1, <1>2 DEF Partition, Partitions
<1>4. local \in [Servers \cup Clients -> Partitions]
  BY <1>3 DEF Init, BadId
<1> QED BY <1>1, <1>4 DEF Init, TypeOK, BadId, Phases

(* A step keeps the types. *)
LEMMA TypeStep == TypeOK /\ [Next]_vars => TypeOK'
<1> SUFFICES ASSUME TypeOK, [Next]_vars PROVE TypeOK'
  OBVIOUS
<1> USE DEF TypeOK
<1>1. ASSUME NEW c \in Clients, NEW s \in Servers, Join(c, s) PROVE TypeOK'
  BY <1>1 DEF Join, Phases
<1>2. ASSUME NEW c \in Clients, AskPartition(c) PROVE TypeOK'
  <2>1. server[c] \in Servers
    BY <1>2 DEF AskPartition
  <2>2. requests' \in [Clients -> Seq(Servers)]
    BY <1>2, <2>1 DEF AskPartition
  <2> QED BY <1>2, <2>2 DEF AskPartition
<1>3. ASSUME NEW c \in Clients, NEW s \in Servers, GrantPartition(s, c) PROVE TypeOK'
  <2>1. PICK min \in Mins(partitionCounter[s]) :
          LET part == Partition(min, (min + Size - 1) % IdCount, min)
          IN  /\ replies' = [replies EXCEPT ![c] = Append(@, part)]
              /\ granted' = granted \cup
                   {[server |-> s, client |-> c, n |-> partitionCounter[s], part |-> part]}
    BY <1>3 DEF GrantPartition
  <2> DEFINE part == Partition(min, (min + Size - 1) % IdCount, min)
  <2>2. min \in Ids
    BY MinsType
  <2>3. (min + Size - 1) % IdCount \in Ids
    <3>1. min + Size - 1 \in Nat
      BY <2>2, SizeAssumption DEF Ids
    <3> QED BY <3>1, ModType
  <2>4. part \in Partitions
    BY <2>2, <2>3 DEF Partition, Partitions
  <2> HIDE DEF part
  <2>5. replies' \in [Clients -> Seq(Partitions)]
    BY <2>1, <2>4 DEF part
  <2>6. granted' \subseteq Grants
    <3>1. [server |-> s, client |-> c, n |-> partitionCounter[s], part |-> part] \in Grants
      BY <2>4 DEF Grants
    <3> QED BY <2>1, <3>1 DEF part
  <2>7. requests' \in [Clients -> Seq(Servers)] /\ partitionCounter' \in [Servers -> Nat]
    BY <1>3 DEF GrantPartition
  <2> QED BY <1>3, <2>5, <2>6, <2>7 DEF GrantPartition
<1>4. ASSUME NEW c \in Clients, TakePartition(c) PROVE TypeOK'
  <2>1. Head(replies[c]) \in Partitions /\ Tail(replies[c]) \in Seq(Partitions)
    BY <1>4 DEF TakePartition
  <2> QED BY <1>4, <2>1 DEF TakePartition
<1>5. ASSUME NEW c \in Clients, StartGame(c) PROVE TypeOK'
  <2>1. Advance(local[c]) \in Partitions /\ local[c].nxt \in Ids
    BY AdvanceType DEF Partitions
  <2>2. server[c] \in Servers
    BY <1>5 DEF StartGame
  <2> QED BY <1>5, <2>1, <2>2 DEF StartGame, Phases
<1>6. ASSUME NEW c \in Clients, ServeGrid(c) PROVE TypeOK'
  <2>1. server[c] \in Servers
    BY <1>6 DEF ServeGrid
  <2>2. Advance(local[server[c]]) \in Partitions /\ local[server[c]].nxt \in Ids
    BY <2>1, AdvanceType DEF Partitions
  <2> QED BY <1>6, <2>1, <2>2 DEF ServeGrid, Phases
<1>7. ASSUME NEW c \in Clients, PostShip(c) PROVE TypeOK'
  <2>1. [id |-> ship[c], client |-> c, session |-> sessions[c]] \in Ships
    BY DEF Ships
  <2>2. ships' \in [Servers -> SUBSET Ships]
    BY <1>7, <2>1 DEF PostShip
  <2> QED BY <1>7, <2>2 DEF PostShip, Phases
<1>8. ASSUME NEW c \in Clients, Quit(c) PROVE TypeOK'
  BY <1>8 DEF Quit, Phases
<1>9. CASE UNCHANGED vars
  BY <1>9 DEF vars
<1> QED BY <1>1, <1>2, <1>3, <1>4, <1>5, <1>6, <1>7, <1>8, <1>9 DEF Next

--------------------------------------------------------------------------------
(* The inductive invariant. *)

(* The n-th part is a partition, and parts with different numbers are disjoint. *)
LEMMA PartsDisjoint ==
  ASSUME NEW n \in Nat, NEW m \in Nat, n # m
  PROVE  Disjoint(Part(n), Part(m))
<1>1. n * Size \in Nat /\ m * Size \in Nat
  BY SizeAssumption
<1>2. n < m => n * Size + Size <= m * Size
  BY Apart
<1>3. m < n => m * Size + Size <= n * Size
  BY Apart
<1>4. n < m \/ m < n
  OBVIOUS
<1> DEFINE a == n * Size  b == m * Size
<1> HIDE DEF a, b
<1>5. a \in Nat /\ b \in Nat /\ (a + Size <= b \/ b + Size <= a)
  BY <1>1, <1>2, <1>3, <1>4 DEF a, b
<1>6. \A id \in Nat : ~((a <= id /\ id <= a + Size - 1) /\ (b <= id /\ id <= b + Size - 1))
  BY <1>5, SizeAssumption
<1>7. Disjoint(Partition(a, a + Size - 1, a), Partition(b, b + Size - 1, b))
  BY <1>6 DEF Disjoint, Holds, Partition, Ids
<1> QED BY <1>7 DEF Part, a, b

(* The parts that are granted are apart from the server's own, the 0th. *)
LEMMA PartsOfServer ==
  ASSUME NEW n \in Nat, n >= 1, NEW p, p.min = 1, p.max = Size - 1
  PROVE  Disjoint(Part(n), p)
<1> DEFINE a == n * Size
<1>1. a \in Nat /\ a >= Size
  <2>1. 0 * Size + Size <= n * Size
    BY Apart
  <2>2. n * Size \in Nat
    BY SizeAssumption
  <2> QED BY <2>1, <2>2, SizeAssumption
<1> HIDE DEF a
<1>2. \A id \in Nat : ~((a <= id /\ id <= a + Size - 1) /\ (1 <= id /\ id <= Size - 1))
  BY <1>1, SizeAssumption
<1>3. Disjoint(Partition(a, a + Size - 1, a), p)
  BY <1>2 DEF Disjoint, Holds, Partition, Ids
<1> QED BY <1>3 DEF Part, a

(* A grant has the next number of its server. *)
LEMMA NumberedStep ==
  ASSUME NoOverflow, TypeOK, Numbered, [Next]_vars
  PROVE  Numbered' /\ granted \subseteq granted'
<1>1. ASSUME NEW c \in Clients, NEW s \in Servers, GrantPartition(s, c)
      PROVE  Numbered' /\ granted \subseteq granted'
  <2> DEFINE n == partitionCounter[s]
             new == [server |-> s, client |-> c, n |-> n, part |-> Part(n)]
  <2>1. n \in 1..MaxGrants /\ partitionCounter' = [partitionCounter EXCEPT ![s] = n + 1]
    BY <1>1, BoundsAssumption DEF GrantPartition, Numbered, TypeOK
  <2>2. granted' = granted \cup {new}
    <3>1. PICK min \in Mins(n) :
            granted' = granted \cup
              {[server |-> s, client |-> c, n |-> n,
                part |-> Partition(min, (min + Size - 1) % IdCount, min)]}
      BY <1>1 DEF GrantPartition
    <3>2. min = n * Size /\ (min + Size - 1) % IdCount = n * Size + Size - 1
      BY <2>1, MinsExact
    <3>3. Partition(min, (min + Size - 1) % IdCount, min) = Part(n)
      BY <3>2 DEF Part
    <3> QED BY <3>1, <3>3
  <2> HIDE DEF n, new
  <2>3. \A t \in Servers : /\ partitionCounter[t] \in 1..MaxGrants+1
                           /\ partitionCounter'[t] = IF t = s THEN n + 1 ELSE partitionCounter[t]
    BY <2>1 DEF Numbered, TypeOK
  <2>4. \A t \in Servers : partitionCounter'[t] \in 1..MaxGrants+1
    BY <2>1, <2>3, BoundsAssumption
  <2>5. new.server = s /\ new.n = n /\ new.part = Part(n)
    BY DEF new
  <2>6. \A g \in granted : /\ g.server \in Servers /\ g.n \in Nat
                           /\ g.part = Part(g.n) /\ 1 <= g.n /\ g.n < partitionCounter[g.server]
                           /\ \A h \in granted : g.server = h.server /\ g.n = h.n => g = h
    BY DEF Numbered, TypeOK, Grants
  <2>7. n = partitionCounter[s]
    BY DEF n
  <2>8. \A g \in granted' : /\ g.part = Part(g.n) /\ 1 <= g.n
                            /\ g.n < partitionCounter'[g.server]
    BY <2>1, <2>2, <2>3, <2>5, <2>6, <2>7, BoundsAssumption
  <2>9. \A g \in granted', h \in granted' : g.server = h.server /\ g.n = h.n => g = h
    BY <2>1, <2>2, <2>5, <2>6, <2>7
  <2> QED BY <2>2, <2>4, <2>8, <2>9 DEF Numbered
<1>2. ASSUME UNCHANGED <<granted, partitionCounter>> PROVE Numbered' /\ granted \subseteq granted'
  BY <1>2 DEF Numbered
<1> QED BY <1>1, <1>2 DEF Next, Join, AskPartition, TakePartition, StartGame, ServeGrid, PostShip,
                        Quit, vars

(* Only the request for a grid draws from the server's partition, and once.    *)
LEMMA ServerDrawsStep ==
  ASSUME TypeOK, ServerDraws, [Next]_vars
  PROVE  ServerDraws' /\ \A s \in Servers : local'[s].min = local[s].min /\ local'[s].max = local[s].max
<1> DEFINE Same(s) == local'[s] = local[s] /\ grid'[s] = grid[s]
<1>0. \A s \in Servers : local[s] \in Partitions /\ s \notin Clients
  BY ProcessesAssumption DEF TypeOK
<1>1. ASSUME \A s \in Servers : Same(s)
      PROVE  ServerDraws' /\ \A s \in Servers : local'[s].min = local[s].min /\ local'[s].max = local[s].max
  BY <1>1 DEF ServerDraws
<1>2. ASSUME NEW c \in Clients, ServeGrid(c), grid[server[c]] = BadId
      PROVE  ServerDraws' /\ \A s \in Servers : local'[s].min = local[s].min /\ local'[s].max = local[s].max
  <2> DEFINE s == server[c]
  <2>1. s \in Servers
    BY <1>2 DEF ServeGrid, TypeOK
  <2>2. /\ grid' = [grid EXCEPT ![s] = local[s].nxt]
        /\ local' = [local EXCEPT ![s] = Advance(local[s])]
    BY <1>2 DEF ServeGrid
  <2>3. local[s].nxt = 1
    BY <1>2, <2>1 DEF ServerDraws
  <2>4. grid'[s] = 1
    BY <2>1, <2>2, <2>3 DEF TypeOK
  <2>5. local'[s] = Advance(local[s])
    BY <2>1, <2>2 DEF TypeOK
  <2>6. local'[s].min = local[s].min /\ local'[s].max = local[s].max
    BY <1>0, <2>1, <2>5 DEF Advance, Partitions
  <2>7. \A t \in Servers : t # s => Same(t)
    BY <2>1, <2>2 DEF TypeOK
  <2> HIDE DEF s
  <2> QED BY <2>1, <2>4, <2>6, <2>7 DEF ServerDraws, BadId
<1>3. ASSUME NEW c \in Clients, ServeGrid(c), grid[server[c]] # BadId
      PROVE  \A s \in Servers : Same(s)
  BY <1>3 DEF ServeGrid
<1>4. ASSUME NEW c \in Clients, TakePartition(c) \/ StartGame(c) PROVE \A s \in Servers : Same(s)
  BY <1>0, <1>4 DEF TakePartition, StartGame, TypeOK
<1>5. ASSUME UNCHANGED <<local, grid>> PROVE \A s \in Servers : Same(s)
  BY <1>5
<1> QED BY <1>1, <1>2, <1>3, <1>4, <1>5
        DEF Next, Join, AskPartition, GrantPartition, PostShip, Quit, vars

(* A partition leaves room for a whole partition of draws below IdCount.       *)
LEMMA GrantBounds ==
  ASSUME NoOverflow, TypeOK, Numbered, NEW g \in granted
  PROVE  /\ g.n \in Nat /\ g.client \in Clients /\ g.server \in Servers
         /\ g.part.min \in Nat /\ g.part.min = g.n * Size /\ g.part.max = g.part.min + Size - 1
         /\ g.part.nxt = g.part.min
         /\ g.part.min + Size < IdCount /\ g.part.min >= Size
<1>1. /\ g.n \in Nat /\ g.client \in Clients /\ g.server \in Servers
      /\ g.part = Part(g.n) /\ 1 <= g.n /\ g.n < partitionCounter[g.server]
  BY DEF TypeOK, Grants, Numbered
<1>2. g.n < MaxGrants + 1 /\ MaxGrants + 1 \in Nat
  BY <1>1, BoundsAssumption DEF Numbered
<1>3. g.n * Size + Size <= (MaxGrants + 1) * Size
  BY <1>1, <1>2, Apart
<1>4. 0 * Size + Size <= g.n * Size
  BY <1>1, Apart
<1>5. g.n * Size \in Nat /\ (MaxGrants + 1) * Size \in Nat
  BY <1>1, <1>2, SizeAssumption
<1>6. g.part.min = g.n * Size /\ g.part.max = g.n * Size + Size - 1 /\ g.part.nxt = g.n * Size
  BY <1>1 DEF Part, Partition
<1> QED BY <1>1, <1>3, <1>4, <1>5, <1>6, SizeAssumption, WidthAssumption DEF NoOverflow

(* Every answer under way is a grant to the client it goes to. *)
LEMMA AnsweredStep ==
  ASSUME TypeOK, Answered, granted \subseteq granted', [Next]_vars
  PROVE  Answered'
<1> DEFINE Good(c, q) == \A i \in DOMAIN q : \E g \in granted' : g.client = c /\ g.part = q[i]
<1>1. \A c \in Clients : Good(c, replies[c])
  BY DEF Answered
<1>2. SUFFICES \A c \in Clients : Good(c, replies'[c])
  BY DEF Answered
<1>3. ASSUME NEW c \in Clients, NEW s \in Servers, GrantPartition(s, c)
      PROVE  \A d \in Clients : Good(d, replies'[d])
  <2>1. PICK part : /\ replies' = [replies EXCEPT ![c] = Append(@, part)]
                    /\ \E g \in granted' : g.client = c /\ g.part = part
    <3>1. PICK min \in Mins(partitionCounter[s]) :
            LET part == Partition(min, (min + Size - 1) % IdCount, min)
            IN  /\ replies' = [replies EXCEPT ![c] = Append(@, part)]
                /\ granted' = granted \cup
                     {[server |-> s, client |-> c, n |-> partitionCounter[s], part |-> part]}
      BY <1>3 DEF GrantPartition
    <3> DEFINE P == Partition(min, (min + Size - 1) % IdCount, min)
               new == [server |-> s, client |-> c, n |-> partitionCounter[s], part |-> P]
    <3>2. replies' = [replies EXCEPT ![c] = Append(replies[c], P)] /\ new \in granted'
      BY <3>1
    <3>3. new.client = c /\ new.part = P
      OBVIOUS
    <3> HIDE DEF new, P
    <3> QED BY <3>2, <3>3
  <2>2. replies[c] \in Seq(Partitions)
    BY DEF TypeOK
  <2>3. Good(c, Append(replies[c], part))
    BY <1>1, <2>1, <2>2
  <2>4. \A d \in Clients : replies'[d] = IF d = c THEN Append(replies[c], part) ELSE replies[d]
    BY <2>1 DEF TypeOK
  <2> HIDE DEF Good
  <2> QED BY <1>1, <2>3, <2>4
<1>4. ASSUME NEW c \in Clients, TakePartition(c)
      PROVE  \A d \in Clients : Good(d, replies'[d])
  <2>1. replies[c] \in Seq(Partitions) /\ replies[c] # <<>>
    BY <1>4 DEF TakePartition, TypeOK
  <2>2. \A i \in DOMAIN Tail(replies[c]) : /\ i + 1 \in DOMAIN replies[c]
                                           /\ Tail(replies[c])[i] = replies[c][i + 1]
    BY <2>1
  <2>3. Good(c, Tail(replies[c]))
    BY <1>1, <2>2
  <2>4. \A d \in Clients : replies'[d] = IF d = c THEN Tail(replies[c]) ELSE replies[d]
    BY <1>4 DEF TakePartition, TypeOK
  <2> HIDE DEF Good
  <2> QED BY <1>1, <2>3, <2>4
<1>5. ASSUME UNCHANGED replies PROVE \A d \in Clients : Good(d, replies'[d])
  BY <1>1, <1>5
<1> QED BY <1>3, <1>4, <1>5
        DEF Next, Join, AskPartition, StartGame, ServeGrid, PostShip, Quit, vars

(* What ClientDraws says of one client. *)
Draws(c) ==
  /\ sessions[c] <= MaxSessions
  /\ phase[c] \notin {"prompt", "waiting"} => isReady[c]
  /\ phase[c] = "waiting" => sessions[c] = 0
  /\ ~isReady[c] => sessions[c] = 0
  /\ isReady[c] => \E g \in granted : /\ g.client = c
                                      /\ local[c].min = g.part.min
                                      /\ local[c].nxt = g.part.min + sessions[c]
  /\ phase[c] \in {"playing", "placed", "present"} =>
       sessions[c] >= 1 /\ ship[c] = local[c].min + sessions[c] - 1

(* A client draws the ids of its partition one by one, one for each game.      *)
LEMMA DrawsStep ==
  ASSUME NoOverflow, NoOverrun, TypeOK, TypeOK', Numbered, Answered, granted \subseteq granted',
         [Next]_vars, NEW c \in Clients, Draws(c)
  PROVE  Draws(c)'
<1>0. /\ sessions[c] \in Nat /\ phase[c] \in Phases /\ isReady[c] \in BOOLEAN
      /\ local[c] \in Partitions /\ c \notin Servers
  BY ProcessesAssumption DEF TypeOK
<1> DEFINE Same(d) == /\ sessions'[d] = sessions[d] /\ isReady'[d] = isReady[d]
                      /\ local'[d] = local[d] /\ ship'[d] = ship[d]
<1>1. ASSUME Same(c), phase'[c] = phase[c] PROVE Draws(c)'
  BY <1>1 DEF Draws
<1>2. ASSUME NEW s \in Servers, Join(c, s) PROVE Draws(c)'
  <2>1. Same(c) /\ phase'[c] = IF isReady[c] THEN "starting" ELSE "waiting"
    BY <1>2 DEF Join, TypeOK
  <2> QED BY <2>1 DEF Draws
<1>3. ASSUME TakePartition(c) PROVE Draws(c)'
  <2>1. /\ phase[c] = "waiting" /\ phase'[c] = phase[c] /\ sessions'[c] = sessions[c]
        /\ isReady'[c] = TRUE /\ local'[c] = Head(replies[c]) /\ replies[c] # <<>>
    BY <1>3 DEF TakePartition, TypeOK
  <2>2. PICK g \in granted : g.client = c /\ g.part = Head(replies[c])
    <3>1. replies[c] \in Seq(Partitions)
      BY DEF TypeOK
    <3> QED BY <2>1, <3>1 DEF Answered
  <2>3. g.part.nxt = g.part.min /\ g.part.min \in Nat
    BY GrantBounds
  <2>4. sessions'[c] = 0
    BY <2>1 DEF Draws
  <2> QED BY <2>1, <2>2, <2>3, <2>4, BoundsAssumption DEF Draws
<1>4. ASSUME StartGame(c) PROVE Draws(c)'
  <2>1. /\ sessions[c] < MaxSessions /\ sessions'[c] = sessions[c] + 1 /\ isReady'[c] = isReady[c]
        /\ phase'[c] \in {"playing", "ended"} /\ ship'[c] = local[c].nxt
        /\ local'[c] = Advance(local[c])
    BY <1>4 DEF StartGame, TypeOK
  <2>2. isReady[c]
    BY <1>4 DEF StartGame, Draws
  <2>3. PICK g \in granted : /\ g.client = c /\ local[c].min = g.part.min
                             /\ local[c].nxt = g.part.min + sessions[c]
    BY <2>2 DEF Draws
  <2>4. g.part.min \in Nat /\ g.part.min + Size < IdCount
    BY GrantBounds
  <2>5. local'[c].min = local[c].min /\ local'[c].nxt = (local[c].nxt + 1) % IdCount
    BY <2>1, <1>0 DEF Advance, Partitions
  <2>6. local[c].nxt + 1 \in Nat /\ local[c].nxt + 1 < IdCount
    BY <1>0, <2>1, <2>3, <2>4, SizeAssumption, BoundsAssumption, WidthAssumption DEF NoOverrun
  <2>7. \A x \in Nat : x < IdCount => x % IdCount = x
    BY WidthAssumption
  <2>8. local'[c].nxt = g.part.min + sessions'[c]
    BY <1>0, <2>1, <2>3, <2>4, <2>5, <2>6, <2>7
  <2>9. ship'[c] = local'[c].min + sessions'[c] - 1 /\ sessions'[c] >= 1 /\ sessions'[c] <= MaxSessions
    BY <1>0, <2>1, <2>3, <2>4, <2>5, BoundsAssumption
  <2>10. g \in granted'
    OBVIOUS
  <2> QED BY <2>1, <2>2, <2>3, <2>5, <2>8, <2>9, <2>10 DEF Draws
<1>5. ASSUME ServeGrid(c) \/ PostShip(c) \/ Quit(c) PROVE Draws(c)'
  <2>1. Same(c)
    <3>1. server[c] # c
      BY <1>0, <1>5 DEF ServeGrid, TypeOK, PostShip, Quit
    <3>2. server[c] \in Servers \/ Quit(c)
      BY <1>5 DEF ServeGrid, PostShip, TypeOK
    <3> QED BY <1>5, <1>0, <3>1, <3>2 DEF ServeGrid, PostShip, Quit, TypeOK
  <2>2. /\ phase[c] \in {"playing", "placed", "present"}
        /\ phase'[c] \in {"placed", "present", "prompt"}
    BY <1>5 DEF ServeGrid, PostShip, Quit, TypeOK
  <2> QED BY <2>1, <2>2 DEF Draws
<1>6. ASSUME NEW d \in Clients, d # c,
             \/ \E s \in Servers : Join(d, s)
             \/ TakePartition(d) \/ StartGame(d) \/ ServeGrid(d) \/ PostShip(d) \/ Quit(d)
      PROVE  Same(c) /\ phase'[c] = phase[c]
  <2>1. ServeGrid(d) => server[d] # c
    BY <1>0 DEF ServeGrid, TypeOK
  <2> QED BY <1>6, <2>1, SMTT(30) DEF Join, TakePartition, StartGame, ServeGrid, PostShip, Quit, TypeOK
<1>7. ASSUME NEW d \in Clients, AskPartition(d) \/ (\E s \in Servers : GrantPartition(s, d))
      PROVE  Same(c) /\ phase'[c] = phase[c]
  BY <1>7 DEF AskPartition, GrantPartition
<1>8. ASSUME UNCHANGED vars PROVE Same(c) /\ phase'[c] = phase[c]
  BY <1>8 DEF vars
<1> QED BY <1>1, <1>2, <1>3, <1>4, <1>5, <1>6, <1>7, <1>8 DEF Next

(* The ships of the scenes keep the numbers their client drew. *)
LEMMA ShipsStep ==
  ASSUME TypeOK, TypeOK', ClientDraws, ShipsNumbered, [Next]_vars
  PROVE  ShipsNumbered'
<1> DEFINE Good(o) == /\ isReady[o.client]
                      /\ 1 <= o.session /\ o.session <= sessions[o.client]
                      /\ o.id = local[o.client].min + o.session - 1
<1>1. ASSUME NEW o \in Ships, Good(o) PROVE Good(o)'
  <2> DEFINE c == o.client
  <2>0. /\ c \in Clients /\ o.session \in Nat /\ sessions[c] \in Nat /\ local[c] \in Partitions
        /\ c \notin Servers
    BY ProcessesAssumption DEF Ships, TypeOK
  <2>1. ~TakePartition(c)
    BY <1>1, <2>0 DEF TakePartition, ClientDraws
  <2>2. isReady'[c] /\ sessions'[c] >= sessions[c] /\ local'[c].min = local[c].min
    <3>1. ASSUME StartGame(c) PROVE isReady'[c] /\ sessions'[c] = sessions[c] + 1
                                    /\ local'[c].min = local[c].min
      BY <1>1, <2>0, <3>1 DEF StartGame, TypeOK, Advance, Partitions
    <3>2. ASSUME NEW d \in Clients, d # c, TakePartition(d) \/ StartGame(d)
          PROVE  isReady'[c] /\ sessions'[c] = sessions[c] /\ local'[c].min = local[c].min
      BY <1>1, <2>0, <3>2, SMTT(30) DEF TakePartition, StartGame, TypeOK
    <3>3. ASSUME NEW d \in Clients, ServeGrid(d)
          PROVE  isReady'[c] /\ sessions'[c] = sessions[c] /\ local'[c].min = local[c].min
      <4>1. server[d] \in Servers
        BY <3>3 DEF ServeGrid, TypeOK
      <4> QED BY <1>1, <2>0, <3>3, <4>1 DEF ServeGrid, TypeOK
    <3>4. ASSUME UNCHANGED <<isReady, sessions, local>>
          PROVE  isReady'[c] /\ sessions'[c] = sessions[c] /\ local'[c].min = local[c].min
      BY <1>1, <3>4
    <3> HIDE DEF c
    <3> QED BY <2>0, <2>1, <3>1, <3>2, <3>3, <3>4
            DEF Next, Join, AskPartition, GrantPartition, PostShip, Quit, vars
  <2>3. sessions'[c] \in Nat
    BY <2>0 DEF TypeOK
  <2> HIDE DEF c
  <2>4. o.session <= sessions'[c]
    BY <1>1, <2>0, <2>2, <2>3 DEF c
  <2> QED BY <1>1, <2>2, <2>4 DEF c
<1>2. ASSUME NEW s \in Servers, NEW o \in ships[s] PROVE o \in Ships /\ Good(o)
  BY <1>2 DEF ShipsNumbered, TypeOK
<1>3. ASSUME NEW s \in Servers, NEW o \in ships'[s], o \notin ships[s] PROVE Good(o)'
  <2>1. PICK c \in Clients : PostShip(c)
    BY <1>3 DEF Next, Join, AskPartition, GrantPartition, TakePartition, StartGame, ServeGrid, Quit,
                vars
  <2>2. o = [id |-> ship[c], client |-> c, session |-> sessions[c]]
    BY <1>3, <2>1 DEF PostShip, TypeOK
  <2>3. isReady[c] /\ sessions[c] >= 1 /\ ship[c] = local[c].min + sessions[c] - 1 /\ sessions[c] \in Nat
    BY <2>1 DEF PostShip, ClientDraws, TypeOK
  <2>4. isReady' = isReady /\ sessions' = sessions /\ local' = local
    BY <2>1 DEF PostShip
  <2> QED BY <2>2, <2>3, <2>4
<1> HIDE DEF Good
<1>4. \A s \in Servers : \A o \in ships'[s] : Good(o)'
  BY <1>1, <1>2, <1>3
<1> QED BY <1>4 DEF ShipsNumbered, Good

(* The protocol starts in the inductive invariant. *)
LEMMA IInvInit == Init => IInv
<1> SUFFICES ASSUME Init PROVE IInv
  OBVIOUS
<1>1. TypeOK
  BY TypeInit
<1>2. Numbered /\ Answered /\ ShipsNumbered
  BY BoundsAssumption DEF Init, Numbered, Answered, ShipsNumbered
<1>3. ServerDraws
  <2> SUFFICES ASSUME NEW s \in Servers
               PROVE  /\ local[s].min = 1 /\ local[s].max = Size - 1
                      /\ grid[s] = BadId => local[s].nxt = 1
                      /\ grid[s] # BadId => grid[s] = 1
    BY DEF ServerDraws
  <2>1. local[s] = Partition(BadId + 1, Size - 1, BadId + 1)
    BY DEF Init
  <2>2. BadId + 1 = 1
    BY DEF BadId
  <2>3. local[s].min = 1 /\ local[s].max = Size - 1 /\ local[s].nxt = 1
    BY <2>1, <2>2 DEF Partition
  <2>4. grid[s] = BadId
    BY DEF Init
  <2> QED BY <2>3, <2>4
<1>4. ClientDraws
  BY BoundsAssumption DEF Init, ClientDraws
<1> QED BY <1>1, <1>2, <1>3, <1>4 DEF IInv

(* Every step keeps it. *)
LEMMA IInvStep == ASSUME NoOverflow, NoOverrun PROVE IInv /\ [Next]_vars => IInv'
<1> SUFFICES ASSUME IInv, [Next]_vars PROVE IInv'
  OBVIOUS
<1>1. TypeOK /\ Numbered /\ ServerDraws /\ Answered /\ ClientDraws /\ ShipsNumbered
  BY DEF IInv
<1>2. TypeOK'
  BY <1>1, TypeStep
<1>3. Numbered' /\ granted \subseteq granted'
  BY <1>1, NumberedStep
<1>4. ServerDraws'
  BY <1>1, ServerDrawsStep
<1>5. Answered'
  BY <1>1, <1>3, AnsweredStep
<1>6. \A c \in Clients : Draws(c)
  BY <1>1 DEF ClientDraws, Draws
<1>7. \A c \in Clients : Draws(c)'
  BY <1>1, <1>2, <1>3, <1>6, DrawsStep
<1>8. ClientDraws'
  BY <1>7 DEF ClientDraws, Draws
<1>9. ShipsNumbered'
  BY <1>1, <1>2, ShipsStep
<1> QED BY <1>2, <1>3, <1>4, <1>5, <1>8, <1>9 DEF IInv

(* So it holds in every state of a run. *)
LEMMA Invariant == ASSUME NoOverflow, NoOverrun PROVE Spec => []IInv
<1>1. IInv /\ [Next]_vars => IInv'
  BY IInvStep
<1> QED BY IInvInit, <1>1, PTL DEF Spec

--------------------------------------------------------------------------------
(* The theorems. *)

(* Every variable keeps its type, also past the point where the product of the *)
(* counter and the partition size overflows an int.                            *)
THEOREM TypeCorrect == Spec => []TypeOK
BY TypeInit, TypeStep, PTL DEF Spec

(* The partitions a server grants are disjoint from each other and from its    *)
(* own, however often clients retry, as long as the int product does not       *)
(* overflow (GrantPartition).                                                  *)
THEOREM PartitionsDisjoint == ASSUME NoOverflow, NoOverrun PROVE Spec => []GrantsDisjoint
<1>1. IInv => GrantsDisjoint
  <2> SUFFICES ASSUME IInv PROVE GrantsDisjoint
    OBVIOUS
  <2>0. TypeOK /\ Numbered /\ ServerDraws
    BY DEF IInv
  <2>1. ASSUME NEW g \in granted PROVE Disjoint(g.part, local[g.server])
    <3>1. g.n \in Nat /\ g.n >= 1 /\ g.part = Part(g.n) /\ g.server \in Servers
      BY <2>0, GrantBounds DEF Numbered
    <3> QED BY <2>0, <3>1, PartsOfServer DEF ServerDraws
  <2>2. ASSUME NEW g \in granted, NEW h \in granted, g.server = h.server, g # h
        PROVE  Disjoint(g.part, h.part)
    <3>1. g.n \in Nat /\ h.n \in Nat /\ g.n # h.n /\ g.part = Part(g.n) /\ h.part = Part(h.n)
      BY <2>0, <2>2, GrantBounds DEF Numbered
    <3> QED BY <3>1, PartsDisjoint
  <2> QED BY <2>1, <2>2 DEF GrantsDisjoint
<1>2. Spec => []IInv
  BY Invariant
<1> QED BY <1>1, <1>2, PTL

(* The id of a ship comes from a partition that was granted to its client.     *)
THEOREM ShipsHaveOwnIds == ASSUME NoOverflow, NoOverrun PROVE Spec => []OwnIds
<1>1. IInv => OwnIds
  <2> SUFFICES ASSUME IInv, NEW s \in Servers, NEW o \in ships[s]
               PROVE  \E g \in granted : g.client = o.client /\ Holds(g.part, o.id)
    BY DEF OwnIds
  <2>1. TypeOK /\ Numbered /\ ClientDraws /\ ShipsNumbered
    BY DEF IInv
  <2>2. /\ o.client \in Clients /\ o.session \in Nat /\ sessions[o.client] \in Nat
        /\ isReady[o.client] /\ 1 <= o.session /\ o.session <= sessions[o.client]
        /\ o.id = local[o.client].min + o.session - 1 /\ sessions[o.client] <= MaxSessions
    BY <2>1 DEF ShipsNumbered, ClientDraws, TypeOK, Ships
  <2>3. PICK g \in granted : g.client = o.client /\ local[o.client].min = g.part.min
    BY <2>1, <2>2 DEF ClientDraws
  <2>4. g.part.min \in Nat /\ g.part.max = g.part.min + Size - 1
    BY <2>1, GrantBounds
  <2>5. Holds(g.part, o.id)
    BY <2>2, <2>3, <2>4, SizeAssumption, BoundsAssumption DEF Holds, NoOverrun
  <2> QED BY <2>3, <2>5
<1>2. Spec => []IInv
  BY Invariant
<1> QED BY <1>1, <1>2, PTL

(* With one server no two objects of its scene ever have the same id: what     *)
(* SceneManager::processMessage assumes.  Clients that change servers, or a    *)
(* server that restarts, are outside this theorem, and there it fails.         *)
THEOREM OneServerNoConflict ==
  ASSUME NoOverflow, NoOverrun, \A s, t \in Servers : s = t
  PROVE  Spec => []NoIdConflict
<1>1. IInv => NoIdConflict
  <2> SUFFICES ASSUME IInv, NEW s \in Servers, NEW o \in ships[s]
               PROVE  /\ o.id \notin {BadId, grid[s]}
                      /\ \A q \in ships[s] : o.id = q.id => o = q
    BY DEF NoIdConflict
  <2>1. TypeOK /\ Numbered /\ ServerDraws /\ ClientDraws /\ ShipsNumbered
    BY DEF IInv
  <2>2. ASSUME NEW q \in ships[s]
        PROVE  /\ q \in Ships /\ q.session >= 1 /\ q.session <= Size
               /\ \E g \in granted : /\ g.client = q.client
                                     /\ q.id = g.part.min + q.session - 1
                                     /\ local[q.client].min = g.part.min
    <3>1. /\ q \in Ships /\ q.client \in Clients /\ q.session \in Nat /\ sessions[q.client] \in Nat
          /\ isReady[q.client] /\ 1 <= q.session /\ q.session <= sessions[q.client]
          /\ q.id = local[q.client].min + q.session - 1 /\ sessions[q.client] <= MaxSessions
      BY <2>1 DEF ShipsNumbered, ClientDraws, TypeOK, Ships
    <3>2. PICK g \in granted : g.client = q.client /\ local[q.client].min = g.part.min
      BY <2>1, <3>1 DEF ClientDraws
    <3>3. q.session <= Size
      BY <3>1, SizeAssumption, BoundsAssumption DEF NoOverrun
    <3> QED BY <3>1, <3>2, <3>3
  <2>3. PICK g \in granted : g.client = o.client /\ o.id = g.part.min + o.session - 1
                             /\ local[o.client].min = g.part.min
    BY <2>2
  <2>4. o.id \notin {BadId, grid[s]}
    <3>1. g.part.min \in Nat /\ g.part.min >= Size /\ o.session \in Nat /\ o.session >= 1
      BY <2>1, <2>2, GrantBounds DEF Ships
    <3>2. o.id >= Size
      BY <2>3, <3>1, SizeAssumption
    <3>3. grid[s] \in {0, 1}
      BY <2>1 DEF ServerDraws, BadId
    <3> QED BY <3>2, <3>3, SizeAssumption DEF BadId
  <2>5. ASSUME NEW q \in ships[s], o.id = q.id PROVE o = q
    <3>1. PICK h \in granted : h.client = q.client /\ q.id = h.part.min + q.session - 1
                               /\ local[q.client].min = h.part.min
      BY <2>2
    <3>2. /\ o \in Ships /\ q \in Ships /\ o.session \in 1..Size /\ q.session \in 1..Size
          /\ o.id \in Ids
      BY <2>2, SizeAssumption DEF Ships
    <3>3. /\ g.part.min \in Nat /\ h.part.min \in Nat /\ g.n \in Nat /\ h.n \in Nat
          /\ g.server = h.server /\ g.part = Part(g.n) /\ h.part = Part(h.n)
          /\ g.part.max = g.part.min + Size - 1 /\ h.part.max = h.part.min + Size - 1
      BY <2>1, GrantBounds DEF Numbered
    <3>4. CASE g = h
      <4>1. o.session = q.session
        BY <2>3, <2>5, <3>1, <3>2, <3>3, <3>4
      <4>2. o.client = q.client
        BY <2>3, <3>1, <3>4
      <4> QED BY <2>5, <3>2, <4>1, <4>2 DEF Ships
    <3>5. CASE g # h
      <4>1. g.n # h.n
        BY <2>1, <3>3, <3>5 DEF Numbered
      <4>2. Disjoint(g.part, h.part)
        BY <3>3, <4>1, PartsDisjoint
      <4>3. Holds(g.part, o.id) /\ Holds(h.part, o.id)
        BY <2>3, <2>5, <3>1, <3>2, <3>3, SizeAssumption DEF Holds
      <4> QED BY <3>2, <4>2, <4>3 DEF Disjoint
    <3> QED BY <3>4, <3>5
  <2> QED BY <2>4, <2>5
<1>2. Spec => []IInv
  BY Invariant
<1> QED BY <1>1, <1>2, PTL
=================================================================================

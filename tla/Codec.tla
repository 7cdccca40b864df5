--------------------------------- MODULE Codec ---------------------------------
(***************************************************************************)
(* What packMessage of one peer and unpackMessage of another make of the   *)
(* objects of the game: Packable and the objects that are sent, POST and   *)
(* UPDATE of SceneManager.  An owner changes its object and sends it, a    *)
(* peer unpacks into its copy; of a ship, what is changed past the pending *)
(* targets, and what is sent while the peer does not listen, never comes.  *)
(*                                                                         *)
(* The fields of an object are listed in the order in which the code       *)
(* pushes and pops them, with the sizes of their types; the number of a    *)
(* MsgDiffType, SyncTarget or Class_Id is what is packed for it.           *)
(***************************************************************************)
EXTENDS MessageBody, FiniteSets

CONSTANTS Values,        \* what a number that is sent can be
          Moving,        \* the transforms with a velocity or an angular velocity
          MaxChanges,    \* bound: changes of the object
          MaxSent        \* bound: messages of one owner

ASSUME CodecAssumption ==
  /\ Values \subseteq Nat /\ {MaxChanges, MaxSent} \subseteq Nat
  /\ Moving \subseteq Values \ {0}

-----------------------------------------------------------------------------
(* The curves: their class ids and the fields they pack.                    *)

CurveFields ==
  <<<<>>, <<<<"x", 4>>>>, <<<<"x", 1>>, <<"y", 4>>>>, <<<<"x", 16>>, <<"y", 16>>>>>>
CurveIds == 1 .. Len(CurveFields)     \* the class ids of Linear, Const, Step, Bezier
CurveOf(class) == [class |-> class, x |-> 0, y |-> 0]

PackCurve(body, c) == Push(body, c, CurveFields[c.class])
UnpackCurve(body, c) ==
  Pop([body |-> body, obj |-> c, ok |-> TRUE], Reverse(CurveFields[c.class]))

(* CurvePipe packs the payload of each stage twice, once as its class and   *)
(* once by itself, then the class id; it unpacks it once.                   *)
PackPipe(pipe) ==
  LET size == Len(pipe.stages)
      Stage(b, i) == LET c == pipe.stages[size + 1 - i]
                     IN  Append(PackCurve(PackCurve(b, c), c), <<1, c.class>>)
  IN  Append(Repeat(size, <<>>, Stage), <<8, size>>)

UnpackPipe(body) ==
  LET Added(r, u) == [u EXCEPT !.obj = [stages |-> Append(r.obj.stages, u.obj)]]
      Stage(r, i) ==
        LET class == Value(r.body, 1, 0)
        IN  IF ~r.ok \/ class \notin CurveIds THEN [r EXCEPT !.ok = FALSE]
            ELSE Added(r, UnpackCurve(Rest(r.body, 1), CurveOf(class)))
  IN  Repeat(Value(body, 8, 0), [body |-> Rest(body, 8), obj |-> [stages |-> <<>>], ok |-> TRUE], Stage)

-----------------------------------------------------------------------------
(* PowerBank and Generator: one field for each MsgDiffType, in its order.   *)

BankFields == <<<<"capacity", 8>>, <<"value", 8>>>>
SourceFields == <<<<"throttle_n", 4>>, <<"gen_g", 0>>, <<"con_g", 0>>,
                  <<"maxGenerate", 8>>, <<"maxConsumption", 8>>, <<"fuel", 8>>>>
Gradients == {2, 3}     \* the types whose field is a curve

(* packMessage and unpackMessage of a single type.  A gradient is unpacked  *)
(* as the class the copy has.                                               *)
PackField(body, o, fields, t) ==
  IF fields = SourceFields /\ t \in Gradients
  THEN PackCurve(body, o[fields[t][1]]) ELSE Push(body, o, <<fields[t]>>)

UnpackField(r, fields, t) ==
  IF fields = SourceFields /\ t \in Gradients
  THEN Into(r, fields[t][1], UnpackCurve(r.body, r.obj[fields[t][1]]))
  ELSE Pop(r, <<fields[t]>>)

(* packTargets, the pending types in some order.                            *)
packTargets(body, o, fields, order) ==
  Append(Repeat(Len(order), body,
                LAMBDA b, i : Append(PackField(b, o, fields, order[i]), <<1, order[i]>>)),
         <<1, Len(order)>>)

unpackTargets(r, fields) ==
  LET n == Value(r.body, 1, 0)
      Target(q, i) ==
        LET t == Value(q.body, 1, 0)
        IN  IF q.ok /\ t \in 1 .. Len(fields)
            THEN UnpackField([q EXCEPT !.body = Rest(q.body, 1)], fields, t)
            ELSE [q EXCEPT !.ok = FALSE]
  IN  IF n = Garbage THEN [r EXCEPT !.ok = FALSE]
      ELSE Repeat(n, [r EXCEPT !.body = Rest(r.body, 1)], Target)

-----------------------------------------------------------------------------
(* The objects that are sent.                                               *)

ShipDefault ==
  [bank |-> [capacity |-> 0, value |-> 0],
   source |-> [throttle_n |-> 0, gen_g |-> CurveOf(1), con_g |-> CurveOf(1),
               maxGenerate |-> 0, maxConsumption |-> 0, fuel |-> 0],
   verts |-> <<>>, transform |-> 0, mass |-> 0]

TransformFields == <<<<"transform", 80>>, <<"mass", 8>>>>

(* Ship packs its (always empty) body, then the targets of its source and   *)
(* its bank; it unpacks them the other way round.                           *)
PackShip(o, sourceOrder, bankOrder) ==
  packTargets(packTargets(packArray(<<>>, o.verts, 8), o.source, SourceFields, sourceOrder),
              o.bank, BankFields, bankOrder)

(* Altered form: the source is unpacked first, as it was packed.            *)
UnpackShipSourceFirst(body, o) ==
  LET Part(r, part, fields) == Into(r, part, unpackTargets(At(r, part), fields))
      r == Part([body |-> body, obj |-> o, ok |-> TRUE], "source", SourceFields)
  IN  unpackArray(Part(r, "bank", BankFields), "verts", 8)
UnpackShip(body, o) ==
  LET Part(r, part, fields) == Into(r, part, unpackTargets(At(r, part), fields))
      r == Part([body |-> body, obj |-> o, ok |-> TRUE], "bank", BankFields)
  IN  unpackArray(Part(r, "source", SourceFields), "verts", 8)

(* NavInfo: the state of the pattern, then what the pattern itself packs,   *)
(* which is the target of ALIGN; it unpacks in the same order.              *)
None == 0
ALIGN == 1
TravelStates == 0 .. 5
NavFields(state) == IF state = ALIGN THEN <<<<"target", 4>>>> ELSE <<>>

PackNav(o) == Push(Push(<<>>, o, <<<<"state", 1>>>>), o, NavFields(o.state))

UnpackNav(body, o) ==
  LET ts == Value(body, 1, 0)
      start == [body |-> Rest(body, 1), obj |-> [state |-> ts, target |-> 0], ok |-> TRUE]
  IN  CASE ts = None -> [start EXCEPT !.obj = o]
        [] ts \in TravelStates \ {None} -> Pop(start, NavFields(ts))
        [] OTHER -> [start EXCEPT !.obj = o, !.ok = FALSE]

(* Grid: the ids of its objects and its position.  What was unpacked of the *)
(* ids is dropped.                                                          *)
PackGrid(o) == Push(packArray(<<>>, o.ids, 8), o, <<<<"gridPos", 16>>>>)
UnpackGrid(body, o) ==
  LET r == Pop([body |-> body, obj |-> [gridPos |-> o.gridPos, objs |-> <<>>], ok |-> TRUE],
               <<<<"gridPos", 16>>>>)
      a == unpackArray(r, "objs", 8)
  IN  [a EXCEPT !.obj = [gridPos |-> a.obj.gridPos, ids |-> o.ids]]

(* ChatMsg: the characters up to the last but one from the back, and the    *)
(* index of that; a text shorter than two characters is read beyond its end.*)
MaxLen == 3     \* MAX_LEN, 255 in the code
LastPacked(str) == LET n == IF Len(str) < 2 THEN MaxLen ELSE Len(str) - 2
                   IN  IF n > MaxLen THEN MaxLen ELSE n
PackChat(o) ==
  LET len == LastPacked(o.str)
  IN  [i \in 1 .. len + 1 |-> <<1, IF len + 2 - i <= Len(o.str) THEN o.str[len + 2 - i]
                                   ELSE Garbage>>] \o <<<<2, len>>>>
(* Altered form: the length is taken for the number of characters.          *)
UnpackChatShort(body) ==
  LET len == Value(body, 2, 0)
  IN  Repeat(len, [body |-> Rest(body, 2), obj |-> [str |-> <<>>], ok |-> TRUE],
             LAMBDA q, i : [q EXCEPT !.body = Rest(q.body, 1),
                                     !.obj.str = Append(@, Value(q.body, 1, 0))])
UnpackChat(body) ==
  LET len == Value(body, 2, 0)
  IN  Repeat(len + 1, [body |-> Rest(body, 2), obj |-> [str |-> <<>>], ok |-> TRUE],
             LAMBDA q, i : [q EXCEPT !.body = Rest(q.body, 1),
                                     !.obj.str = Append(@, Value(q.body, 1, 0))])

Seqs(S, n) == UNION {[1 .. k -> S] : k \in 0 .. n}
Kinds == {"ship", "nav", "pipe", "grid", "chat"}
Curves == {c \in [class : CurveIds, x : Values, y : Values] :
             /\ c.class = 1 <=> c.x = 0
             /\ c.class \in {3, 4} <=> c.y # 0}

(* What an owner may hold, ships apart.                                     *)
Objects(k) ==
  CASE k = "nav" -> {o \in [state : TravelStates, target : Values] :
                          o.state # ALIGN => o.target = 0}
    [] k = "pipe" -> [stages : Seqs(Curves, 2)]
    [] k = "grid" -> [ids : Seqs(Values, 2), gridPos : Values]
    [] k = "chat" -> [str : {[i \in 1 .. n |-> i] : n \in 0 .. MaxLen + 3}]
    [] OTHER -> {}

Default(k) ==
  CASE k = "ship" -> ShipDefault
    [] k = "nav" -> [state |-> None, target |-> 0]
    [] k = "pipe" -> [stages |-> <<>>]
    [] k = "grid" -> [ids |-> <<>>, gridPos |-> 0]
    [] k = "chat" -> [str |-> <<>>]

Packed(k, o) ==
  CASE k = "nav" -> PackNav(o) [] k = "pipe" -> PackPipe(o)
    [] k = "grid" -> PackGrid(o) [] k = "chat" -> PackChat(o)

Unpacked(k, body, o) ==
  CASE k = "nav" -> UnpackNav(body, o) [] k = "pipe" -> UnpackPipe(body)
    [] k = "grid" -> UnpackGrid(body, o) [] k = "chat" -> UnpackChat(body)
    [] k = "ship" -> UnpackShip(body, o)

-----------------------------------------------------------------------------
VARIABLES
  kind,          \* what sort of object the owner has
  owned, copy,   \* the object and the peer's copy of it
  targets,       \* the pending targets of a ship's bank and source
  wire,          \* the message on its way: none, or how it was packed and its body
  changes, sent, \* how many changes and messages there were
  replaced,      \* whether a gradient was replaced by a curve of another class
  garbled,       \* the peer met something it cannot go on from
  missed         \* what of a ship changed without a word of it to the peer

codecVars == <<kind, owned, copy, targets, wire, changes, sent, replaced, garbled, missed>>

(* The constructor of Generator sets the throttle, so that is pending in    *)
(* every new ship.                                                          *)
InitCodec ==
  /\ kind \in Kinds
  /\ owned = Default(kind) /\ copy = Default(kind)
  /\ targets = [bank |-> {}, source |-> {1}]
  /\ wire = <<>> /\ changes = 0 /\ sent = 0
  /\ replaced = FALSE /\ garbled = FALSE
  /\ missed = [bank |-> {}, source |-> {}, transform |-> FALSE]

Changed(o) ==
  /\ changes < MaxChanges
  /\ changes' = changes + 1
  /\ owned' = o
  /\ UNCHANGED <<kind, copy, wire, sent, garbled>>

Change(o) == Changed(o) /\ UNCHANGED <<targets, replaced, missed>>

(* Altered form: the type after the one that was set is marked.             *)
SetMarksNext(part, fields, t, v) ==
  /\ kind = "ship"
  /\ Changed([owned EXCEPT ![part][fields[t][1]] = v])
  /\ targets' = [targets EXCEPT ![part] = @ \cup {t + 1}]
  /\ UNCHANGED <<replaced, missed>>
(* The setters of PowerBank and Generator; nothing asks for fuel to be sent.*)
(* The game itself calls but that of the throttle, in the constructor.      *)
Set(part, fields, t, v) ==
  /\ kind = "ship"
  /\ Changed([owned EXCEPT ![part][fields[t][1]] = v])
  /\ targets' = [targets EXCEPT ![part] = @ \cup {t}]
  /\ replaced' = (replaced \/ (part = "source" /\ t \in Gradients /\ v # CurveOf(1)))
  /\ UNCHANGED missed

(* A throttle is cut to its range.                                          *)
SetThrottle(v) == Set("source", SourceFields, 1, IF v > 1 THEN 1 ELSE v)

(* The slider of the helm writes through a pointer to the throttle: nothing *)
(* is pending for it, and Generator::update, which would set it, is never   *)
(* called.                                                                  *)
Slide(v) ==
  /\ kind = "ship"
  /\ Changed([owned EXCEPT !.source.throttle_n = v])
  /\ missed' = [missed EXCEPT !.source = @ \cup {1}]
  /\ UNCHANGED <<targets, replaced>>

(* A turn of processGrid takes a ship to any transform, its own drive and   *)
(* pattern included.  Unless a fixed update is due and the ship moves, no   *)
(* one is told.                                                             *)
Turn(v) ==
  /\ kind = "ship"
  /\ Changed([owned EXCEPT !.transform = v])
  /\ missed' = [missed EXCEPT !.transform = @ \/ v # owned.transform]
  /\ UNCHANGED <<targets, replaced>>

(* A copy moves on its own, too; one that rests has no drive to change that.*)
CopyTurns(v) ==
  /\ kind = "ship" /\ copy.transform \in Moving /\ changes < MaxChanges
  /\ changes' = changes + 1
  /\ copy' = [copy EXCEPT !.transform = v]
  /\ missed' = [missed EXCEPT !.transform = @ \/ wire = <<>> \/ wire.how # "update"]
  /\ UNCHANGED <<kind, owned, targets, wire, sent, replaced, garbled>>

Sent(message) ==
  /\ wire = <<>> /\ sent < MaxSent
  /\ wire' = message
  /\ sent' = sent + 1
  /\ UNCHANGED <<kind, copy, changes, replaced, garbled>>

Orders(S) == {f \in [1 .. Cardinality(S) -> S] : ToSet(f) = S}

(* SceneManager::POST of a ship takes its pending targets with it.          *)
Post ==
  /\ kind = "ship"
  /\ \E s \in Orders(targets.source), b \in Orders(targets.bank) :
       Sent([how |-> "post", body |-> PackShip(owned, s, b)])
  /\ targets' = [bank |-> {}, source |-> {}]
  /\ missed' = [missed EXCEPT !.bank = @ \ targets.bank, !.source = @ \ targets.source]
  /\ UNCHANGED owned

(* So does one that was before the peer joined, or that it dropped because  *)
(* it had no grid yet.                                                      *)
PostPast ==
  /\ kind = "ship" /\ sent < MaxSent
  /\ sent' = sent + 1
  /\ targets' = [bank |-> {}, source |-> {}]
  /\ missed' = [missed EXCEPT !.bank = @ \cup targets.bank, !.source = @ \cup targets.source]
  /\ UNCHANGED <<kind, owned, copy, wire, changes, replaced, garbled>>

(* A turn with a fixed update: a ship that moves asks to be sent as a       *)
(* GameObject, and UPDATE, in the same call, packs it as that.              *)
Update(v) ==
  /\ kind = "ship" /\ v \in Moving
  /\ owned' = [owned EXCEPT !.transform = v]
  /\ Sent([how |-> "update", body |-> Append(Push(<<>>, owned', TransformFields), <<2, 1>>)])
  /\ missed' = [missed EXCEPT !.transform = FALSE]
  /\ UNCHANGED targets

Send ==
  /\ kind # "ship"
  /\ Sent([how |-> "whole", body |-> Packed(kind, owned), of |-> owned])
  /\ UNCHANGED <<owned, targets, missed>>

(* Altered form: the fields are unpacked in the order they were packed in.  *)
ApplyUpdateForward(body, o) ==
  Pop([body |-> Rest(body, 2), obj |-> o, ok |-> Value(body, 2, 0) = 1], TransformFields)
(* ApplyUpdate pops a SyncTarget and unpacks as its class says.             *)
ApplyUpdate(body, o) ==
  Pop([body |-> Rest(body, 2), obj |-> o, ok |-> Value(body, 2, 0) = 1], Reverse(TransformFields))

Receive ==
  /\ wire # <<>>
  /\ LET r == IF wire.how = "update" THEN ApplyUpdate(wire.body, copy)
              ELSE Unpacked(kind, wire.body, copy)
     IN  copy' = r.obj /\ garbled' = ~r.ok
  /\ wire' = <<>>
  /\ UNCHANGED <<kind, owned, targets, changes, sent, replaced, missed>>

NextCodec ==
  /\ ~garbled
  /\ \/ \E o \in Objects(kind) : Change(o)
     \/ \E v \in Values :
          \/ \E t \in {4, 5} : Set("source", SourceFields, t, v)
          \/ \E t \in {1, 2} : Set("bank", BankFields, t, v)
          \/ SetThrottle(v) \/ (v \in 0 .. 1 /\ Slide(v))
          \/ Turn(v) \/ CopyTurns(v) \/ Update(v)
     \/ \E t \in Gradients, c \in Curves : Set("source", SourceFields, t, c)
     \/ Post \/ PostPast \/ Send \/ Receive

SpecCodec == InitCodec /\ [][NextCodec]_codecVars

-----------------------------------------------------------------------------
CodecTypeOK ==
  /\ kind \in Kinds
  /\ targets \in [bank : SUBSET {1, 2}, source : SUBSET (1 .. 6)]
  /\ missed \in [bank : SUBSET {1, 2}, source : SUBSET (1 .. 6), transform : BOOLEAN]
  /\ wire # <<>> => wire.how \in {"post", "update", "whole"}
  /\ changes \in 0 .. MaxChanges /\ sent \in 0 .. MaxSent
  /\ replaced \in BOOLEAN /\ garbled \in BOOLEAN

(* A copy has the settings of its owner, save what is pending or was missed.*)
SettingsInStep(c) ==
  /\ \A t \in {1, 2} \ (targets.bank \cup missed.bank) :
       c.bank[BankFields[t][1]] = owned.bank[BankFields[t][1]]
  /\ \A t \in (1 .. 6) \ (targets.source \cup missed.source) :
       c.source[SourceFields[t][1]] = owned.source[SourceFields[t][1]]

(* As long as the gradients keep their class, and in whatever order the     *)
(* targets are packed, the peer never meets bytes it cannot read, and once  *)
(* nothing is on its way its copy is in step: it lacks but what is pending, *)
(* what the slider of the helm wrote, what the posts it did not get took    *)
(* along, and what moved since the last update.  (A curve of another class  *)
(* is unpacked as the old one, and everything packed before it is lost.)    *)
ShipInStep ==
  kind = "ship" /\ ~replaced =>
    /\ ~garbled
    /\ wire = <<>> => /\ SettingsInStep(copy)
                      /\ ~missed.transform => copy.transform = owned.transform

(* What arrives of the objects that are sent whole.  A grid brings only its *)
(* position; a text of two characters or more arrives without the last, and *)
(* cut; a pattern arrives unless it is none or ALIGN; a pipe of curves      *)
(* arrives exactly when only its last stage has a payload.                  *)
Arrives ==
  [][wire # <<>> /\ wire' = <<>> /\ wire.how = "whole" =>
       LET o == wire.of
       IN  CASE kind = "grid" -> copy' = [copy EXCEPT !.gridPos = o.gridPos]
             [] kind = "chat" -> Len(o.str) >= 2 =>
                                   copy'.str = SubSeq(o.str, 1, LastPacked(o.str) + 1)
             [] kind = "nav" -> copy' = IF o.state \in {None, ALIGN} THEN copy ELSE o
             [] kind = "pipe" -> ~garbled' /\ copy' = o
                                   <=> \A i \in 1 .. Len(o.stages) - 1 : o.stages[i].class = 1
    ]_codecVars

(* The copy of a ship keeps step with its owner.                            *)
CodecInv == CodecTypeOK /\ ShipInStep
=============================================================================

------------------------------ MODULE ClassRegistry ------------------------------
(***************************************************************************)
(* How classes get the ids by which a message names them: the factory of   *)
(* the curves (src/src/factory/Factory.hpp), which registers each class    *)
(* while the static members of the program are initialised, and that of    *)
(* the objects (GameObjectFactory.cpp, IdGen.hpp), which GOInit fills when *)
(* main begins.                                                            *)
(*                                                                         *)
(* Static members of templates are initialised in no given order; the      *)
(* counters are zero before any of them, and so is an id that is not set.  *)
(***************************************************************************)
EXTENDS Integers, Sequences, FiniteSets

CONSTANTS Classes,         \* the derived classes of NormalCurve, and NormalCurve
          Abstract,        \* those that no instance can be made of
          ObjectClasses,   \* Ship, Grid and GameObject, in the order of GOInit
          Unregistered     \* an empty std::function

BAD_CLASS_ID == 255

(* An id has eight bits; the program has three classes on either side.      *)
ASSUME RegistryAssumption ==
  /\ Abstract \subseteq Classes /\ IsFiniteSet(Classes) /\ Unregistered \notin Classes
  /\ Cardinality(Classes) <= BAD_CLASS_ID /\ Len(ObjectClasses) <= BAD_CLASS_ID
  /\ ObjectClasses \in Seq({ObjectClasses[i] : i \in DOMAIN ObjectClasses})
  /\ \A i, j \in DOMAIN ObjectClasses : ObjectClasses[i] = ObjectClasses[j] => i = j

VARIABLES next_class_id, class_id,     \* InstFactory; an id is 0 until its factory is made
          factories, helpers,          \* the static members that were initialised
          tables, mapped,              \* whether _instConsts and typeToIdMap were
          _instConsts, typeToIdMap,
          nextIdx, gof,                \* GameObjectFactory, and the ids of the objects
          _instConstructors,
          running,                     \* main has begun
          early, undefined                \* something was used before it was initialised

registryVars == <<next_class_id, class_id, factories, helpers, tables, mapped, _instConsts,
                  typeToIdMap, nextIdx, gof, _instConstructors, running, early, undefined>>
curveTables == <<tables, mapped, _instConsts, typeToIdMap>>
objectTables == <<nextIdx, gof, _instConstructors>>

(* A vector that needs no memory to be made may be initialised before all.  *)
InitRegistry ==
  /\ next_class_id = 0 /\ class_id = [c \in Classes |-> 0]
  /\ factories = {} /\ helpers = {}
  /\ tables \in BOOLEAN /\ mapped = FALSE
  /\ _instConsts = <<>> /\ typeToIdMap = [c \in Classes |-> BAD_CLASS_ID]
  /\ nextIdx = 0 /\ gof = <<>> /\ _instConstructors = <<>>
  /\ running = FALSE /\ early = FALSE /\ undefined = FALSE

(* Altered form: the counter is not incremented.                            *)
MakeFactoryUncounted(c) ==
  /\ c \notin factories
  /\ factories' = factories \cup {c}
  /\ class_id' = [class_id EXCEPT ![c] = next_class_id]
  /\ UNCHANGED <<next_class_id, helpers, curveTables, objectTables, running, early, undefined>>
(* The constructor of InstFactory. *)
MakeFactory(c) ==
  /\ c \notin factories
  /\ factories' = factories \cup {c}
  /\ class_id' = [class_id EXCEPT ![c] = next_class_id]
  /\ next_class_id' = (next_class_id + 1) % 256
  /\ UNCHANGED <<helpers, curveTables, objectTables, running, early, undefined>>

(* A table of n slots, which never shrinks. *)
Resized(s, n) == [i \in 1 .. IF Len(s) < n THEN n ELSE Len(s) |->
                    IF i <= Len(s) THEN s[i] ELSE Unregistered]

(* Altered form: a class is registered under the newest id.                 *)
RegisterNewest(cid, c) ==
  LET grown == Resized(_instConsts, next_class_id)
  IN  IF 0 < Len(grown) /\ mapped
      THEN /\ _instConsts' = [grown EXCEPT ![Len(grown)] = c]
           /\ typeToIdMap' = [typeToIdMap EXCEPT ![c] = Len(grown) - 1]
           /\ UNCHANGED undefined
      ELSE undefined' = TRUE /\ UNCHANGED <<_instConsts, typeToIdMap>>
(* Register_Class, from the constructor of FactoryInstableHelper.  A slot   *)
(* beyond the end, or a map that is not there, is undefined behaviour.      *)
Register_Class(cid, c) ==
  LET grown == Resized(_instConsts, next_class_id)
  IN  IF cid < Len(grown) /\ mapped
      THEN /\ _instConsts' = [grown EXCEPT ![cid + 1] = c]
           /\ typeToIdMap' = [typeToIdMap EXCEPT ![c] = cid]
           /\ UNCHANGED undefined
      ELSE undefined' = TRUE /\ UNCHANGED <<_instConsts, typeToIdMap>>

MakeHelper(c) ==
  /\ c \notin helpers
  /\ helpers' = helpers \cup {c}
  /\ IF c \in Abstract
     THEN UNCHANGED <<_instConsts, typeToIdMap, early, undefined>>
     ELSE /\ Register_Class(class_id[c], c)
          /\ early' = (early \/ c \notin factories \/ ~tables)
  /\ UNCHANGED <<next_class_id, class_id, factories, tables, mapped, objectTables, running>>

(* What was registered before is gone. *)
MakeTables ==
  /\ ~tables /\ tables' = TRUE
  /\ _instConsts' = <<>>
  /\ UNCHANGED <<next_class_id, class_id, factories, helpers, mapped, typeToIdMap, objectTables,
                 running, early, undefined>>
MakeMap ==
  /\ ~mapped /\ mapped' = TRUE
  /\ UNCHANGED <<next_class_id, class_id, factories, helpers, tables, _instConsts, typeToIdMap,
                 objectTables, running, early, undefined>>

(* The constructor of GameObjectFactory. *)
MakeGof(c) ==
  /\ c \notin DOMAIN gof
  /\ gof' = [d \in DOMAIN gof \cup {c} |-> IF d = c THEN nextIdx ELSE gof[d]]
  /\ nextIdx' = (nextIdx + 1) % 256
  /\ UNCHANGED <<next_class_id, class_id, factories, helpers, curveTables, _instConstructors,
                 running, early, undefined>>

(* Altered form: the table grows to the id, and not to the number of ids.   *)
GrownToId(s, c) == [Resized(s, 1) EXCEPT ![(gof[c] % Len(Resized(s, 1))) + 1] = c]
(* GameObjectFactory::Register_Class.                                       *)
Registered(s, c) == [Resized(s, nextIdx) EXCEPT ![gof[c] + 1] = c]

(* The table when the first i classes were registered.                      *)
ObjectTable[i \in 0 .. Len(ObjectClasses)] ==
  IF i = 0 THEN _instConstructors ELSE Registered(ObjectTable[i - 1], ObjectClasses[i])

(* GOInit::init, when main begins. *)
Start ==
  /\ factories = Classes /\ helpers = Classes /\ tables /\ mapped
  /\ DOMAIN gof = {ObjectClasses[i] : i \in DOMAIN ObjectClasses}
  /\ ~running /\ running' = TRUE
  /\ _instConstructors' = ObjectTable[Len(ObjectClasses)]
  /\ UNCHANGED <<next_class_id, class_id, factories, helpers, curveTables, nextIdx, gof, early, undefined>>

NextRegistry ==
  /\ ~undefined
  /\ \/ \E c \in Classes : MakeFactory(c) \/ MakeHelper(c)
     \/ MakeTables \/ MakeMap
     \/ \E i \in DOMAIN ObjectClasses : MakeGof(ObjectClasses[i])
     \/ Start

SpecRegistry == InitRegistry /\ [][NextRegistry]_registryVars

-----------------------------------------------------------------------------
RegistryTypeOK ==
  /\ next_class_id = Cardinality(factories) /\ nextIdx = Cardinality(DOMAIN gof)
  /\ \A i \in DOMAIN _instConsts : _instConsts[i] \in (Classes \ Abstract) \cup {Unregistered}
  /\ \A c \in Classes : typeToIdMap[c] \in 0 .. Cardinality(Classes) - 1 \cup {BAD_CLASS_ID}

(* When no class was registered before its own id and the tables were there *)
(* the game can make every class from the id that it sends for it, in       *)
(* whatever other order the static members came; and an abstract class has  *)
(* an id of its own, whose slot is empty or beyond the end of the table.    *)
CurvesMade ==
  running /\ ~early =>
    \A c \in Classes :
      IF c \in Abstract
      THEN /\ class_id[c] < Len(_instConsts) => _instConsts[class_id[c] + 1] = Unregistered
           /\ typeToIdMap[c] = BAD_CLASS_ID
      ELSE _instConsts[class_id[c] + 1] = c /\ typeToIdMap[c] = class_id[c]

(* The objects are registered in one order and get their ids in another:    *)
(* each id makes its own class all the same, and no slot is left empty.     *)
ObjectsMade ==
  running => /\ \A c \in DOMAIN gof : _instConstructors[gof[c] + 1] = c
             /\ Len(_instConstructors) = Len(ObjectClasses)

(* The factories: each id makes the class it was given to.                  *)
RegistryInv == RegistryTypeOK /\ CurvesMade /\ ObjectsMade
=============================================================================

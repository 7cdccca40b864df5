----------------------------- MODULE AlgorithmProofs -----------------------------
(* Proofs about the libraries of the game: that the factories make the right   *)
(* class from every id, whatever the order in which the static members of the  *)
(* program are initialised, for any classes up to the 255 that an id can tell  *)
(* apart; that the division of loads gives out no more than there is, serves   *)
(* the smallest minima first and by that as many requests as can be, for any   *)
(* requests and shapes; that what POST and UPDATE pack of a ship arrives in    *)
(* its copy, in whatever order the targets were packed and for any values, and *)
(* what arrives of the objects that are sent whole, however long they are; and *)
(* that the geometry and the curves give what their reference definitions      *)
(* say, for all whole coordinates, matrices and fractions.                     *)
EXTENDS ClassRegistry, LoadDistribution, Codec, Libraries, SequenceLemmas

NClasses == Cardinality(Classes)
Concrete == Classes \ Abstract
Slots == Concrete \cup {Unregistered}
ObjectSet == {ObjectClasses[i] : i \in DOMAIN ObjectClasses}

(* An id is given once, and the counter has the next one.                      *)
IdsOfCurves ==
  /\ factories \subseteq Classes /\ helpers \subseteq Classes
  /\ next_class_id = Cardinality(factories) /\ class_id \in [Classes -> Nat]
  /\ \A c \in Classes : IF c \in factories THEN class_id[c] < next_class_id ELSE class_id[c] = 0
  /\ \A c, d \in factories : class_id[c] = class_id[d] => c = d

(* The tables have room for the ids that were given, no more.                  *)
CurveTables ==
  /\ tables \in BOOLEAN /\ mapped \in BOOLEAN
  /\ early \in BOOLEAN /\ undefined \in BOOLEAN /\ running \in BOOLEAN
  /\ _instConsts \in Seq(Slots) /\ Len(_instConsts) <= next_class_id
  /\ typeToIdMap \in [Classes -> (0 .. NClasses - 1) \cup {BAD_CLASS_ID}]
  /\ \A c \in Abstract : typeToIdMap[c] = BAD_CLASS_ID

(* If nothing came too early, every class that was registered is in the slot   *)
(* of its id, and the other slots are empty.                                   *)
InItsSlot(c) ==
  /\ c \in factories /\ class_id[c] < Len(_instConsts)
  /\ _instConsts[class_id[c] + 1] = c /\ typeToIdMap[c] = class_id[c]
CurveSlots ==
  ~early /\ ~undefined =>
    /\ helpers \cap Concrete # {} => tables
    /\ \A c \in helpers \cap Concrete : InItsSlot(c)
    /\ \A i \in DOMAIN _instConsts :
         \/ _instConsts[i] = Unregistered
         \/ \E c \in helpers \cap Concrete : _instConsts[i] = c /\ class_id[c] + 1 = i

(* The same of the objects, whose classes are registered later.                *)
ObjectIds ==
  /\ DOMAIN gof \subseteq ObjectSet /\ nextIdx = Cardinality(DOMAIN gof)
  /\ \A c \in DOMAIN gof : gof[c] \in Nat /\ gof[c] < nextIdx
  /\ \A c, d \in DOMAIN gof : gof[c] = gof[d] => c = d
  /\ ~running => _instConstructors = <<>>

AllMade == running => factories = Classes /\ helpers = Classes /\ tables /\ mapped /\ ~undefined
                      /\ DOMAIN gof = ObjectSet

RegistryIInv == IdsOfCurves /\ CurveTables /\ CurveSlots /\ ObjectIds /\ AllMade /\ ObjectsMade

(* Sets of classes are finite.                                                 *)
LEMMA FiniteClasses ==
  ASSUME NEW D \in SUBSET Classes
  PROVE  /\ IsFiniteSet(D) /\ Cardinality(D) \in Nat /\ Cardinality(D) <= NClasses
         /\ NClasses \in 0 .. BAD_CLASS_ID
<1>1. IsFiniteSet(Classes) /\ NClasses <= BAD_CLASS_ID
  BY RegistryAssumption DEF NClasses
<1>2. IsFiniteSet(D) /\ Cardinality(D) <= NClasses
  BY <1>1, FS_Subset DEF NClasses
<1>3. Cardinality(D) \in Nat /\ NClasses \in Nat
  BY <1>1, <1>2, FS_CardinalityType DEF NClasses
<1> QED BY <1>1, <1>2, <1>3

(* One more of them.                                                           *)
LEMMA OneMoreClass ==
  ASSUME NEW D \in SUBSET Classes, NEW c \in Classes, c \notin D
  PROVE  Cardinality(D \cup {c}) = Cardinality(D) + 1 /\ Cardinality(D) + 1 <= NClasses
<1>1. Cardinality(D \cup {c}) = Cardinality(D) + 1
  BY FiniteClasses, FS_AddElement
<1>2. D \cup {c} \in SUBSET Classes
  OBVIOUS
<1> QED BY <1>1, <1>2, FiniteClasses

(* The object classes are as many as the sequence is long.                     *)
LEMMA FiniteObjects ==
  ASSUME NEW D \in SUBSET ObjectSet
  PROVE  /\ IsFiniteSet(D) /\ Cardinality(D) \in Nat /\ Cardinality(D) <= Len(ObjectClasses)
         /\ Cardinality(ObjectSet) = Len(ObjectClasses)
         /\ Len(ObjectClasses) \in 0 .. BAD_CLASS_ID
<1>1. PICK n : n = Len(ObjectClasses)
  OBVIOUS
<1>2. PICK s : s = ObjectClasses
  OBVIOUS
<1>3. /\ n \in Nat /\ DOMAIN s = 1 .. n /\ n <= BAD_CLASS_ID
      /\ s \in Seq(ObjectSet) /\ \A i, j \in DOMAIN s : s[i] = s[j] => i = j
  <2>1. s \in Seq(ObjectSet)
    BY <1>2, RegistryAssumption DEF ObjectSet
  <2> QED BY <1>1, <1>2, <2>1, RegistryAssumption
<1>4. s \in Bijection(1 .. n, ObjectSet)
  <2>1. s \in [1 .. n -> ObjectSet]
    BY <1>3
  <2>2. \A t \in ObjectSet : \E i \in 1 .. n : s[i] = t
    BY <1>2, <1>3 DEF ObjectSet
  <2> QED BY <1>3, <2>1, <2>2 DEF Bijection, Injection, Surjection, IsInjective
<1>5. IsFiniteSet(1 .. n) /\ Cardinality(1 .. n) = n
  BY <1>3, FS_Interval
<1>6. IsFiniteSet(ObjectSet) /\ Cardinality(ObjectSet) = n
  BY <1>4, <1>5, FS_Bijection DEF ExistsBijection
<1>7. IsFiniteSet(D) /\ Cardinality(D) <= n
  BY <1>6, FS_Subset
<1>8. Cardinality(D) \in Nat
  BY <1>7, FS_CardinalityType
<1>9. n \in 0 .. BAD_CLASS_ID
  BY <1>3 DEF BAD_CLASS_ID
<1> QED BY <1>1, <1>6, <1>7, <1>8, <1>9

(* A table that was resized: it is as it was, and empty beyond its old end.    *)
LEMMA ResizedFacts ==
  ASSUME NEW S, Unregistered \in S, NEW s \in Seq(S), NEW n \in Nat, NEW t, t = Resized(s, n)
  PROVE  /\ t \in Seq(S) /\ Len(s) \in Nat /\ DOMAIN t = 1 .. Len(t)
         /\ Len(t) = IF Len(s) < n THEN n ELSE Len(s)
         /\ \A i \in 1 .. Len(s) : t[i] = s[i] /\ i \in 1 .. Len(t)
         /\ \A i \in 1 .. Len(t) : i \notin 1 .. Len(s) => t[i] = Unregistered
<1>1. PICK k \in Nat : k = Len(s) /\ \A i \in 1 .. k : s[i] \in S
  OBVIOUS
<1>2. PICK m \in Nat : m = (IF k < n THEN n ELSE k)
  BY <1>1
<1>3. t = [i \in 1 .. m |-> IF i <= k THEN s[i] ELSE Unregistered]
  BY <1>1, <1>2 DEF Resized
<1>4. \A i \in 1 .. m : (IF i <= k THEN s[i] ELSE Unregistered) \in S
  BY <1>1
<1>5. t \in Seq(S) /\ Len(t) = m /\ DOMAIN t = 1 .. m
  BY <1>3, <1>4
<1>6. \A i \in 1 .. k : t[i] = s[i] /\ i \in 1 .. m
  BY <1>2, <1>3
<1>7. \A i \in 1 .. m : i \notin 1 .. k => t[i] = Unregistered
  BY <1>3
<1> QED BY <1>1, <1>2, <1>5, <1>6, <1>7

(* And one whose slot was set.                                                 *)
LEMMA SlotSet ==
  ASSUME NEW S, NEW s \in Seq(S), NEW k \in 1 .. Len(s), NEW c \in S,
         NEW t, t = [s EXCEPT ![k] = c]
  PROVE  /\ t \in Seq(S) /\ Len(t) = Len(s) /\ DOMAIN t = 1 .. Len(s) /\ t[k] = c
         /\ \A i \in 1 .. Len(s) : i # k => t[i] = s[i]
  OBVIOUS

(* What no step of the curves' factory touches of the objects', and the        *)
(* other way round.                                                            *)
LEMMA ObjectsRest ==
  ASSUME RegistryIInv, UNCHANGED <<nextIdx, gof, _instConstructors, running>>
  PROVE  ObjectIds' /\ ObjectsMade'
  BY DEF RegistryIInv, ObjectIds, ObjectsMade

(* At first nothing has an id.                                                 *)
LEMMA RegistryStart == InitRegistry => RegistryIInv
<1> SUFFICES ASSUME InitRegistry PROVE RegistryIInv
  OBVIOUS
<1> USE DEF InitRegistry
<1>1. Cardinality({}) = 0
  BY FS_EmptySet
<1>2. IdsOfCurves
  BY <1>1 DEF IdsOfCurves
<1>3. CurveTables
  <2>1. _instConsts \in Seq(Slots) /\ Len(_instConsts) <= next_class_id
    OBVIOUS
  <2>2. typeToIdMap \in [Classes -> (0 .. NClasses - 1) \cup {BAD_CLASS_ID}]
    OBVIOUS
  <2>3. \A c \in Abstract : typeToIdMap[c] = BAD_CLASS_ID
    BY RegistryAssumption
  <2> QED BY <2>1, <2>2, <2>3 DEF CurveTables
<1>4. CurveSlots
  BY DEF CurveSlots
<1>5. ObjectIds /\ ObjectsMade /\ AllMade
  <2>1. gof = <<>> /\ DOMAIN gof = {}
    OBVIOUS
  <2> QED BY <1>1, <2>1 DEF ObjectIds, ObjectsMade, AllMade
<1> QED BY <1>2, <1>3, <1>4, <1>5 DEF RegistryIInv

(* A factory is made, and gets the next id.                                    *)
LEMMA FactoryKeeps ==
  ASSUME RegistryIInv, NEW c \in Classes, MakeFactory(c)
  PROVE  RegistryIInv'
<1>1. /\ c \notin factories /\ factories' = factories \cup {c}
      /\ class_id' = [class_id EXCEPT ![c] = next_class_id]
      /\ next_class_id' = (next_class_id + 1) % 256
      /\ UNCHANGED <<helpers, tables, mapped, _instConsts, typeToIdMap>>
      /\ UNCHANGED <<nextIdx, gof, _instConstructors>>
      /\ UNCHANGED <<running, early, undefined>>
  BY DEF MakeFactory, curveTables, objectTables
<1>2. PICK k \in Nat : k = next_class_id /\ k = Cardinality(factories)
  BY FiniteClasses DEF RegistryIInv, IdsOfCurves
<1>3. next_class_id' = k + 1 /\ Cardinality(factories') = k + 1 /\ k + 1 <= NClasses
  <2>1. Cardinality(factories \cup {c}) = k + 1 /\ k + 1 <= NClasses /\ NClasses \in 0 .. 255
    BY <1>1, <1>2, OneMoreClass, FiniteClasses DEF RegistryIInv, IdsOfCurves, BAD_CLASS_ID
  <2>2. (k + 1) % 256 = k + 1
    BY <2>1
  <2> QED BY <1>1, <1>2, <2>1, <2>2
<1>4. class_id' \in [Classes -> Nat] /\ class_id'[c] = k
      /\ \A d \in Classes : d # c => class_id'[d] = class_id[d]
  BY <1>1, <1>2 DEF RegistryIInv, IdsOfCurves
<1>5. \A d \in factories : class_id[d] \in Nat /\ class_id[d] < k
  BY <1>2 DEF RegistryIInv, IdsOfCurves
<1>6. IdsOfCurves'
  <2>1. factories' \subseteq Classes /\ helpers' \subseteq Classes /\ next_class_id' = Cardinality(factories')
    BY <1>1, <1>3 DEF RegistryIInv, IdsOfCurves
  <2>2. ASSUME NEW d \in Classes
        PROVE  IF d \in factories' THEN class_id'[d] < next_class_id' ELSE class_id'[d] = 0
    <3>1. CASE d = c
      BY <1>1, <1>3, <1>4, <3>1
    <3>2. CASE d # c
      BY <1>1, <1>2, <1>3, <1>4, <1>5, <3>2 DEF RegistryIInv, IdsOfCurves
    <3> QED BY <3>1, <3>2
  <2>3. ASSUME NEW d \in factories', NEW e \in factories', class_id'[d] = class_id'[e] PROVE d = e
    <3>1. d \in Classes /\ e \in Classes
      BY <1>1 DEF RegistryIInv, IdsOfCurves
    <3>2. CASE d # c /\ e # c
      BY <1>1, <1>4, <2>3, <3>1, <3>2 DEF RegistryIInv, IdsOfCurves
    <3>3. CASE d # c /\ e = c
      BY <1>1, <1>4, <1>5, <2>3, <3>1, <3>3
    <3>4. CASE d = c /\ e # c
      BY <1>1, <1>4, <1>5, <2>3, <3>1, <3>4
    <3> QED BY <3>2, <3>3, <3>4
  <2> QED BY <1>4, <2>1, <2>2, <2>3 DEF IdsOfCurves
<1>7. CurveTables'
  <2>1. Len(_instConsts) \in Nat
    BY DEF RegistryIInv, CurveTables
  <2> QED BY <1>1, <1>2, <1>3, <2>1 DEF RegistryIInv, CurveTables
<1>8. ASSUME NEW d \in helpers \cap Concrete, InItsSlot(d) PROVE InItsSlot(d)' /\ class_id'[d] = class_id[d]
  <2>1. d # c /\ d \in Classes
    BY <1>1, <1>8 DEF InItsSlot, Concrete
  <2> QED BY <1>1, <1>4, <1>8, <2>1 DEF InItsSlot
<1>9. CurveSlots'
  BY <1>1, <1>8 DEF RegistryIInv, CurveSlots
<1>10. AllMade' /\ ObjectIds' /\ ObjectsMade'
  BY <1>1, ObjectsRest DEF RegistryIInv, AllMade
<1> QED BY <1>6, <1>7, <1>9, <1>10 DEF RegistryIInv

(* The helper of an abstract class registers nothing.                          *)
LEMMA AbstractKeeps ==
  ASSUME RegistryIInv, NEW c \in Abstract, MakeHelper(c)
  PROVE  RegistryIInv'
<1>1. /\ helpers' = helpers \cup {c}
      /\ UNCHANGED <<_instConsts, typeToIdMap, early, undefined>>
      /\ UNCHANGED <<next_class_id, class_id, factories, tables, mapped>>
      /\ UNCHANGED <<nextIdx, gof, _instConstructors, running>>
  BY DEF MakeHelper, objectTables
<1>2. c \in Classes /\ helpers' \cap Concrete = helpers \cap Concrete
  BY <1>1, RegistryAssumption DEF Concrete
<1>3. IdsOfCurves' /\ CurveTables'
  BY <1>1, <1>2 DEF RegistryIInv, IdsOfCurves, CurveTables
<1>4. CurveSlots'
  BY <1>1, <1>2 DEF RegistryIInv, CurveSlots, InItsSlot
<1>5. AllMade'
  BY <1>1, <1>2 DEF RegistryIInv, AllMade, IdsOfCurves
<1> QED BY <1>1, <1>3, <1>4, <1>5, ObjectsRest DEF RegistryIInv

(* What Register_Class does to the tables, where it does not fail.             *)
LEMMA RegisterFacts ==
  ASSUME RegistryIInv, NEW c \in Concrete, NEW cid \in Nat, Register_Class(cid, c)
  PROVE  \/ undefined' = TRUE /\ UNCHANGED <<_instConsts, typeToIdMap>>
         \/ /\ UNCHANGED undefined
            /\ typeToIdMap' = [typeToIdMap EXCEPT ![c] = cid]
            /\ _instConsts' \in Seq(Slots) /\ Len(_instConsts') <= next_class_id
            /\ cid < Len(_instConsts') /\ _instConsts'[cid + 1] = c
            /\ \A i \in 1 .. Len(_instConsts) :
                 i \in DOMAIN _instConsts' /\ (i # cid + 1 => _instConsts'[i] = _instConsts[i])
            /\ \A i \in DOMAIN _instConsts' : i \notin 1 .. Len(_instConsts) /\ i # cid + 1 =>
                 _instConsts'[i] = Unregistered
<1>1. PICK grown : grown = Resized(_instConsts, next_class_id)
  OBVIOUS
<1>2. IF cid < Len(grown) /\ mapped
      THEN /\ _instConsts' = [grown EXCEPT ![cid + 1] = c]
           /\ typeToIdMap' = [typeToIdMap EXCEPT ![c] = cid]
           /\ UNCHANGED undefined
      ELSE undefined' = TRUE /\ UNCHANGED <<_instConsts, typeToIdMap>>
  BY <1>1 DEF Register_Class
<1>3. _instConsts \in Seq(Slots) /\ Len(_instConsts) <= next_class_id /\ next_class_id \in Nat
  BY FiniteClasses DEF RegistryIInv, CurveTables, IdsOfCurves
<1>4. PICK s, n : s = _instConsts /\ n = next_class_id
  OBVIOUS
<1>5. /\ grown \in Seq(Slots) /\ Len(s) \in Nat /\ DOMAIN grown = 1 .. Len(grown)
      /\ Len(grown) = IF Len(s) < n THEN n ELSE Len(s)
      /\ \A i \in 1 .. Len(s) : grown[i] = s[i] /\ i \in 1 .. Len(grown)
      /\ \A i \in 1 .. Len(grown) : i \notin 1 .. Len(s) => grown[i] = Unregistered
  <2>1. Unregistered \in Slots /\ s \in Seq(Slots) /\ n \in Nat /\ grown = Resized(s, n)
    BY <1>1, <1>3, <1>4 DEF Slots
  <2> QED BY <2>1, ResizedFacts, SMTT(30)
<1>6. CASE cid < Len(grown) /\ mapped
  <2>1. PICK t : t = _instConsts'
    OBVIOUS
  <2>2. cid + 1 \in 1 .. Len(grown) /\ c \in Slots
    BY <1>5, <1>6 DEF Slots
  <2>3. /\ t \in Seq(Slots) /\ Len(t) = Len(grown) /\ DOMAIN t = 1 .. Len(grown) /\ t[cid + 1] = c
        /\ \A i \in 1 .. Len(grown) : i # cid + 1 => t[i] = grown[i]
    <3>1. t = [grown EXCEPT ![cid + 1] = c]
      BY <1>2, <1>6, <2>1
    <3> QED BY <1>5, <2>2, <3>1, SlotSet
  <2>4. Len(t) <= n /\ cid < Len(t)
    BY <1>3, <1>4, <1>5, <1>6, <2>3
  <2>5. \A i \in 1 .. Len(s) : i \in DOMAIN t /\ (i # cid + 1 => t[i] = s[i])
    BY <1>5, <2>3
  <2>6. \A i \in DOMAIN t : i \notin 1 .. Len(s) /\ i # cid + 1 => t[i] = Unregistered
    BY <1>5, <2>3
  <2> QED BY <1>2, <1>4, <1>6, <2>1, <2>3, <2>4, <2>5, <2>6
<1>7. CASE ~(cid < Len(grown) /\ mapped)
  BY <1>2, <1>7
<1> QED BY <1>6, <1>7

(* The helper of another class registers it; had its id and the tables been    *)
(* there, in the slot of its id.                                               *)
LEMMA HelperKeeps ==
  ASSUME RegistryIInv, NEW c \in Concrete, MakeHelper(c)
  PROVE  RegistryIInv'
<1>1. /\ c \notin helpers /\ helpers' = helpers \cup {c}
      /\ UNCHANGED <<next_class_id, class_id, factories, tables, mapped>>
      /\ UNCHANGED <<nextIdx, gof, _instConstructors, running>>
      /\ Register_Class(class_id[c], c)
      /\ early' = (early \/ c \notin factories \/ ~tables)
  BY DEF MakeHelper, objectTables, Concrete
<1>2. PICK cid : cid = class_id[c]
  OBVIOUS
<1>3. cid \in Nat /\ c \in Classes
  BY <1>2 DEF RegistryIInv, IdsOfCurves, Concrete
<1>4. \/ undefined' = TRUE /\ UNCHANGED <<_instConsts, typeToIdMap>>
      \/ /\ UNCHANGED undefined
         /\ typeToIdMap' = [typeToIdMap EXCEPT ![c] = cid]
         /\ _instConsts' \in Seq(Slots) /\ Len(_instConsts') <= next_class_id
         /\ cid < Len(_instConsts') /\ _instConsts'[cid + 1] = c
         /\ \A i \in 1 .. Len(_instConsts) :
              i \in DOMAIN _instConsts' /\ (i # cid + 1 => _instConsts'[i] = _instConsts[i])
         /\ \A i \in DOMAIN _instConsts' : i \notin 1 .. Len(_instConsts) /\ i # cid + 1 =>
              _instConsts'[i] = Unregistered
  BY <1>1, <1>2, <1>3, RegisterFacts
<1>5. IdsOfCurves'
  BY <1>1, <1>3 DEF RegistryIInv, IdsOfCurves
<1>6. early' \in BOOLEAN
  <2>1. (early \/ c \notin factories \/ ~tables) \in BOOLEAN
    BY Zenon
  <2> QED BY <1>1, <2>1
<1>7. next_class_id \in Nat /\ next_class_id <= NClasses /\ NClasses \in Nat
  BY FiniteClasses DEF RegistryIInv, IdsOfCurves, BAD_CLASS_ID
<1>8. CASE undefined' = TRUE /\ UNCHANGED <<_instConsts, typeToIdMap>>
  <2>1. CurveTables'
    BY <1>1, <1>6, <1>8 DEF RegistryIInv, CurveTables
  <2>2. CurveSlots'
    BY <1>8 DEF CurveSlots
  <2>3. ~running'
    BY <1>1, <1>3 DEF RegistryIInv, AllMade
  <2> QED BY <1>1, <1>5, <2>1, <2>2, <2>3, ObjectsRest DEF RegistryIInv, AllMade
<1>9. CASE ~(undefined' = TRUE /\ UNCHANGED <<_instConsts, typeToIdMap>>)
  <2>1. CurveTables'
    <3>1. Len(_instConsts') \in Nat
      BY <1>4, <1>9
    <3>2. cid \in 0 .. NClasses - 1
      BY <1>3, <1>4, <1>7, <1>9, <3>1
    <3>3. typeToIdMap' \in [Classes -> (0 .. NClasses - 1) \cup {BAD_CLASS_ID}]
      BY <1>4, <1>9, <3>2 DEF RegistryIInv, CurveTables
    <3>4. \A a \in Abstract : typeToIdMap'[a] = BAD_CLASS_ID
      BY <1>4, <1>9, RegistryAssumption DEF RegistryIInv, CurveTables, Concrete
    <3> QED BY <1>1, <1>4, <1>6, <1>9, <3>3, <3>4 DEF RegistryIInv, CurveTables
  <2>2. ASSUME ~early', ~undefined' PROVE c \in factories /\ tables /\ ~early /\ ~undefined
    <3>1. c \in factories /\ tables /\ ~early
      BY <1>1, <2>2, Zenon
    <3>2. undefined' = undefined
      BY <1>4, <1>9, Zenon
    <3> QED BY <2>2, <3>1, <3>2
  <2>3. CurveSlots'
    <3> SUFFICES ASSUME ~early', ~undefined'
                 PROVE  /\ tables'
                        /\ \A d \in helpers' \cap Concrete : InItsSlot(d)'
                        /\ \A i \in DOMAIN _instConsts' :
                             \/ _instConsts'[i] = Unregistered
                             \/ \E d \in helpers' \cap Concrete : _instConsts'[i] = d /\ class_id'[d] + 1 = i
      BY DEF CurveSlots
    <3>1. /\ \A d \in helpers \cap Concrete : InItsSlot(d)
          /\ \A i \in DOMAIN _instConsts :
               \/ _instConsts[i] = Unregistered
               \/ \E d \in helpers \cap Concrete : _instConsts[i] = d /\ class_id[d] + 1 = i
      BY <2>2 DEF RegistryIInv, CurveSlots
    <3>2. Len(_instConsts) \in Nat /\ DOMAIN _instConsts = 1 .. Len(_instConsts)
          /\ Len(_instConsts') \in Nat /\ DOMAIN _instConsts' = 1 .. Len(_instConsts')
      BY <1>4, <1>9 DEF RegistryIInv, CurveTables
    <3>3. InItsSlot(c)'
      BY <1>1, <1>2, <1>3, <1>4, <1>9, <2>2 DEF InItsSlot, RegistryIInv, CurveTables
    <3>4. ASSUME NEW d \in helpers \cap Concrete PROVE InItsSlot(d)'
      <4>1. d \in factories /\ class_id[d] \in Nat /\ class_id[d] < Len(_instConsts) /\ d # c
            /\ _instConsts[class_id[d] + 1] = d /\ typeToIdMap[d] = class_id[d] /\ d \in Classes
        BY <1>1, <3>1 DEF InItsSlot, Concrete, RegistryIInv, IdsOfCurves
      <4>2. class_id[d] # cid
        BY <1>2, <2>2, <4>1 DEF RegistryIInv, IdsOfCurves
      <4>3. class_id[d] + 1 \in 1 .. Len(_instConsts) /\ class_id[d] + 1 # cid + 1
        BY <1>3, <3>2, <4>1, <4>2
      <4>4. _instConsts'[class_id[d] + 1] = d /\ class_id[d] < Len(_instConsts')
        BY <1>4, <1>9, <3>2, <4>1, <4>3
      <4>5. typeToIdMap'[d] = class_id[d]
        BY <1>4, <1>9, <4>1 DEF RegistryIInv, CurveTables
      <4> QED BY <1>1, <4>1, <4>4, <4>5 DEF InItsSlot
    <3>5. ASSUME NEW i \in DOMAIN _instConsts', _instConsts'[i] # Unregistered
          PROVE  \E d \in helpers' \cap Concrete : _instConsts'[i] = d /\ class_id'[d] + 1 = i
      <4>1. CASE i = cid + 1
        BY <1>1, <1>2, <1>4, <1>9, <4>1
      <4>2. CASE i # cid + 1
        <5>1. i \in 1 .. Len(_instConsts) /\ _instConsts'[i] = _instConsts[i]
          BY <1>4, <1>9, <3>5, <4>2
        <5>2. PICK d \in helpers \cap Concrete : _instConsts[i] = d /\ class_id[d] + 1 = i
          BY <3>1, <3>2, <3>5, <5>1
        <5> QED BY <1>1, <5>1, <5>2
      <4> QED BY <4>1, <4>2
    <3> QED BY <1>1, <2>2, <3>3, <3>4, <3>5
  <2>4. AllMade'
    BY <1>1, <1>3 DEF RegistryIInv, AllMade
  <2> QED BY <1>1, <1>5, <2>1, <2>3, <2>4, ObjectsRest DEF RegistryIInv
<1> QED BY <1>8, <1>9

(* The tables are made: they may forget only what was registered too early.    *)
LEMMA TablesKeep == RegistryIInv /\ (MakeTables \/ MakeMap) => RegistryIInv'
<1> SUFFICES ASSUME RegistryIInv, MakeTables \/ MakeMap PROVE RegistryIInv'
  OBVIOUS
<1>1. /\ UNCHANGED <<next_class_id, class_id, factories, helpers, typeToIdMap>>
      /\ UNCHANGED <<nextIdx, gof, _instConstructors, running>>
      /\ UNCHANGED <<early, undefined>>
  BY DEF MakeTables, MakeMap, objectTables
<1>2. next_class_id \in Nat
  BY FiniteClasses DEF RegistryIInv, IdsOfCurves
<1>3. CASE MakeTables
  <2>1. ~tables /\ tables' = TRUE /\ _instConsts' = <<>> /\ mapped' = mapped
    BY <1>3 DEF MakeTables
  <2>2. CurveTables'
    BY <1>1, <1>2, <2>1 DEF RegistryIInv, CurveTables
  <2>3. CurveSlots'
    BY <1>1, <2>1 DEF RegistryIInv, CurveSlots
  <2> QED BY <1>1, <2>1, <2>2, <2>3, ObjectsRest DEF RegistryIInv, IdsOfCurves, AllMade
<1>4. CASE MakeMap
  <2>1. mapped' = TRUE /\ UNCHANGED <<tables, _instConsts>>
    BY <1>4 DEF MakeMap
  <2>2. CurveTables' /\ CurveSlots'
    BY <1>1, <2>1 DEF RegistryIInv, CurveTables, CurveSlots, InItsSlot
  <2> QED BY <1>1, <2>1, <2>2, ObjectsRest DEF RegistryIInv, IdsOfCurves, AllMade
<1> QED BY <1>3, <1>4

(* The curves' side rests while an object class gets its id.                   *)
LEMMA CurvesRest ==
  ASSUME RegistryIInv,
         UNCHANGED <<next_class_id, class_id, factories, helpers, tables, mapped, _instConsts,
                     typeToIdMap, early, undefined>>,
         running' \in BOOLEAN
  PROVE  IdsOfCurves' /\ CurveTables' /\ CurveSlots'
  BY DEF RegistryIInv, IdsOfCurves, CurveTables, CurveSlots, InItsSlot

(* An object class gets the next id.                                           *)
LEMMA GofKeeps ==
  ASSUME RegistryIInv, NEW c \in ObjectSet, MakeGof(c)
  PROVE  RegistryIInv'
<1>1. /\ c \notin DOMAIN gof
      /\ gof' = [d \in DOMAIN gof \cup {c} |-> IF d = c THEN nextIdx ELSE gof[d]]
      /\ nextIdx' = (nextIdx + 1) % 256
      /\ UNCHANGED <<next_class_id, class_id, factories, helpers, tables, mapped, _instConsts,
                     typeToIdMap, early, undefined>>
      /\ UNCHANGED <<_instConstructors, running>>
  BY DEF MakeGof, curveTables
<1>2. PICK D : D = DOMAIN gof
  OBVIOUS
<1>3. /\ D \in SUBSET ObjectSet /\ D \cup {c} \in SUBSET ObjectSet /\ DOMAIN gof' = D \cup {c}
      /\ IsFiniteSet(D) /\ nextIdx = Cardinality(D) /\ nextIdx \in Nat
  BY <1>1, <1>2, FiniteObjects DEF RegistryIInv, ObjectIds
<1>4. Cardinality(D \cup {c}) = nextIdx + 1
  BY <1>1, <1>2, <1>3, FS_AddElement
<1>5. nextIdx + 1 <= 255
  <2>1. PICK G : G = D \cup {c}
    OBVIOUS
  <2>2. PICK k : k = Len(ObjectClasses)
    OBVIOUS
  <2>3. Cardinality(G) <= k /\ k \in 0 .. BAD_CLASS_ID
    BY <1>3, <2>1, <2>2, FiniteObjects
  <2>4. k \in Nat /\ k <= 255
    BY <2>3 DEF BAD_CLASS_ID
  <2>5. nextIdx + 1 <= k
    BY <1>4, <2>1, <2>3
  <2> QED BY <1>3, <2>4, <2>5
<1>6. nextIdx' = nextIdx + 1
  BY <1>1, <1>3, <1>5
<1>7. ~running
  BY <1>1 DEF RegistryIInv, AllMade
<1>8. gof'[c] = nextIdx /\ \A d \in D : gof'[d] = gof[d] /\ gof[d] \in Nat /\ gof[d] < nextIdx
  BY <1>1, <1>2, <1>3 DEF RegistryIInv, ObjectIds
<1>9. ASSUME NEW d \in DOMAIN gof', NEW e \in DOMAIN gof', gof'[d] = gof'[e] PROVE d = e
  <2>1. CASE d \in D /\ e \in D
    BY <1>2, <1>8, <1>9, <2>1 DEF RegistryIInv, ObjectIds
  <2>2. CASE d = c /\ e \in D
    BY <1>3, <1>8, <1>9, <2>2
  <2>3. CASE d \in D /\ e = c
    BY <1>3, <1>8, <1>9, <2>3
  <2> QED BY <1>3, <2>1, <2>2, <2>3
<1>10. ObjectIds'
  <2>1. DOMAIN gof' \subseteq ObjectSet /\ nextIdx' = Cardinality(DOMAIN gof')
    BY <1>3, <1>4, <1>6
  <2>2. \A d \in DOMAIN gof' : gof'[d] \in Nat /\ gof'[d] < nextIdx'
    BY <1>3, <1>6, <1>8
  <2>3. ~running' => _instConstructors' = <<>>
    BY <1>1 DEF RegistryIInv, ObjectIds
  <2> QED BY <1>9, <2>1, <2>2, <2>3 DEF ObjectIds, ObjectSet
<1>11. AllMade' /\ ObjectsMade'
  BY <1>1, <1>7 DEF AllMade, ObjectsMade
<1>12. IdsOfCurves' /\ CurveTables' /\ CurveSlots'
  BY <1>1, CurvesRest DEF RegistryIInv, CurveTables
<1> QED BY <1>10, <1>11, <1>12 DEF RegistryIInv

(* The equation of ObjectTable, up to k.                                       *)
Follows(f, k) ==
  f = [i \in 0 .. k |-> IF i = 0 THEN _instConstructors ELSE Registered(f[i - 1], ObjectClasses[i])]

(* Functions that satisfy it exist for every k.                                *)
LEMMA TableIsDefined ==
  ASSUME NEW n \in Nat PROVE \E f : Follows(f, n)
<1> DEFINE a == _instConstructors
           R(s, i) == Registered(s, ObjectClasses[i])
           eq(f, k) == f = [i \in 0 .. k |-> IF i = 0 THEN a ELSE R(f[i - 1], i)]
           T == {k \in Nat : ~ \E f : eq(f, k)}
<1>0. \A f, k : Follows(f, k) <=> eq(f, k)
  BY DEF Follows
<1> HIDE DEF a, R
<1>1. eq([i \in 0 .. 0 |-> a], 0)
  OBVIOUS
<1>2. ASSUME NEW k \in Nat, NEW f, eq(f, k)
      PROVE  \E g : eq(g, k + 1)
  <2>1. PICK g : g = [i \in 0 .. k + 1 |-> IF i = k + 1 THEN R(f[k], k + 1) ELSE f[i]]
    OBVIOUS
  <2>2. ASSUME NEW i \in 0 .. k + 1
        PROVE  g[i] = IF i = 0 THEN a ELSE R(g[i - 1], i)
    <3>1. CASE i = k + 1
      <4>1. g[i] = R(f[k], i) /\ i # 0
        BY <2>1, <3>1
      <4>2. g[i - 1] = f[k]
        BY <2>1, <3>1
      <4> QED BY <4>1, <4>2
    <3>2. CASE i = 0
      BY <1>2, <2>1, <3>2
    <3>3. CASE i \in 1 .. k
      <4>1. g[i] = f[i] /\ g[i - 1] = f[i - 1] /\ i \in 0 .. k /\ i # 0
        BY <2>1, <3>3
      <4>2. f[i] = R(f[i - 1], i)
        BY <1>2, <4>1
      <4> QED BY <4>1, <4>2
    <3> QED BY <3>1, <3>2, <3>3
  <2>3. g = [i \in 0 .. k + 1 |-> g[i]]
    BY <2>1
  <2>4. eq(g, k + 1)
    BY <2>2, <2>3
  <2> QED BY <2>4
<1>3. T = {}
  <2> SUFFICES ASSUME T # {} PROVE FALSE
    OBVIOUS
  <2> HIDE DEF eq
  <2>1. PICK m \in T : \A k \in T : m <= k
    BY LeastNumber
  <2>2. CASE m = 0
    BY <1>1, <2>2
  <2>3. CASE m # 0
    <3>1. m - 1 \in Nat /\ m - 1 \notin T
      BY <2>1, <2>3
    <3>2. \E f : eq(f, m - 1)
      BY <3>1
    <3>3. \E g : eq(g, (m - 1) + 1)
      BY <1>2, <3>1, <3>2
    <3> QED BY <3>3
  <2> QED BY <2>2, <2>3
<1>4. n \notin T
  BY <1>3
<1> QED BY <1>0, <1>4

(* So the table that Start makes follows it.                                   *)
LEMMA TableFollows ==
  ASSUME NEW n \in Nat, n = Len(ObjectClasses)
  PROVE  \E f : f = ObjectTable /\ f[0] = _instConstructors
                /\ \A i \in 1 .. n : f[i] = Registered(f[i - 1], ObjectClasses[i])
<1>1. PICK f : Follows(f, n)
  BY TableIsDefined
<1>2. ObjectTable = CHOOSE g : g = [i \in 0 .. Len(ObjectClasses) |->
                                      IF i = 0 THEN _instConstructors
                                      ELSE Registered(g[i - 1], ObjectClasses[i])]
  BY DEF ObjectTable
<1>3. Follows(ObjectTable, n)
  BY <1>1, <1>2 DEF Follows
<1>4. PICK t : t = ObjectTable
  OBVIOUS
<1>5. \A i \in 0 .. n : t[i] = IF i = 0 THEN _instConstructors ELSE Registered(t[i - 1], ObjectClasses[i])
  BY <1>3, <1>4 DEF Follows
<1>6. t[0] = _instConstructors
  BY <1>5
<1>7. ASSUME NEW i \in 1 .. n PROVE t[i] = Registered(t[i - 1], ObjectClasses[i])
  BY <1>5
<1> QED BY <1>4, <1>6, <1>7

(* Tables of n slots, each with one more class than the one before.            *)
Filling(n, s, ids, f, C) ==
  /\ n \in Nat /\ Unregistered \in C
  /\ \A i \in 1 .. n : s[i] \in C /\ ids[i] \in 0 .. n - 1
  /\ \A i, j \in 1 .. n : ids[i] = ids[j] => i = j
  /\ f[0] = <<>>
  /\ \A i \in 1 .. n : f[i] = [Resized(f[i - 1], n) EXCEPT ![ids[i] + 1] = s[i]]

(* When i classes are registered each of them is in the slot of its id.        *)
LEMMA TableFilled ==
  ASSUME NEW n, NEW s, NEW ids, NEW f, NEW C, Filling(n, s, ids, f, C)
  PROVE  Len(f[n]) = n /\ \A j \in 1 .. n : f[n][ids[j] + 1] = s[j]
<1> DEFINE P(k) == /\ f[k] \in Seq(C) /\ (IF k = 0 THEN Len(f[k]) = 0 ELSE Len(f[k]) = n)
                   /\ \A j \in 1 .. k : f[k][ids[j] + 1] = s[j]
           T == {k \in 0 .. n : ~P(k)}
<1> USE DEF Filling
<1>1. P(0)
  OBVIOUS
<1>2. ASSUME NEW k \in 0 .. n, k # 0, P(k - 1) PROVE P(k)
  <2>1. PICK p, q, r : p = f[k - 1] /\ q = Resized(p, n) /\ r = f[k]
    OBVIOUS
  <2>2. k \in 1 .. n /\ k - 1 \in 0 .. n
    BY <1>2
  <2>3. p \in Seq(C) /\ Len(p) \in {0, n} /\ (k # 1 => Len(p) = n)
        /\ \A j \in 1 .. k - 1 : p[ids[j] + 1] = s[j]
    BY <1>2, <2>1, <2>2
  <2>4. /\ q \in Seq(C) /\ Len(q) = IF Len(p) < n THEN n ELSE Len(p)
        /\ \A i \in 1 .. Len(p) : q[i] = p[i]
    <3>1. /\ q \in Seq(C) /\ Len(p) \in Nat /\ DOMAIN q = 1 .. Len(q)
          /\ Len(q) = IF Len(p) < n THEN n ELSE Len(p)
          /\ \A i \in 1 .. Len(p) : q[i] = p[i] /\ i \in 1 .. Len(q)
          /\ \A i \in 1 .. Len(q) : i \notin 1 .. Len(p) => q[i] = Unregistered
      BY <2>1, <2>3, ResizedFacts
    <3> QED BY <3>1
  <2>5. Len(q) = n
    BY <2>3, <2>4
  <2>6. ids[k] + 1 \in 1 .. Len(q) /\ s[k] \in C
    BY <2>2, <2>5
  <2>7. r = [q EXCEPT ![ids[k] + 1] = s[k]]
    BY <2>1, <2>2
  <2>8. /\ r \in Seq(C) /\ Len(r) = Len(q) /\ DOMAIN r = 1 .. Len(q) /\ r[ids[k] + 1] = s[k]
        /\ \A i \in 1 .. Len(q) : i # ids[k] + 1 => r[i] = q[i]
    <3>1. PICK m, c : m = ids[k] + 1 /\ c = s[k]
      OBVIOUS
    <3>2. /\ r \in Seq(C) /\ Len(r) = Len(q) /\ DOMAIN r = 1 .. Len(q) /\ r[m] = c
          /\ \A i \in 1 .. Len(q) : i # m => r[i] = q[i]
      BY <2>4, <2>6, <2>7, <3>1, SlotSet
    <3> QED BY <3>1, <3>2
  <2>9. ASSUME NEW j \in 1 .. k - 1 PROVE r[ids[j] + 1] = s[j]
    <3>1. j \in 1 .. n /\ k # 1 /\ j # k
      BY <2>2
    <3>2. ids[j] + 1 \in 1 .. n /\ ids[j] + 1 # ids[k] + 1
      BY <2>2, <3>1
    <3> QED BY <2>3, <2>4, <2>5, <2>8, <3>1, <3>2
  <2>10. \A j \in 1 .. k : j = k \/ j \in 1 .. k - 1
    BY <2>2
  <2> QED BY <1>2, <2>1, <2>5, <2>8, <2>9, <2>10
<1>3. T = {}
  <2> HIDE DEF P
  <2> SUFFICES ASSUME T # {} PROVE FALSE
    OBVIOUS
  <2>0. T \in SUBSET Nat
    OBVIOUS
  <2>1. PICK m \in T : \A k \in T : m <= k
    <3>1. PICK U : U = T
      OBVIOUS
    <3>2. U \in SUBSET Nat /\ U # {}
      BY <2>0, <3>1
    <3> QED BY <3>1, <3>2, LeastNumber
  <2>2. CASE m = 0
    BY <1>1, <2>2
  <2>3. CASE m # 0
    <3>1. m - 1 \in 0 .. n /\ m - 1 \notin T
      BY <2>1, <2>3
    <3>2. P(m - 1)
      BY <3>1
    <3> QED BY <1>2, <2>3, <3>2
  <2> QED BY <2>2, <2>3
<1>4. P(n)
  BY <1>3
<1> QED BY <1>4

(* When main begins the tables are complete.                                   *)
LEMMA StartKeeps == RegistryIInv /\ ~undefined /\ Start => RegistryIInv'
<1> SUFFICES ASSUME RegistryIInv, ~undefined, Start PROVE RegistryIInv'
  OBVIOUS
<1>1. /\ factories = Classes /\ helpers = Classes /\ tables /\ mapped
      /\ DOMAIN gof = ObjectSet /\ ~running /\ running' = TRUE
      /\ _instConstructors' = ObjectTable[Len(ObjectClasses)]
      /\ UNCHANGED <<next_class_id, class_id, factories, helpers, tables, mapped, _instConsts,
                     typeToIdMap, early, undefined>>
      /\ UNCHANGED <<nextIdx, gof>>
  BY DEF Start, curveTables, ObjectSet
<1>2. PICK n, s : n = Len(ObjectClasses) /\ s = ObjectClasses
  OBVIOUS
<1>3. n \in Nat /\ nextIdx = n /\ DOMAIN s = 1 .. n /\ \A i, j \in 1 .. n : s[i] = s[j] => i = j
  <2>1. PICK D : D = ObjectSet
    OBVIOUS
  <2>2. Cardinality(D) = n /\ n \in Nat
    BY <1>2, <2>1, FiniteObjects
  <2>3. nextIdx = n
    BY <1>1, <2>1, <2>2 DEF RegistryIInv, ObjectIds
  <2> QED BY <1>2, <2>2, <2>3, RegistryAssumption
<1>4. PICK ids : ids = [i \in 1 .. n |-> gof[s[i]]]
  OBVIOUS
<1>5. PICK f : f = ObjectTable /\ f[0] = _instConstructors
               /\ \A i \in 1 .. n : f[i] = Registered(f[i - 1], ObjectClasses[i])
  BY <1>2, <1>3, TableFollows
<1>6. \A i \in 1 .. n : s[i] \in ObjectSet
  BY <1>2, <1>3 DEF ObjectSet
<1>7. \A i \in 1 .. n : ids[i] \in 0 .. n - 1
  BY <1>1, <1>3, <1>4, <1>6 DEF RegistryIInv, ObjectIds
<1>8. \A i, j \in 1 .. n : ids[i] = ids[j] => i = j
  <2>1. \A c, d \in ObjectSet : gof[c] = gof[d] => c = d
    BY <1>1 DEF RegistryIInv, ObjectIds
  <2> QED BY <1>3, <1>4, <1>6, <2>1
<1>9. f[0] = <<>>
  BY <1>1, <1>5 DEF RegistryIInv, ObjectIds
<1>10. \A i \in 1 .. n : f[i] = [Resized(f[i - 1], n) EXCEPT ![ids[i] + 1] = s[i]]
  BY <1>2, <1>3, <1>4, <1>5 DEF Registered
<1>11. Len(f[n]) = n /\ \A j \in 1 .. n : f[n][ids[j] + 1] = s[j]
  <2>1. PICK C : C = ObjectSet \cup {Unregistered}
    OBVIOUS
  <2>2. Unregistered \in C /\ \A i \in 1 .. n : s[i] \in C /\ ids[i] \in 0 .. n - 1
    BY <1>6, <1>7, <2>1
  <2>3. Filling(n, s, ids, f, C)
    BY <1>3, <1>8, <1>9, <1>10, <2>2 DEF Filling
  <2> QED BY <2>3, TableFilled
<1>12. ObjectsMade'
  <2>1. _instConstructors' = f[n]
    BY <1>1, <1>2, <1>5
  <2>2. ASSUME NEW c \in DOMAIN gof' PROVE _instConstructors'[gof'[c] + 1] = c
    <3>1. PICK i \in 1 .. n : c = s[i]
      BY <1>1, <1>2, <1>3, <2>2 DEF ObjectSet
    <3>2. gof'[c] = ids[i]
      BY <1>1, <1>4, <3>1
    <3> QED BY <1>11, <2>1, <3>1, <3>2
  <2> QED BY <1>2, <1>11, <2>1, <2>2 DEF ObjectsMade
<1>13. ObjectIds'
  BY <1>1 DEF RegistryIInv, ObjectIds
<1>14. IdsOfCurves' /\ CurveTables' /\ CurveSlots'
  <2>1. running' \in BOOLEAN
    BY <1>1
  <2> QED BY <1>1, <2>1, CurvesRest
<1> QED BY <1>1, <1>12, <1>13, <1>14 DEF RegistryIInv, AllMade

(* The invariant has a part for each action to keep.                           *)
LEMMA RegistryStep == RegistryIInv /\ [NextRegistry]_registryVars => RegistryIInv'
<1> SUFFICES ASSUME RegistryIInv, [NextRegistry]_registryVars PROVE RegistryIInv'
  OBVIOUS
<1>1. CASE UNCHANGED registryVars
  <2>1. UNCHANGED <<next_class_id, class_id, factories, helpers, tables, mapped, _instConsts,
                    typeToIdMap, nextIdx, gof, _instConstructors, running, early, undefined>>
    BY <1>1 DEF registryVars
  <2>2. running \in BOOLEAN
    BY DEF RegistryIInv, CurveTables
  <2> QED BY <2>1, <2>2, CurvesRest, ObjectsRest DEF RegistryIInv, AllMade
<1>2. ASSUME NEW c \in Classes, MakeHelper(c) PROVE RegistryIInv'
  <2>1. c \in Abstract \/ c \in Concrete
    BY DEF Concrete
  <2> QED BY <1>2, <2>1, AbstractKeeps, HelperKeeps
<1>3. ASSUME NEW i \in DOMAIN ObjectClasses, MakeGof(ObjectClasses[i]) PROVE RegistryIInv'
  <2>1. ObjectClasses[i] \in ObjectSet
    BY DEF ObjectSet
  <2> QED BY <1>3, <2>1, GofKeeps
<1>4. NextRegistry => ~undefined
  BY DEF NextRegistry
<1> QED BY <1>1, <1>2, <1>3, <1>4, FactoryKeeps, TablesKeep, StartKeeps DEF NextRegistry

(* What is checked follows.                                                    *)
LEMMA RegistryFollows == RegistryIInv => RegistryInv
<1> SUFFICES ASSUME RegistryIInv PROVE RegistryInv
  OBVIOUS
<1>1. RegistryTypeOK
  <2>1. \A i \in DOMAIN _instConsts : _instConsts[i] \in Slots
    BY DEF RegistryIInv, CurveTables
  <2>2. \A c \in Classes : typeToIdMap[c] \in (0 .. Cardinality(Classes) - 1) \cup {BAD_CLASS_ID}
    BY DEF RegistryIInv, CurveTables, NClasses
  <2> QED BY <2>1, <2>2 DEF RegistryTypeOK, RegistryIInv, IdsOfCurves, ObjectIds, Slots, Concrete
<1>2. ASSUME running, ~early, NEW c \in Classes
      PROVE  IF c \in Abstract
             THEN /\ class_id[c] < Len(_instConsts) => _instConsts[class_id[c] + 1] = Unregistered
                  /\ typeToIdMap[c] = BAD_CLASS_ID
             ELSE _instConsts[class_id[c] + 1] = c /\ typeToIdMap[c] = class_id[c]
  <2>1. factories = Classes /\ helpers = Classes /\ ~undefined
    BY <1>2 DEF RegistryIInv, AllMade
  <2>2. /\ \A d \in Classes \cap Concrete : InItsSlot(d)
        /\ \A i \in DOMAIN _instConsts :
             \/ _instConsts[i] = Unregistered
             \/ \E d \in Classes \cap Concrete : _instConsts[i] = d /\ class_id[d] + 1 = i
    BY <1>2, <2>1 DEF RegistryIInv, CurveSlots
  <2>3. CASE c \in Abstract
    <3>1. typeToIdMap[c] = BAD_CLASS_ID
      BY <2>3 DEF RegistryIInv, CurveTables
    <3>2. ASSUME class_id[c] < Len(_instConsts), _instConsts[class_id[c] + 1] # Unregistered PROVE FALSE
      <4>1. class_id[c] \in Nat /\ Len(_instConsts) \in Nat /\ DOMAIN _instConsts = 1 .. Len(_instConsts)
        BY DEF RegistryIInv, IdsOfCurves, CurveTables
      <4>2. class_id[c] + 1 \in DOMAIN _instConsts
        BY <3>2, <4>1
      <4>3. PICK d \in Classes \cap Concrete : class_id[d] + 1 = class_id[c] + 1
        BY <2>2, <3>2, <4>2
      <4>4. class_id[d] \in Nat
        BY DEF RegistryIInv, IdsOfCurves
      <4>5. d = c
        BY <2>1, <4>1, <4>3, <4>4 DEF RegistryIInv, IdsOfCurves
      <4> QED BY <2>3, <4>5 DEF Concrete
    <3> QED BY <2>3, <3>1, <3>2
  <2>4. CASE c \notin Abstract
    BY <2>2, <2>4 DEF InItsSlot, Concrete
  <2> QED BY <2>3, <2>4
<1>3. CurvesMade
  BY <1>2 DEF CurvesMade
<1> QED BY <1>1, <1>3 DEF RegistryInv, RegistryIInv

(* The inductive invariant holds.                                              *)
THEOREM RegistryReachable == SpecRegistry => []RegistryIInv
<1> QED BY RegistryStart, RegistryStep, PTL DEF SpecRegistry

(* Each id makes the class it was given to: of the curves, if none was         *)
(* registered before its own id or before the tables, in whatever other order  *)
(* the static members were initialised; of the objects always.                 *)
THEOREM RegistryHolds == SpecRegistry => []RegistryInv
<1> QED BY RegistryReachable, RegistryFollows, PTL

-----------------------------------------------------------------------------
(* The division of loads.  The totals are added up one after the other.        *)

(* The sum of the first k of the numbers f, for every k up to n.               *)
SumsUp(f, n) ==
  /\ Total(f, 0) = 0
  /\ \A k \in 0 .. n : Total(f, k) \in Int
  /\ \A k \in 1 .. n : Total(f, k) = Total(f, k - 1) + f[k]

(* Adding up reaches a sum of every prefix.                                    *)
LEMMA SumsExist ==
  ASSUME NEW n \in Nat, NEW f, \A i \in 1 .. n : f[i] \in Int
  PROVE  \E t \in [0 .. n -> Int] : t[0] = 0 /\ \A j \in 1 .. n : t[j] = t[j - 1] + f[j]
<1>1. PICK S : S = Int
  OBVIOUS
<1>2. PICK R : R = [j \in 1 .. n |-> [x \in S |-> x + f[j]]]
  OBVIOUS
<1>3. \A j \in 1 .. n : R[j] \in [S -> S]
  <2>1. ASSUME NEW j \in 1 .. n PROVE R[j] \in [S -> S]
    <3>1. ASSUME NEW x \in S PROVE x + f[j] \in S
      BY <1>1
    <3> QED BY <1>2, <3>1
  <2> QED BY <2>1
<1>4. PICK z : z = 0 /\ z \in S
  BY <1>1
<1>5. PICK t \in [0 .. n -> S] : Runs(t, z, R, n)
  BY <1>3, <1>4, Iterates
<1>6. ASSUME NEW j \in 1 .. n PROVE t[j] = t[j - 1] + f[j]
  <2>1. j - 1 \in 0 .. n
    OBVIOUS
  <2>2. t[j - 1] \in S
    BY <2>1
  <2> QED BY <1>2, <1>5, <2>2 DEF Runs
<1> QED BY <1>1, <1>4, <1>5, <1>6 DEF Runs

(* The function in the definition of a total is that one.                      *)
LEMMA TotalIs ==
  ASSUME NEW n \in Nat, NEW f, \A i \in 1 .. n : f[i] \in Int, NEW k \in 0 .. n,
         NEW t \in [0 .. n -> Int], t[0] = 0, \A j \in 1 .. n : t[j] = t[j - 1] + f[j]
  PROVE  Total(f, k) = t[k]
<1>1. PICK u : u = [j \in 0 .. k |-> t[j]]
  OBVIOUS
<1>2. u = [j \in 0 .. k |-> IF j = 0 THEN 0 ELSE u[j - 1] + f[j]]
  <2>1. ASSUME NEW j \in 0 .. k PROVE u[j] = IF j = 0 THEN 0 ELSE u[j - 1] + f[j]
    <3>1. CASE j = 0
      BY <1>1, <3>1
    <3>2. CASE j # 0
      <4>1. j \in 1 .. n /\ j - 1 \in 0 .. k
        BY <3>2
      <4>2. u[j] = t[j] /\ u[j - 1] = t[j - 1]
        BY <1>1, <4>1
      <4> QED BY <3>2, <4>1, <4>2
    <3> QED BY <3>1, <3>2
  <2> QED BY <1>1, <2>1
<1>3. PICK g : g = CHOOSE h : h = [j \in 0 .. k |-> IF j = 0 THEN 0 ELSE h[j - 1] + f[j]]
  OBVIOUS
<1>4. g = [j \in 0 .. k |-> IF j = 0 THEN 0 ELSE g[j - 1] + f[j]]
  BY <1>2, <1>3
<1>5. Total(f, k) = g[k]
  BY <1>3 DEF Total
<1>6. PICK T : T = {j \in 0 .. k : g[j] = t[j]}
  OBVIOUS
<1>7. 0 \in T
  BY <1>4, <1>6
<1>8. ASSUME NEW j \in 1 .. k, j - 1 \in T PROVE j \in T
  <2>1. j \in 0 .. k /\ j # 0 /\ j \in 1 .. n
    OBVIOUS
  <2>2. g[j] = g[j - 1] + f[j]
    BY <1>4, <2>1
  <2> QED BY <1>6, <1>8, <2>1, <2>2
<1>9. k \in Nat /\ k \in 0 .. k
  OBVIOUS
<1>10. \A j \in 0 .. k : j \in T
  BY <1>7, <1>8, <1>9, Throughout
<1> QED BY <1>5, <1>6, <1>9, <1>10

(* A total grows by one number after the other.                                *)
LEMMA Totals ==
  ASSUME NEW n \in Nat, NEW f, \A i \in 1 .. n : f[i] \in Int
  PROVE  SumsUp(f, n)
<1>1. PICK t \in [0 .. n -> Int] : t[0] = 0 /\ \A j \in 1 .. n : t[j] = t[j - 1] + f[j]
  BY SumsExist
<1>2. \A k \in 0 .. n : Total(f, k) = t[k]
  BY <1>1, TotalIs
<1>3. \A k \in 1 .. n : k - 1 \in 0 .. n /\ k \in 0 .. n
  OBVIOUS
<1> QED BY <1>1, <1>2, <1>3 DEF SumsUp

(* The total of the same numbers is the same.                                  *)
LEMMA SameTotal ==
  ASSUME NEW n \in Nat, NEW f, \A i \in 1 .. n : f[i] \in Int, NEW g, \A i \in 1 .. n : g[i] = f[i]
  PROVE  \A k \in 0 .. n : Total(g, k) = Total(f, k)
<1>1. PICK t \in [0 .. n -> Int] : t[0] = 0 /\ \A j \in 1 .. n : t[j] = t[j - 1] + f[j]
  BY SumsExist
<1>2. \A k \in 0 .. n : Total(f, k) = t[k]
  BY <1>1, TotalIs
<1>3. \A j \in 1 .. n : t[j] = t[j - 1] + g[j]
  BY <1>1
<1>4. \A i \in 1 .. n : g[i] \in Int
  OBVIOUS
<1>5. \A k \in 0 .. n : Total(g, k) = t[k]
  BY <1>1, <1>3, <1>4, TotalIs
<1> QED BY <1>2, <1>5

(* Of numbers from zero on, the totals do not fall.                            *)
LEMMA TotalsRise ==
  ASSUME NEW n \in Nat, NEW f, \A i \in 1 .. n : f[i] \in Nat, NEW i \in 0 .. n, NEW k \in i .. n
  PROVE  Total(f, i) \in Nat /\ Total(f, k) \in Nat /\ Total(f, i) <= Total(f, k)
<1>1. \A m \in 1 .. n : f[m] \in Int
  OBVIOUS
<1>2. SumsUp(f, n)
  BY <1>1, Totals
<1>3. PICK T : T = {m \in 0 .. n : Total(f, m) \in Nat /\ (i <= m => Total(f, i) <= Total(f, m))}
  OBVIOUS
<1>4. 0 \in T
  BY <1>2, <1>3 DEF SumsUp
<1>5. ASSUME NEW m \in 1 .. n, m - 1 \in T PROVE m \in T
  <2>1. Total(f, m) = Total(f, m - 1) + f[m] /\ f[m] \in Nat
    BY <1>2 DEF SumsUp
  <2>2. Total(f, m - 1) \in Nat /\ (i <= m - 1 => Total(f, i) <= Total(f, m - 1))
    BY <1>3, <1>5
  <2>3. i <= m - 1 \/ i = m \/ ~(i <= m)
    OBVIOUS
  <2>4. Total(f, i) \in Int
    BY <1>2 DEF SumsUp
  <2> QED BY <1>3, <2>1, <2>2, <2>3, <2>4
<1>6. \A m \in 0 .. n : m \in T
  BY <1>4, <1>5, Throughout
<1>7. i \in T /\ k \in T /\ i <= k
  BY <1>6
<1> QED BY <1>3, <1>7

(* What the requests ask for are numbers, and not less than the least amount.  *)
LEMMA ShapeTyped ==
  ASSUME shape \in [Requests -> Shapes], NEW l \in Requests
  PROVE  MinOf(l) \in Nat /\ Extra(l) \in Nat /\ shape[l].requested \in Nat
<1>1. shape[l] \in Shapes
  OBVIOUS
<1>2. shape[l].min \in Nat /\ shape[l].requested \in Nat /\ shape[l].min <= shape[l].requested
  BY <1>1, ShapesAssumption
<1> QED BY <1>2 DEF MinOf, Extra

(* The k first requests get their least amount, and no more of them.           *)
Fits(s, n, i) == s[i] \in alive /\ MinOf(s[i]) < n - Total(Mins(s), i - 1)
IsServed(s, n, k) ==
  /\ k \in 0 .. Len(s) /\ \A i \in 1 .. k : Fits(s, n, i)
  /\ k < Len(s) => ~Fits(s, n, k + 1)
  /\ Total(Mins(s), k) \in Nat /\ Total(Mins(s), k) <= n

(* The least amounts of a sequence are numbers.                                *)
LEMMA MinsTyped ==
  ASSUME shape \in [Requests -> Shapes], NEW s \in Seq(Requests)
  PROVE  /\ Len(s) \in Nat /\ \A i \in 1 .. Len(s) : s[i] \in Requests
         /\ \A i \in 1 .. Len(s) : Mins(s)[i] = MinOf(s[i]) /\ Mins(s)[i] \in Nat
<1>1. Len(s) \in Nat /\ DOMAIN s = 1 .. Len(s) /\ \A i \in 1 .. Len(s) : s[i] \in Requests
  OBVIOUS
<1> QED BY <1>1, ShapeTyped DEF Mins

(* There is such a number, and it is the one the walk stops at.                *)
LEMMA SupportedIs ==
  ASSUME shape \in [Requests -> Shapes], NEW s \in Seq(Requests), NEW n \in Nat
  PROVE  IsServed(s, n, Supported(s, n))
<1>1. Len(s) \in Nat /\ \A i \in 1 .. Len(s) : Mins(s)[i] = MinOf(s[i]) /\ Mins(s)[i] \in Nat
  BY MinsTyped
<1>2. PICK T : T = {k \in 0 .. Len(s) : k < Len(s) => ~Fits(s, n, k + 1)}
  OBVIOUS
<1>3. T \in SUBSET Nat /\ T # {}
  <2>1. Len(s) \in T
    BY <1>1, <1>2
  <2>2. \A k \in T : k \in Nat
    BY <1>1, <1>2
  <2> QED BY <2>1, <2>2
<1>4. PICK k \in T : \A m \in T : k <= m
  BY <1>3, LeastNumber
<1>5. ASSUME NEW i \in 1 .. k PROVE Fits(s, n, i)
  <2>1. k \in 0 .. Len(s) /\ i \in 1 .. Len(s) /\ i - 1 \in 0 .. Len(s) /\ ~(k <= i - 1)
    BY <1>1, <1>2, <1>4
  <2>2. i - 1 \notin T
    BY <1>4, <2>1
  <2>3. (i - 1) + 1 = i
    OBVIOUS
  <2> QED BY <1>2, <2>1, <2>2, <2>3
<1>6. k \in 0 .. Len(s) /\ (k < Len(s) => ~Fits(s, n, k + 1)) /\ (k + 1) - 1 = k
  BY <1>1, <1>2, <1>4
<1>7. PICK j : j = Supported(s, n)
  OBVIOUS
<1>8. /\ j \in 0 .. Len(s) /\ \A i \in 1 .. j : Fits(s, n, i)
      /\ j < Len(s) => ~(s[j + 1] \in alive /\ MinOf(s[j + 1]) < n - Total(Mins(s), j))
  BY <1>5, <1>6, <1>7 DEF Supported, Fits
<1>9. (j + 1) - 1 = j
  BY <1>1, <1>8
<1>10. SumsUp(Mins(s), Len(s)) /\ Total(Mins(s), j) \in Nat
  <2>1. \A i \in 1 .. Len(s) : Mins(s)[i] \in Int
    BY <1>1
  <2>2. 0 \in 0 .. Len(s) /\ j \in 0 .. Len(s)
    BY <1>1, <1>8
  <2> QED BY <1>1, <2>1, <2>2, Totals, TotalsRise
<1>11. Total(Mins(s), j) <= n
  <2>1. CASE j = 0
    BY <1>10, <2>1 DEF SumsUp
  <2>2. CASE j # 0
    <3>1. j \in 1 .. Len(s) /\ j \in 1 .. j /\ j - 1 \in 0 .. Len(s)
      BY <1>1, <1>8, <2>2
    <3>2. MinOf(s[j]) < n - Total(Mins(s), j - 1)
      BY <1>8, <3>1 DEF Fits
    <3>3. Total(Mins(s), j) = Total(Mins(s), j - 1) + MinOf(s[j]) /\ Total(Mins(s), j - 1) \in Int
          /\ MinOf(s[j]) \in Nat
      BY <1>1, <1>10, <3>1 DEF SumsUp
    <3> QED BY <3>2, <3>3
  <2> QED BY <2>1, <2>2
<1> QED BY <1>7, <1>8, <1>9, <1>10, <1>11 DEF IsServed, Fits

(* A number divided by one that is not less.                                   *)
LEMMA Divided ==
  ASSUME NEW x \in Nat, NEW e \in Nat, e > 0, x <= e
  PROVE  x \div e = IF x = e THEN 1 ELSE 0
<1>1. CASE x = e
  BY <1>1
<1>2. CASE x # e
  BY <1>2
<1> QED BY <1>1, <1>2

(* To each of the first k of the numbers m, the quotient of x and what x is    *)
(* altogether, times r.                                                        *)
SharesOut(f, m, x, r, k) ==
  /\ k \in Nat /\ r \in Nat /\ Total(x, k) \in Nat \ {0}
  /\ \A i \in 1 .. k : x[i] \in Nat /\ m[i] \in Nat /\ f[i] = m[i] + (x[i] \div Total(x, k)) * r

(* Of numbers that add up to e, one that is e leaves nothing to the others: r  *)
(* is given once at most.                                                      *)
GivenOnce(f, m, r, k) ==
  (\A i \in 1 .. k : f[i] \in Nat) /\ Total(f, k) \in {Total(m, k), Total(m, k) + r}

(* What is given altogether is the minima, and the rest once at most.          *)
LEMMA AllOfIt ==
  ASSUME NEW k, NEW x, NEW m, NEW r, NEW f, SharesOut(f, m, x, r, k)
  PROVE  GivenOnce(f, m, r, k)
<1> DEFINE e == Total(x, k)
<1>0. /\ k \in Nat /\ r \in Nat /\ e \in Nat /\ e > 0
      /\ \A i \in 1 .. k : x[i] \in Nat /\ m[i] \in Nat /\ f[i] = m[i] + (x[i] \div e) * r
  BY DEF SharesOut
<1> HIDE DEF e
<1>1. /\ \A i \in 1 .. k : x[i] \in Int
      /\ \A i \in 1 .. k : m[i] \in Int
  BY <1>0
<1>2. SumsUp(x, k) /\ SumsUp(m, k)
  BY <1>0, <1>1, Totals
<1>3. ASSUME NEW i \in 1 .. k
      PROVE  /\ Total(x, i - 1) \in Nat /\ Total(x, i) \in Nat /\ Total(x, i) = Total(x, i - 1) + x[i]
             /\ Total(x, i) <= e /\ x[i] <= e
             /\ f[i] = IF x[i] = e THEN m[i] + r ELSE m[i]
  <2>1. i - 1 \in 0 .. k /\ i \in 0 .. k /\ k \in i .. k /\ i \in i - 1 .. k
    BY <1>0
  <2>2. Total(x, i - 1) \in Nat /\ Total(x, i) \in Nat /\ Total(x, i) <= e
    <3>1. \A j \in 1 .. k : x[j] \in Nat
      BY <1>0
    <3> QED BY <1>0, <2>1, <3>1, TotalsRise DEF e
  <2>3. Total(x, i) = Total(x, i - 1) + x[i]
    BY <1>2 DEF SumsUp
  <2>4. x[i] \in Nat /\ x[i] <= e /\ m[i] \in Nat
    BY <1>0, <2>2, <2>3
  <2>5. x[i] \div e = IF x[i] = e THEN 1 ELSE 0
    BY <1>0, <2>4, Divided
  <2>6. CASE x[i] = e
    <3>1. (x[i] \div e) * r = r
      BY <1>0, <2>5, <2>6
    <3> QED BY <1>0, <2>2, <2>3, <2>4, <2>6, <3>1
  <2>7. CASE x[i] # e
    <3>1. (x[i] \div e) * r = 0
      BY <1>0, <2>5, <2>7
    <3> QED BY <1>0, <2>2, <2>3, <2>4, <2>7, <3>1
  <2> QED BY <2>6, <2>7
<1>4. ASSUME NEW i \in 1 .. k PROVE f[i] \in Nat /\ f[i] \in Int
  <2>1. m[i] \in Nat /\ r \in Nat
    BY <1>0
  <2>2. f[i] = m[i] + r \/ f[i] = m[i]
    BY <1>3
  <2> QED BY <2>1, <2>2
<1>5. SumsUp(f, k)
  BY <1>0, <1>4, Totals
<1>6. PICK T : T = {j \in 0 .. k : \/ Total(f, j) = Total(m, j)
                                   \/ Total(f, j) = Total(m, j) + r /\ Total(x, j) = e}
  OBVIOUS
<1>7. 0 \in T
  BY <1>0, <1>2, <1>5, <1>6 DEF SumsUp
<1>8. ASSUME NEW j \in 1 .. k, j - 1 \in T PROVE j \in T
  <2>1. j - 1 \in 0 .. k /\ j \in 0 .. k
    BY <1>0
  <2>2. /\ Total(f, j) = Total(f, j - 1) + f[j] /\ Total(m, j) = Total(m, j - 1) + m[j]
        /\ Total(m, j - 1) \in Int /\ m[j] \in Nat /\ x[j] \in Nat
    BY <1>0, <1>2, <1>5, <2>1 DEF SumsUp
  <2>3. CASE x[j] = e
    <3>1. Total(x, j - 1) = 0 /\ Total(x, j) = e
      BY <1>0, <1>3, <2>3
    <3>2. Total(f, j - 1) = Total(m, j - 1)
      BY <1>0, <1>6, <1>8, <3>1
    <3>3. f[j] = m[j] + r
      BY <1>3, <2>3
    <3>4. Total(f, j) = Total(m, j) + r
      BY <1>0, <2>2, <3>2, <3>3
    <3> QED BY <1>6, <2>1, <3>1, <3>4
  <2>4. CASE x[j] # e
    <3>1. f[j] = m[j]
      BY <1>3, <2>4
    <3>2. CASE Total(f, j - 1) = Total(m, j - 1)
      BY <1>0, <1>6, <2>1, <2>2, <3>1, <3>2
    <3>3. CASE Total(f, j - 1) = Total(m, j - 1) + r /\ Total(x, j - 1) = e
      <4>1. Total(x, j) = e
        BY <1>0, <1>3, <2>2, <3>3
      <4>2. Total(f, j) = Total(m, j) + r
        BY <1>0, <2>2, <3>1, <3>3
      <4> QED BY <1>6, <2>1, <4>1, <4>2
    <3> QED BY <1>6, <1>8, <3>2, <3>3
  <2> QED BY <2>3, <2>4
<1>9. \A j \in 0 .. k : j \in T
  BY <1>0, <1>7, <1>8, Throughout
<1>10. k \in T
  BY <1>0, <1>9
<1> QED BY <1>4, <1>6, <1>10 DEF GivenOnce

(* What is divided among the served requests: each gets a number, and all of   *)
(* them together what is available or no more than their least amounts.        *)
Divides(s, n) ==
  LET k == Supported(s, n)
  IN  /\ Extras(s, n) \in Nat
      /\ Extras(s, n) > 0 => Used(s, n) \in {n, Total(Mins(s), k)}
      /\ k = 0 \/ Extras(s, n) > 0 => Used(s, n) \in Nat /\ Used(s, n) <= n
      /\ Extras(s, n) > 0 => \A i \in 1 .. k : Share(s[i], s, n) \in Nat

(* That is how the walk divides, for any requests and any amount.              *)
LEMMA AllDivided ==
  ASSUME shape \in [Requests -> Shapes], NEW s \in Seq(Requests), NEW n \in Nat
  PROVE  Divides(s, n)
<1>1. PICK k : k = Supported(s, n)
  OBVIOUS
<1>2. PICK m : m = Mins(s)
  OBVIOUS
<1>3. PICK x : x = [i \in DOMAIN s |-> Extra(s[i])]
  OBVIOUS
<1>4. PICK f : f = [i \in DOMAIN s |-> Share(s[i], s, n)]
  OBVIOUS
<1>5. PICK r : r = Remaining(s, n)
  OBVIOUS
<1>6. PICK e : e = Extras(s, n)
  OBVIOUS
<1>7. IsServed(s, n, k)
  BY <1>1, SupportedIs
<1>8. k \in Nat /\ k \in 0 .. Len(s) /\ Len(s) \in Nat /\ r = n - Total(m, k) /\ r \in Nat
      /\ Total(m, k) \in Nat /\ Total(m, k) + r = n
  <2>1. Total(m, k) \in Nat /\ Total(m, k) <= n /\ k \in 0 .. Len(s) /\ Len(s) \in Nat
    BY <1>2, <1>7, MinsTyped DEF IsServed
  <2>2. r = n - Total(m, k)
    BY <1>1, <1>2, <1>5 DEF Remaining
  <2> QED BY <2>1, <2>2
<1>9. ASSUME NEW i \in 1 .. k
      PROVE  /\ x[i] \in Nat /\ m[i] \in Nat /\ x[i] = Extra(s[i]) /\ m[i] = MinOf(s[i])
             /\ f[i] = Share(s[i], s, n)
             /\ f[i] = m[i] + (x[i] \div e) * r
  <2>1. i \in 1 .. Len(s) /\ i \in DOMAIN s /\ s[i] \in Requests
    BY <1>8
  <2>2. x[i] \in Nat /\ m[i] \in Nat /\ x[i] = Extra(s[i]) /\ m[i] = MinOf(s[i])
    BY <1>2, <1>3, <2>1, ShapeTyped DEF Mins
  <2>3. f[i] = Share(s[i], s, n)
    BY <1>4, <2>1
  <2> QED BY <1>5, <1>6, <2>2, <2>3 DEF Share
<1>10. e \in Nat /\ e = Total(x, k)
  <2>1. e = Total(x, k)
    BY <1>1, <1>3, <1>6 DEF Extras
  <2>2. 0 \in 0 .. k /\ k \in 0 .. k
    BY <1>8
  <2> QED BY <1>8, <1>9, <2>1, <2>2, TotalsRise
<1>11. Used(s, n) = Total(f, k)
  BY <1>1, <1>4 DEF Used
<1>12. CASE e = 0
  <2>1. k = 0 => Used(s, n) = 0
    <3>1. SumsUp(f, 0)
      BY Totals
    <3> QED BY <1>11, <3>1 DEF SumsUp
  <2> QED BY <1>1, <1>2, <1>6, <1>10, <1>12, <2>1 DEF Divides
<1>13. CASE e # 0
  <2>1. e > 0
    BY <1>10, <1>13
  <2>2. GivenOnce(f, m, r, k)
    <3>1. SharesOut(f, m, x, r, k)
      BY <1>8, <1>9, <1>10, <2>1 DEF SharesOut
    <3> QED BY <3>1, AllOfIt
  <2>3. Used(s, n) \in {n, Total(m, k)} /\ Used(s, n) \in Nat /\ Used(s, n) <= n
    BY <1>8, <1>11, <2>2 DEF GivenOnce
  <2>4. \A i \in 1 .. k : Share(s[i], s, n) \in Nat
    BY <1>9, <2>2 DEF GivenOnce
  <2> QED BY <1>1, <1>2, <1>6, <1>10, <2>1, <2>3, <2>4 DEF Divides
<1> QED BY <1>12, <1>13

(* What is kept: all before the first that is gone.                            *)
AliveTo(s, k) == \A i \in 1 .. k : s[i] \in alive
KeepsFirst(t, s) ==
  /\ t \in Seq(Requests) /\ Len(t) \in 0 .. Len(s) /\ AliveTo(s, Len(t))
  /\ \A i \in 1 .. Len(t) : t[i] = s[i]

(* The first k of a sequence.                                                  *)
LEMMA PrefixIs ==
  ASSUME NEW S, NEW s \in Seq(S), NEW k \in 0 .. Len(s)
  PROVE  /\ Prefix(s, k) \in Seq(S) /\ Len(Prefix(s, k)) = k
         /\ \A i \in 1 .. k : Prefix(s, k)[i] = s[i]
<1>1. PICK t : t = SubSeq(s, 1, k)
  OBVIOUS
<1>2. k \in Nat /\ k <= Len(s) /\ Len(s) \in Nat
  OBVIOUS
<1>3. \A i \in 1 .. k : s[i] \in S
  BY <1>2
<1>4. t \in Seq(S) /\ Len(t) = k /\ \A i \in 1 .. k : t[i] = s[i]
  BY <1>1, <1>2, <1>3
<1> QED BY <1>1, <1>4 DEF Prefix

(* It is the longest such part, as Kept takes it.                              *)
LEMMA KeptIs ==
  ASSUME NEW s \in Seq(Requests)
  PROVE  KeepsFirst(Kept(s), s)
<1>1. PICK gone : gone = {i \in 1 .. Len(s) : s[i] \notin alive}
  OBVIOUS
<1>2. Len(s) \in Nat
  OBVIOUS
<1>3. CASE gone = {}
  <2>1. Kept(s) = s
    BY <1>1, <1>3 DEF Kept
  <2>2. AliveTo(s, Len(s))
    BY <1>1, <1>3 DEF AliveTo
  <2> QED BY <1>2, <2>1, <2>2 DEF KeepsFirst
<1>4. CASE gone # {}
  <2>1. gone \in SUBSET Nat /\ \A i \in gone : i \in 1 .. Len(s)
    BY <1>1, <1>2
  <2>2. PICK g \in gone : \A i \in gone : g <= i
    BY <1>4, <2>1, LeastNumber
  <2>3. PICK h : h = Min(gone)
    OBVIOUS
  <2>4. h \in gone /\ \A i \in gone : h <= i
    BY <2>2, <2>3 DEF Min
  <2>5. PICK k : k = h - 1
    OBVIOUS
  <2>6. k \in 0 .. Len(s) /\ h = k + 1
    BY <1>2, <2>1, <2>4, <2>5
  <2>7. AliveTo(s, k)
    <3>1. ASSUME NEW i \in 1 .. k PROVE s[i] \in alive
      <4>1. i \in 1 .. Len(s) /\ ~(h <= i)
        BY <1>2, <2>6
      <4>2. i \notin gone
        BY <2>4, <4>1
      <4> QED BY <1>1, <4>1, <4>2
    <3> QED BY <3>1 DEF AliveTo
  <2>8. Kept(s) = Prefix(s, k)
    BY <1>1, <1>4, <2>3, <2>5 DEF Kept
  <2> QED BY <2>6, <2>7, <2>8, PrefixIs DEF KeepsFirst
<1> QED BY <1>3, <1>4

(* The order: up to the first that is gone, no request needs less than one     *)
(* that comes before it.                                                       *)
Sorted(s) == \A j \in 1 .. Len(s) : AliveTo(s, j) => \A i \in 1 .. j : MinOf(s[i]) <= MinOf(s[j])

(* A request among the others, after the first p.                              *)
Inserted(t, l, p, s) ==
  /\ t \in Seq(Requests) /\ Len(t) = Len(s) + 1 /\ Len(s) \in Nat
  /\ \A i \in 1 .. p : t[i] = s[i]
  /\ t[p + 1] = l
  /\ \A i \in p + 2 .. Len(s) + 1 : t[i] = s[i - 1]

(* A request that is inserted comes at its place, and the others stay in       *)
(* order.                                                                      *)
LEMMA InsertIs ==
  ASSUME NEW l \in Requests, NEW p \in 0 .. Len(loads), loads \in Seq(Requests)
  PROVE  Inserted(Insert(l, p), l, p, loads)
<1>1. PICK n \in Nat : n = Len(loads)
  OBVIOUS
<1>2. PICK a : a = Prefix(loads, p)
  OBVIOUS
<1>3. PICK b : b = SubSeq(loads, p + 1, n)
  OBVIOUS
<1>4. PICK c : c = a \o <<l>>
  OBVIOUS
<1>5. PICK t : t = c \o b
  OBVIOUS
<1>6. p \in Nat /\ p <= n
  BY <1>1
<1>7. a \in Seq(Requests) /\ Len(a) = p /\ \A i \in 1 .. p : a[i] = loads[i]
  BY <1>2, PrefixIs
<1>8. b \in Seq(Requests) /\ Len(b) = n - p /\ \A i \in 1 .. n - p : b[i] = loads[p + i]
  <2>1. \A i \in p + 1 .. n : loads[i] \in Requests
    BY <1>1, <1>6
  <2> QED BY <1>1, <1>3, <1>6, <2>1
<1>9. c \in Seq(Requests) /\ Len(c) = p + 1 /\ (\A i \in 1 .. p : c[i] = loads[i]) /\ c[p + 1] = l
  <2>1. c = Append(a, l)
    BY <1>4, <1>7
  <2>2. c \in Seq(Requests) /\ Len(c) = Len(a) + 1 /\ c[Len(a) + 1] = l
    BY <1>7, <2>1, Appended
  <2>3. \A i \in 1 .. Len(a) : c[i] = a[i]
    BY <1>7, <2>1, Appended
  <2> QED BY <1>7, <2>2, <2>3
<1>10. t \in Seq(Requests) /\ Len(t) = Len(c) + Len(b)
  <2>1. c \in Seq(Requests) /\ b \in Seq(Requests)
    BY <1>8, <1>9
  <2>2. Len(t) = Len(c) + Len(b)
    BY <1>5, <2>1, Concatenated
  <2>3. t \in Seq(Requests)
    BY <1>5, <2>1, Concatenated
  <2> QED BY <2>2, <2>3
<1>11. \A i \in 1 .. Len(c) : t[i] = c[i]
  BY <1>5, <1>8, <1>9, Concatenated
<1>12. \A i \in Len(c) + 1 .. Len(c) + Len(b) : t[i] = b[i - Len(c)]
  BY <1>5, <1>8, <1>9, Concatenated
<1>13. Len(t) = n + 1
  BY <1>6, <1>8, <1>9, <1>10
<1>14. ASSUME NEW i \in p + 2 .. n + 1 PROVE t[i] = loads[i - 1]
  <2>1. i - (p + 1) \in 1 .. n - p /\ p + (i - (p + 1)) = i - 1
    BY <1>6
  <2>2. i \in Len(c) + 1 .. Len(c) + Len(b)
    BY <1>6, <1>8, <1>9
  <2> QED BY <1>8, <1>9, <1>12, <2>1, <2>2
<1>15. \A i \in 1 .. p : i \in 1 .. p + 1
  BY <1>6
<1>16. p + 1 \in 1 .. p + 1
  BY <1>6
<1>17. t = Insert(l, p)
  BY <1>1, <1>2, <1>3, <1>4, <1>5 DEF Insert
<1> QED BY <1>1, <1>9, <1>10, <1>11, <1>13, <1>14, <1>15, <1>16, <1>17 DEF Inserted

(* Where the search of the multiset ends, the order allows it.                 *)
LEMMA InsertSorts ==
  ASSUME shape \in [Requests -> Shapes], loads \in Seq(Requests), Sorted(loads),
         NEW l \in Requests, NEW p \in Places(l), NEW t, t = Insert(l, p)
  PROVE  t \in Seq(Requests) /\ Sorted(t)
<1>1. PICK n \in Nat : n = Len(loads)
  OBVIOUS
<1>2. p \in 0 .. n
  BY <1>1 DEF Places
<1>3. Inserted(t, l, p, loads)
  BY <1>1, <1>2, InsertIs
<1>4. /\ Len(t) = n + 1 /\ t[p + 1] = l
      /\ \A i \in 1 .. p : t[i] = loads[i]
      /\ \A i \in p + 2 .. n + 1 : t[i] = loads[i - 1]
  BY <1>1, <1>3 DEF Inserted
<1>5. \A i \in 1 .. n : loads[i] \in Requests /\ MinOf(loads[i]) \in Nat
  BY <1>1, ShapeTyped
<1>6. \A j \in 1 .. n : AliveTo(loads, j) => \A i \in 1 .. j : MinOf(loads[i]) <= MinOf(loads[j])
  BY <1>1 DEF Sorted
<1>7. MinOf(l) \in Nat
  BY ShapeTyped
<1>8. ASSUME NEW j \in 1 .. n + 1, AliveTo(t, j), NEW i \in 1 .. j PROVE MinOf(t[i]) <= MinOf(t[j])
  <2>1. \A m \in 1 .. j : t[m] \in alive
    BY <1>8 DEF AliveTo
  <2>2. CASE j <= p
    <3>1. AliveTo(loads, j)
      <4>1. ASSUME NEW m \in 1 .. j PROVE loads[m] \in alive
        <5>1. m \in 1 .. p
          BY <1>2, <2>2
        <5> QED BY <1>4, <2>1, <5>1
      <4> QED BY <4>1 DEF AliveTo
    <3>2. j \in 1 .. n /\ j \in 1 .. p /\ i \in 1 .. p
      BY <1>2, <2>2
    <3> QED BY <1>4, <1>6, <3>1, <3>2
  <2>3. CASE j = p + 1
    <3>1. CASE i = j
      BY <1>4, <1>7, <2>3, <3>1
    <3>2. CASE i # j
      <4>1. p \in 1 .. n /\ i \in 1 .. p /\ p > 0
        BY <1>2, <2>3, <3>2
      <4>2. AliveTo(loads, p)
        <5>1. ASSUME NEW m \in 1 .. p PROVE loads[m] \in alive
          <6>1. m \in 1 .. j
            BY <1>2, <2>3
          <6> QED BY <1>4, <2>1, <6>1
        <5> QED BY <5>1 DEF AliveTo
      <4>3. MinOf(loads[i]) <= MinOf(loads[p])
        BY <1>6, <4>1, <4>2
      <4>4. ~Less(l, loads[p])
        BY <4>1 DEF Places
      <4>5. t[p + 1] \in alive
        BY <1>2, <2>1, <2>3
      <4>6. ~(MinOf(l) < MinOf(loads[p]))
        BY <1>4, <4>4, <4>5 DEF Less
      <4>7. MinOf(loads[i]) \in Nat /\ MinOf(loads[p]) \in Nat
        <5>1. i \in 1 .. n
          BY <1>2, <4>1
        <5> QED BY <1>5, <4>1, <5>1
      <4>8. t[i] = loads[i] /\ t[j] = l
        BY <1>4, <2>3, <4>1
      <4> QED BY <1>7, <4>3, <4>6, <4>7, <4>8
    <3> QED BY <3>1, <3>2
  <2>4. CASE j > p + 1
    <3>1. j \in p + 2 .. n + 1 /\ j - 1 \in 1 .. n /\ p < n /\ p + 1 \in 1 .. j - 1 /\ j - 1 \in Nat
      BY <1>2, <2>4
    <3>2. t[j] = loads[j - 1]
      BY <1>4, <3>1
    <3>3. AliveTo(loads, j - 1)
      <4>1. ASSUME NEW m \in 1 .. j - 1 PROVE loads[m] \in alive
        <5>1. CASE m <= p
          <6>1. m \in 1 .. p /\ m \in 1 .. j
            BY <1>2, <3>1, <5>1
          <6> QED BY <1>4, <2>1, <6>1
        <5>2. CASE m > p
          <6>1. m + 1 \in p + 2 .. n + 1 /\ m + 1 \in 1 .. j /\ (m + 1) - 1 = m
            BY <1>2, <3>1, <5>2
          <6> QED BY <1>4, <2>1, <6>1
        <5> QED BY <1>2, <5>1, <5>2
      <4> QED BY <4>1 DEF AliveTo
    <3>4. \A m \in 1 .. j - 1 : MinOf(loads[m]) <= MinOf(loads[j - 1])
      BY <1>6, <3>1, <3>3
    <3>5. CASE i <= p
      <4>1. i \in 1 .. p /\ i \in 1 .. j - 1
        BY <1>2, <3>1, <3>5
      <4> QED BY <1>4, <3>2, <3>4, <4>1
    <3>6. CASE i = p + 1
      <4>1. Less(l, loads[p + 1])
        BY <1>1, <3>1 DEF Places
      <4>2. p + 1 \in 1 .. n
        BY <1>2, <3>1
      <4>3. loads[p + 1] \in alive
        BY <3>1, <3>3 DEF AliveTo
      <4>4. MinOf(l) < MinOf(loads[p + 1])
        BY <4>1, <4>3 DEF Less
      <4>5. MinOf(loads[p + 1]) <= MinOf(loads[j - 1])
        BY <3>1, <3>4
      <4>6. MinOf(loads[p + 1]) \in Nat /\ MinOf(loads[j - 1]) \in Nat
        BY <1>5, <3>1, <4>2
      <4>7. MinOf(l) <= MinOf(loads[j - 1])
        BY <1>7, <4>4, <4>5, <4>6
      <4> QED BY <1>4, <3>2, <3>6, <4>7
    <3>7. CASE i > p + 1
      <4>1. i \in p + 2 .. n + 1 /\ i - 1 \in 1 .. j - 1
        BY <1>2, <3>1, <3>7
      <4>2. t[i] = loads[i - 1]
        BY <1>4, <4>1
      <4> QED BY <3>2, <3>4, <4>1, <4>2
    <3> QED BY <1>2, <3>5, <3>6, <3>7
  <2> QED BY <1>2, <2>2, <2>3, <2>4
<1> QED BY <1>3, <1>4, <1>8 DEF Sorted, Inserted

(* What is kept of an ordered multiset is ordered.                             *)
LEMMA KeptSorted ==
  ASSUME NEW s \in Seq(Requests), NEW t, KeepsFirst(t, s), Sorted(s)
  PROVE  Sorted(t)
<1>1. Len(t) \in 0 .. Len(s) /\ Len(s) \in Nat /\ \A i \in 1 .. Len(t) : t[i] = s[i]
  BY DEF KeepsFirst
<1>2. ASSUME NEW j \in 1 .. Len(t), AliveTo(t, j), NEW i \in 1 .. j PROVE MinOf(t[i]) <= MinOf(t[j])
  <2>1. j \in 1 .. Len(s) /\ i \in 1 .. Len(t)
    BY <1>1
  <2>2. AliveTo(s, j)
    <3>1. ASSUME NEW m \in 1 .. j PROVE s[m] \in alive
      <4>1. m \in 1 .. Len(t)
        BY <1>1
      <4> QED BY <1>1, <1>2, <4>1 DEF AliveTo
    <3> QED BY <3>1 DEF AliveTo
  <2>3. MinOf(s[i]) <= MinOf(s[j])
    BY <2>1, <2>2 DEF Sorted
  <2> QED BY <1>1, <2>1, <2>3
<1> QED BY <1>2 DEF Sorted

(* The inductive invariant: what is said to be used is what there is to use at *)
(* most, and until an owner changes a request that is in it, the multiset is   *)
(* in order.                                                                   *)
LoadsIInv ==
  /\ LoadsTypeOK
  /\ total_used <= total_avaliable
  /\ ~changed => Sorted(loads)

(* Nothing is requested and nothing is given at first.                         *)
LEMMA LoadsInitially == InitLoads => LoadsIInv
<1> SUFFICES ASSUME InitLoads PROVE LoadsIInv
  OBVIOUS
<1>1. (CHOOSE s \in Shapes : TRUE) \in Shapes
  BY ShapesAssumption
<1>2. shape \in [Requests -> Shapes]
  BY <1>1 DEF InitLoads
<1>3. total_avaliable \in Nat /\ total_used = 0 /\ total_requested = 0
  BY AmountsAssumption DEF InitLoads
<1>4. loads = <<>> /\ Len(loads) = 0
  BY DEF InitLoads
<1>5. loads \in Seq(Requests) /\ Sorted(loads)
  BY <1>4 DEF Sorted
<1>6. received \in [Requests -> Nat] /\ alive \subseteq Requests /\ changed \in BOOLEAN /\ broken \in BOOLEAN
  BY DEF InitLoads
<1>7. {total_requested, total_avaliable, total_used} \subseteq Nat /\ total_used <= total_avaliable
  BY <1>3
<1> QED BY <1>2, <1>5, <1>6, <1>7 DEF LoadsIInv, LoadsTypeOK

(* A division leaves the totals and what was received as numbers.              *)
StaysDivided == /\ received' \in [Requests -> Nat]
            /\ total_avaliable' \in Nat /\ total_used' \in Nat /\ total_used' <= total_avaliable'
            /\ broken' \in BOOLEAN

(* Distributing gives every request its part of the load and no more.          *)
LEMMA DistributeKeeps ==
  ASSUME LoadsIInv, NEW s \in Seq(Requests), NEW n \in Nat, Distribute(s, n)
  PROVE  StaysDivided
<1>0. /\ shape \in [Requests -> Shapes] /\ received \in [Requests -> Nat] /\ broken \in BOOLEAN
      /\ total_avaliable \in Nat /\ total_used \in Nat /\ total_used <= total_avaliable
  BY DEF LoadsIInv, LoadsTypeOK
<1>1. PICK k : k = Supported(s, n)
  OBVIOUS
<1>2. k \in 0 .. Len(s) /\ Len(s) \in Nat
  BY <1>0, <1>1, SupportedIs DEF IsServed
<1>3. CASE broken' = TRUE /\ UNCHANGED <<received, total_avaliable, total_used>>
  BY <1>0, <1>3 DEF StaysDivided
<1>4. CASE /\ ~(k > 0 /\ Extras(s, n) = 0)
           /\ received' = [l \in Requests |-> IF l \in ToSet(Served(s, n)) THEN Share(l, s, n) ELSE received[l]]
           /\ total_avaliable' = n /\ total_used' = Used(s, n) /\ UNCHANGED broken
  <2>1. Divides(s, n)
    BY <1>0, AllDivided
  <2>2. Extras(s, n) \in Nat /\ (k = 0 \/ Extras(s, n) > 0)
    BY <1>2, <1>4, <2>1 DEF Divides
  <2>3. Used(s, n) \in Nat /\ Used(s, n) <= n
    BY <1>1, <2>1, <2>2 DEF Divides
  <2>4. ASSUME NEW l \in Requests, l \in ToSet(Served(s, n)) PROVE Share(l, s, n) \in Nat
    <3>1. PICK t : t = Prefix(s, k)
      OBVIOUS
    <3>2. t \in Seq(Requests) /\ Len(t) = k /\ \A i \in 1 .. k : t[i] = s[i]
      BY <1>2, <3>1, PrefixIs
    <3>3. l \in {t[i] : i \in DOMAIN t}
      BY <1>1, <2>4, <3>1 DEF ToSet, Served
    <3>4. PICK i \in 1 .. k : l = s[i]
      BY <3>2, <3>3
    <3>5. k # 0
      BY <1>2, <3>4
    <3> QED BY <1>1, <2>1, <2>2, <3>4, <3>5 DEF Divides
  <2>5. received' \in [Requests -> Nat]
    BY <1>0, <1>4, <2>4
  <2> QED BY <1>0, <1>4, <2>3, <2>5 DEF StaysDivided
<1> QED BY <1>1, <1>3, <1>4 DEF Distribute

(* Recalculating leaves the requests sorted and all of them divided.           *)
LEMMA RecalculateKeeps ==
  ASSUME LoadsIInv, NEW s \in Seq(Requests), ~changed => Sorted(s), RecalculateOver(s),
         UNCHANGED <<shape, alive, changed>>
  PROVE  LoadsIInv'
<1>0. LoadsTypeOK /\ shape \in [Requests -> Shapes]
  BY DEF LoadsIInv, LoadsTypeOK
<1>1. PICK t : t = Kept(s)
  OBVIOUS
<1>2. KeepsFirst(t, s)
  BY <1>1, KeptIs
<1>3. t \in Seq(Requests) /\ loads' = t
  BY <1>1, <1>2 DEF KeepsFirst, RecalculateOver
<1>4. total_requested' \in Nat
  <2>1. PICK f : f = [i \in DOMAIN s |-> shape[s[i]].requested]
    OBVIOUS
  <2>2. PICK n : n = Len(t)
    OBVIOUS
  <2>3. n \in Nat /\ n <= Len(s)
    BY <1>2, <2>2 DEF KeepsFirst
  <2>4. ASSUME NEW i \in 1 .. n PROVE f[i] \in Nat
    <3>1. i \in DOMAIN s /\ s[i] \in Requests
      BY <2>3
    <3> QED BY <1>0, <2>1, <3>1, ShapeTyped
  <2>5. 0 \in 0 .. n /\ n \in 0 .. n
    BY <2>3
  <2>6. Total(f, n) \in Nat
    BY <2>3, <2>4, <2>5, TotalsRise
  <2> QED BY <1>1, <2>1, <2>2, <2>6 DEF RecalculateOver
<1>5. StaysDivided
  <2>1. total_avaliable \in Nat
    BY <1>0 DEF LoadsTypeOK
  <2> QED BY <1>1, <1>3, <2>1, DistributeKeeps DEF RecalculateOver
<1>6. ~changed' => Sorted(loads)'
  <2>1. ~changed => Sorted(t)
    BY <1>2, KeptSorted
  <2> QED BY <1>3, <2>1 DEF Sorted, AliveTo, MinOf
<1> QED BY <1>0, <1>3, <1>4, <1>5, <1>6 DEF LoadsIInv, LoadsTypeOK, StaysDivided

(* Every step keeps it.                                                        *)
LEMMA LoadsStep == LoadsIInv /\ [NextLoads]_loadVars => LoadsIInv'
<1> SUFFICES ASSUME LoadsIInv, [NextLoads]_loadVars PROVE LoadsIInv'
  OBVIOUS
<1>0. /\ LoadsTypeOK /\ shape \in [Requests -> Shapes] /\ loads \in Seq(Requests)
      /\ total_used <= total_avaliable /\ (~changed => Sorted(loads))
  BY DEF LoadsIInv, LoadsTypeOK
<1>1. ASSUME NEW l \in Requests, addLoad(l) PROVE LoadsIInv'
  <2>1. PICK p \in Places(l) : RecalculateOver(Insert(l, p))
    BY <1>1 DEF addLoad
  <2>2. PICK t : t = Insert(l, p)
    OBVIOUS
  <2>3. p \in 0 .. Len(loads)
    BY DEF Places
  <2>4. t \in Seq(Requests)
    BY <1>0, <2>2, <2>3, InsertIs DEF Inserted
  <2>5. ~changed => Sorted(t)
    BY <1>0, <2>2, InsertSorts
  <2>6. UNCHANGED <<shape, alive, changed>>
    BY <1>1 DEF addLoad
  <2> QED BY <2>1, <2>2, <2>4, <2>5, <2>6, RecalculateKeeps
<1>2. ASSUME NEW l \in Requests, addLoadDontRecal(l) PROVE LoadsIInv'
  <2>1. PICK p \in Places(l) : loads' = Insert(l, p)
    BY <1>2 DEF addLoadDontRecal
  <2>2. PICK t : t = Insert(l, p)
    OBVIOUS
  <2>3. p \in 0 .. Len(loads)
    BY DEF Places
  <2>4. t \in Seq(Requests)
    BY <1>0, <2>2, <2>3, InsertIs DEF Inserted
  <2>5. ~changed => Sorted(t)
    BY <1>0, <2>2, InsertSorts
  <2>6. /\ UNCHANGED <<shape, received, alive, total_requested, total_avaliable, total_used>>
        /\ UNCHANGED <<changed, broken>> /\ loads' = t
    BY <1>2, <2>1, <2>2 DEF addLoadDontRecal
  <2>7. ~changed' => Sorted(loads)'
    BY <2>5, <2>6 DEF Sorted, AliveTo, MinOf
  <2> QED BY <1>0, <2>4, <2>6, <2>7 DEF LoadsIInv, LoadsTypeOK
<1>3. ASSUME NEW l \in Requests, removeLoad(l) PROVE LoadsIInv'
  <2>1. /\ UNCHANGED <<shape, received, alive, loads>> /\ broken' = TRUE
        /\ UNCHANGED <<total_requested, total_avaliable, total_used, changed>>
    BY <1>3 DEF removeLoad
  <2>2. ~changed' => Sorted(loads)'
    BY <1>0, <2>1 DEF Sorted, AliveTo, MinOf
  <2> QED BY <1>0, <2>1, <2>2 DEF LoadsIInv, LoadsTypeOK
<1>4. ASSUME NEW l \in Requests, Drop(l) PROVE LoadsIInv'
  <2>1. /\ UNCHANGED <<shape, received, loads, total_requested, total_avaliable, total_used>>
        /\ UNCHANGED <<changed, broken>> /\ alive' = alive \ {l}
    BY <1>4 DEF Drop
  <2>2. ~changed' => Sorted(loads)'
    <3>1. ASSUME NEW j, AliveTo(loads, j)' PROVE AliveTo(loads, j)
      BY <2>1, <3>1 DEF AliveTo
    <3> QED BY <1>0, <2>1, <3>1 DEF Sorted, MinOf
  <2>3. alive' \subseteq Requests
    BY <1>0, <2>1 DEF LoadsTypeOK
  <2> QED BY <1>0, <2>1, <2>2, <2>3 DEF LoadsIInv, LoadsTypeOK
<1>5. ASSUME NEW l \in Requests, NEW s \in Shapes, Ask(l, s) PROVE LoadsIInv'
  <2>1. /\ UNCHANGED <<received, alive, loads, total_requested, total_avaliable, total_used, broken>>
        /\ shape' = [shape EXCEPT ![l] = s] /\ changed' = (changed \/ l \in ToSet(loads))
    BY <1>5 DEF Ask
  <2>2. shape' \in [Requests -> Shapes]
    BY <1>0, <2>1
  <2>3. ASSUME ~changed' PROVE Sorted(loads)'
    <3>1. ~changed /\ l \notin ToSet(loads)
      BY <2>1, <2>3
    <3>2. ASSUME NEW i \in 1 .. Len(loads) PROVE MinOf(loads[i])' = MinOf(loads[i])
      <4>1. i \in DOMAIN loads /\ loads[i] \in Requests
        BY <1>0
      <4>2. loads[i] # l
        BY <3>1, <4>1 DEF ToSet
      <4>3. shape'[loads[i]] = shape[loads[i]]
        BY <1>0, <2>1, <4>1, <4>2
      <4> QED BY <2>1, <4>3 DEF MinOf
    <3>3. \A j \in 1 .. Len(loads) : \A i \in 1 .. j : i \in 1 .. Len(loads)
      BY <1>0
    <3>4. Sorted(loads)
      BY <1>0, <3>1
    <3>5. ASSUME NEW j \in 1 .. Len(loads), AliveTo(loads, j)', NEW i \in 1 .. j
          PROVE  MinOf(loads[i])' <= MinOf(loads[j])'
      <4>1. AliveTo(loads, j)
        BY <2>1, <3>5 DEF AliveTo
      <4>2. MinOf(loads[i]) <= MinOf(loads[j])
        BY <3>4, <4>1 DEF Sorted
      <4> QED BY <3>2, <3>3, <4>2
    <3> QED BY <2>1, <3>5 DEF Sorted
  <2>4. changed' \in BOOLEAN
    BY <1>0, <2>1 DEF LoadsTypeOK
  <2> QED BY <1>0, <2>1, <2>2, <2>3, <2>4 DEF LoadsIInv, LoadsTypeOK
<1>6. ASSUME NEW n \in Amounts, setTotalAvaliable(n) PROVE LoadsIInv'
  <2>1. Distribute(loads, n) /\ UNCHANGED <<shape, alive, loads, total_requested, changed>>
    BY <1>6 DEF setTotalAvaliable
  <2>2. n \in Nat
    BY AmountsAssumption
  <2>3. StaysDivided
    BY <1>0, <2>1, <2>2, DistributeKeeps
  <2>4. ~changed' => Sorted(loads)'
    BY <1>0, <2>1 DEF Sorted, AliveTo, MinOf
  <2> QED BY <1>0, <2>1, <2>3, <2>4 DEF LoadsIInv, LoadsTypeOK, StaysDivided
<1>7. CASE recalculate
  BY <1>0, <1>7, RecalculateKeeps DEF recalculate
<1>8. CASE UNCHANGED loadVars
  <2>1. /\ UNCHANGED <<shape, received, alive, loads>>
        /\ UNCHANGED <<total_requested, total_avaliable, total_used, changed, broken>>
    BY <1>8 DEF loadVars
  <2>2. ~changed' => Sorted(loads)'
    BY <1>0, <2>1 DEF Sorted, AliveTo, MinOf
  <2> QED BY <1>0, <2>1, <2>2 DEF LoadsIInv, LoadsTypeOK
<1> QED BY <1>1, <1>2, <1>3, <1>4, <1>5, <1>6, <1>7, <1>8 DEF NextLoads

(* As many members as the ones that are added up.                              *)
LEMMA CountsUp ==
  ASSUME NEW n \in Nat, NEW S \in SUBSET (1 .. n), NEW c, \A i \in 1 .. n : c[i] = IF i \in S THEN 1 ELSE 0
  PROVE  Cardinality(S) = Total(c, n)
<1>0. \A i \in S : i \in Int /\ 1 <= i /\ i <= n
  OBVIOUS
<1>1. \A i \in 1 .. n : c[i] \in Int
  OBVIOUS
<1>2. SumsUp(c, n)
  BY <1>1, Totals
<1> DEFINE To(j) == {i \in S : i <= j}
<1>3. IsFiniteSet(S)
  <2>1. IsFiniteSet(1 .. n)
    BY FS_Interval
  <2> QED BY <2>1, FS_Subset
<1>4. PICK T : T = {j \in 0 .. n : Cardinality(To(j)) = Total(c, j)}
  OBVIOUS
<1>5. 0 \in T
  <2>1. To(0) = {}
    <3>1. \A i \in S : ~(i <= 0)
      BY <1>0
    <3> QED BY <3>1
  <2>2. Cardinality(To(0)) = 0
    BY <2>1, FS_EmptySet
  <2> QED BY <1>2, <1>4, <2>2 DEF SumsUp
<1>6. ASSUME NEW j \in 1 .. n, j - 1 \in T PROVE j \in T
  <2>1. j \in 0 .. n /\ Total(c, j) = Total(c, j - 1) + c[j] /\ Cardinality(To(j - 1)) = Total(c, j - 1)
    BY <1>2, <1>4, <1>6 DEF SumsUp
  <2>2. Total(c, j - 1) \in Int
    <3>1. j - 1 \in 0 .. n
      OBVIOUS
    <3> QED BY <1>2, <3>1 DEF SumsUp
  <2>3. CASE j \in S
    <3>1. PICK A : A = To(j - 1)
      OBVIOUS
    <3>2. To(j) = A \cup {j} /\ j \notin A /\ A \in SUBSET S
      <4>1. \A i \in S : i <= j <=> i = j \/ i <= j - 1
        BY <1>0
      <4>2. ~(j <= j - 1)
        OBVIOUS
      <4> QED BY <2>3, <3>1, <4>1, <4>2
    <3>3. IsFiniteSet(A)
      BY <1>3, <3>2, FS_Subset
    <3>4. Cardinality(A \cup {j}) = Cardinality(A) + 1
      BY <3>2, <3>3, FS_AddElement
    <3>5. Cardinality(To(j)) = Total(c, j - 1) + 1
      BY <2>1, <3>1, <3>2, <3>4
    <3> QED BY <1>4, <2>1, <2>2, <2>3, <3>5
  <2>4. CASE j \notin S
    <3>1. To(j) = To(j - 1)
      <4>1. \A i \in S : i <= j <=> i <= j - 1
        BY <1>0, <2>4
      <4> QED BY <4>1
    <3>2. Cardinality(To(j)) = Total(c, j - 1)
      BY <2>1, <3>1
    <3> QED BY <1>4, <2>1, <2>2, <2>4, <3>2
  <2> QED BY <2>3, <2>4
<1>7. \A j \in 0 .. n : j \in T
  BY <1>5, <1>6, Throughout
<1>8. n \in T /\ To(n) = S
  <2>1. \A i \in S : i <= n
    BY <1>0
  <2>2. n \in 0 .. n
    OBVIOUS
  <2> QED BY <1>7, <2>1, <2>2
<1> QED BY <1>4, <1>8

(* Of ascending numbers, the first q are the least that q of them can add up   *)
(* to: what adds up to less is fewer.                                          *)
Fewer(n, kept, q, a, S, b, c) ==
  /\ n \in Nat /\ kept \in 0 .. n /\ q \in 1 .. kept
  /\ \A i \in 1 .. n : a[i] \in Nat
  /\ \A i, j \in 1 .. kept : i <= j => a[i] <= a[j]
  /\ S \subseteq 1 .. kept
  /\ \A i \in 1 .. n : b[i] = (IF i \in S THEN a[i] ELSE 0) /\ c[i] = (IF i \in S THEN 1 ELSE 0)
  /\ Total(b, n) < Total(a, q)

(* Whatever set of requests is served instead, one more does not fit in.       *)
LEMMA Greedy ==
  ASSUME NEW n, NEW kept, NEW q, NEW a, NEW S, NEW b, NEW c, Fewer(n, kept, q, a, S, b, c)
  PROVE  Total(c, n) \in Int /\ Total(c, n) < q
<1>0. /\ n \in Nat /\ kept \in 0 .. n /\ q \in 1 .. kept
      /\ \A i \in 1 .. n : a[i] \in Nat
      /\ \A i, j \in 1 .. kept : i <= j => a[i] <= a[j]
      /\ \A i \in S : i \in 1 .. kept
      /\ \A i \in 1 .. n : b[i] = (IF i \in S THEN a[i] ELSE 0) /\ c[i] = (IF i \in S THEN 1 ELSE 0)
      /\ Total(b, n) < Total(a, q)
  BY DEF Fewer
<1>1. PICK t \in Nat : t = a[q]
  BY <1>0
<1>2. PICK M : M = [x \in Int |-> t * x]
  OBVIOUS
<1>3. \A x \in Int : M[x] \in Int /\ M[x + 1] = M[x] + t /\ M[x - 1] = M[x] - t
  BY <1>1, <1>2
<1>4. M[0] = 0 /\ \A x \in Int : x >= 0 => M[x] >= 0
  BY <1>1, <1>2
<1>5. SumsUp(a, n) /\ SumsUp(b, n) /\ SumsUp(c, n)
  <2>1. /\ \A i \in 1 .. n : a[i] \in Int
        /\ \A i \in 1 .. n : b[i] \in Int
        /\ \A i \in 1 .. n : c[i] \in Int
    BY <1>0
  <2> QED BY <1>0, <2>1, Totals
<1> DEFINE H(j) == IF j <= q THEN j ELSE q
<1>6. PICK T : T = {j \in 0 .. n : Total(b, j) - Total(a, H(j)) >= M[Total(c, j) - H(j)]}
  OBVIOUS
<1>7. 0 \in T
  BY <1>0, <1>4, <1>5, <1>6 DEF SumsUp
<1>8. ASSUME NEW j \in 1 .. n, j - 1 \in T PROVE j \in T
  <2>1. j \in 0 .. n /\ j - 1 \in 0 .. n /\ q \in 0 .. n
    BY <1>0
  <2>2. /\ Total(b, j) = Total(b, j - 1) + b[j] /\ Total(b, j - 1) \in Int
        /\ Total(c, j) = Total(c, j - 1) + c[j] /\ Total(c, j - 1) \in Int
    BY <1>5, <2>1 DEF SumsUp
  <2>3. Total(a, j) = Total(a, j - 1) + a[j] /\ Total(a, j - 1) \in Int /\ Total(a, q) \in Int
    BY <1>5, <2>1 DEF SumsUp
  <2>4. Total(b, j - 1) - Total(a, H(j - 1)) >= M[Total(c, j - 1) - H(j - 1)]
    BY <1>6, <1>8
  <2>5. b[j] = (IF j \in S THEN a[j] ELSE 0) /\ c[j] = (IF j \in S THEN 1 ELSE 0) /\ a[j] \in Nat
    BY <1>0
  <2>6. CASE j <= q
    <3>1. H(j) = j /\ H(j - 1) = j - 1 /\ a[j] <= t
      <4>1. j \in 1 .. kept
        BY <1>0, <2>6
      <4> QED BY <1>0, <1>1, <2>6, <4>1
    <3>2. CASE j \in S
      <4>1. Total(c, j) - j = Total(c, j - 1) - (j - 1)
        BY <2>2, <2>5, <3>2
      <4>2. Total(b, j) - Total(a, j) = Total(b, j - 1) - Total(a, j - 1)
        BY <2>2, <2>3, <2>5, <3>2
      <4>3. Total(b, j) - Total(a, j) >= M[Total(c, j) - j]
        BY <2>4, <3>1, <4>1, <4>2
      <4> QED BY <1>6, <2>1, <3>1, <4>3
    <3>3. CASE j \notin S
      <4>1. PICK x \in Int : x = Total(c, j - 1) - (j - 1)
        BY <2>2
      <4>2. Total(c, j) - j = x - 1
        BY <2>2, <2>5, <3>3, <4>1
      <4>3. M[x] \in Int /\ M[x - 1] = M[x] - t
        BY <1>3
      <4>4. Total(b, j - 1) - Total(a, j - 1) >= M[x]
        BY <2>4, <3>1, <4>1
      <4>5. Total(b, j) - Total(a, j) >= M[x] - t
        BY <2>2, <2>3, <2>5, <3>1, <3>3, <4>3, <4>4
      <4>6. Total(b, j) - Total(a, j) >= M[Total(c, j) - j]
        BY <4>2, <4>3, <4>5
      <4> QED BY <1>6, <2>1, <3>1, <4>6
    <3> QED BY <3>2, <3>3
  <2>7. CASE j > q
    <3>1. H(j) = q /\ H(j - 1) = q
      BY <1>0, <2>7
    <3>2. CASE j \in S
      <4>1. PICK x \in Int : x = Total(c, j - 1) - q
        BY <1>0, <2>2
      <4>2. Total(c, j) - q = x + 1
        BY <1>0, <2>2, <2>5, <3>2, <4>1
      <4>3. M[x] \in Int /\ M[x + 1] = M[x] + t
        BY <1>3
      <4>4. Total(b, j - 1) - Total(a, q) >= M[x]
        BY <2>4, <3>1, <4>1
      <4>5. a[j] >= t
        <5>1. j \in 1 .. kept /\ q \in 1 .. kept /\ q <= j
          BY <1>0, <2>7, <3>2
        <5>2. a[q] <= a[j]
          BY <1>0, <5>1
        <5> QED BY <1>1, <2>5, <5>2
      <4>6. Total(b, j) - Total(a, q) >= M[x] + t
        BY <2>2, <2>3, <2>5, <3>2, <4>3, <4>4, <4>5
      <4>7. Total(b, j) - Total(a, q) >= M[Total(c, j) - q]
        BY <4>2, <4>3, <4>6
      <4> QED BY <1>6, <2>1, <3>1, <4>7
    <3>3. CASE j \notin S
      <4>1. Total(b, j) = Total(b, j - 1) /\ Total(c, j) = Total(c, j - 1)
        BY <2>2, <2>5, <3>3
      <4> QED BY <1>6, <2>1, <2>4, <3>1, <4>1
    <3> QED BY <3>2, <3>3
  <2> QED BY <1>0, <2>6, <2>7
<1>9. \A j \in 0 .. n : j \in T
  BY <1>0, <1>7, <1>8, Throughout
<1>10. n \in T /\ H(n) = q /\ q \in 0 .. n /\ n \in 0 .. n
  BY <1>0, <1>9
<1>11. PICK x \in Int : x = Total(c, n) - q /\ Total(c, n) \in Int
  BY <1>0, <1>5, <1>10 DEF SumsUp
<1>12. Total(b, n) \in Int /\ Total(a, q) \in Int
  BY <1>5, <1>10 DEF SumsUp
<1>13. Total(b, n) - Total(a, q) >= M[x]
  BY <1>6, <1>10, <1>11
<1>14. M[x] \in Int /\ (x >= 0 => M[x] >= 0)
  BY <1>3, <1>4
<1>15. ~(x >= 0)
  BY <1>0, <1>12, <1>13, <1>14
<1> QED BY <1>0, <1>11, <1>15

(* What is checked follows.                                                    *)
LEMMA NoneAsksForMore ==
  ASSUME LoadsIInv
  PROVE  AllOrNothing
<1>0. shape \in [Requests -> Shapes] /\ loads \in Seq(Requests) /\ total_used <= total_avaliable
  BY DEF LoadsIInv, LoadsTypeOK
<1>1. ASSUME NEW n \in Amounts, Extras(Kept(loads), n) > 0
      PROVE  Used(Kept(loads), n) \in {n, Total(Mins(loads), Supported(Kept(loads), n))}
  <2>1. PICK s : s = Kept(loads)
    OBVIOUS
  <2>2. KeepsFirst(s, loads)
    BY <1>0, <2>1, KeptIs
  <2>3. s \in Seq(Requests) /\ n \in Nat
    BY <2>2, AmountsAssumption DEF KeepsFirst
  <2>4. PICK k : k = Supported(s, n)
    OBVIOUS
  <2>5. k \in 0 .. Len(s) /\ Len(s) \in 0 .. Len(loads)
    BY <1>0, <2>2, <2>3, <2>4, SupportedIs DEF IsServed, KeepsFirst
  <2>6. Used(s, n) \in {n, Total(Mins(s), k)}
    BY <1>0, <1>1, <2>1, <2>3, <2>4, AllDivided DEF Divides
  <2>7. Total(Mins(s), k) = Total(Mins(loads), k)
    <3>1. \A i \in 1 .. Len(loads) : Mins(loads)[i] = MinOf(loads[i]) /\ Mins(loads)[i] \in Nat
      BY <1>0, MinsTyped
    <3>2. \A i \in 1 .. Len(s) : Mins(s)[i] = MinOf(s[i]) /\ Mins(s)[i] \in Nat
      BY <1>0, <2>3, MinsTyped
    <3>3. \A i \in 1 .. Len(s) : s[i] = loads[i] /\ i \in 1 .. Len(loads)
      BY <2>2, <2>5 DEF KeepsFirst
    <3>4. PICK f : f = Mins(loads)
      OBVIOUS
    <3>5. PICK g : g = Mins(s)
      OBVIOUS
    <3>6. \A i \in 1 .. Len(s) : f[i] \in Int
      BY <3>1, <3>3, <3>4
    <3>7. \A i \in 1 .. Len(s) : g[i] = f[i]
      BY <3>1, <3>2, <3>3, <3>4, <3>5
    <3>8. Len(s) \in Nat
      BY <2>3
    <3>9. \A j \in 0 .. Len(s) : Total(g, j) = Total(f, j)
      BY <3>6, <3>7, <3>8, SameTotal
    <3> QED BY <2>5, <3>4, <3>5, <3>9
  <2> QED BY <2>1, <2>4, <2>6, <2>7
<1> QED BY <1>0, <1>1 DEF AllOrNothing

(* So what is kept of the multiset is ascending.                               *)
LEMMA OrderSeen ==
  ASSUME LoadsIInv
  PROVE  Ascending
<1>1. loads \in Seq(Requests) /\ (~changed => Sorted(loads))
  BY DEF LoadsIInv, LoadsTypeOK
<1>2. PICK s : s = Kept(loads)
  OBVIOUS
<1>3. KeepsFirst(s, loads)
  BY <1>1, <1>2, KeptIs
<1>4. Len(s) \in 0 .. Len(loads) /\ Len(loads) \in Nat /\ \A i \in 1 .. Len(s) : loads[i] \in alive
  BY <1>1, <1>3 DEF KeepsFirst, AliveTo
<1>5. ASSUME ~changed, NEW i \in 1 .. Len(s), NEW j \in 1 .. Len(s), i < j
      PROVE  MinOf(loads[i]) <= MinOf(loads[j])
  <2>1. j \in 1 .. Len(loads) /\ i \in 1 .. j /\ \A m \in 1 .. j : m \in 1 .. Len(s)
    BY <1>4, <1>5
  <2>2. AliveTo(loads, j)
    BY <1>3, <2>1 DEF KeepsFirst, AliveTo
  <2> QED BY <1>1, <1>5, <2>1, <2>2 DEF Sorted
<1> QED BY <1>2, <1>5 DEF Ascending

(* And no choice of what is kept could serve more requests than the walk does. *)
LEMMA NoneServesMore ==
  ASSUME LoadsIInv
  PROVE  MostServed
<1>0. shape \in [Requests -> Shapes] /\ loads \in Seq(Requests) /\ Len(loads) \in Nat
  BY DEF LoadsIInv, LoadsTypeOK
<1>1. PICK s : s = Kept(loads)
  OBVIOUS
<1>2. KeepsFirst(s, loads)
  BY <1>0, <1>1, KeptIs
<1>3. /\ s \in Seq(Requests) /\ Len(s) \in 0 .. Len(loads) /\ DOMAIN s = 1 .. Len(s)
      /\ \A i \in 1 .. Len(s) : s[i] = loads[i] /\ s[i] \in alive
  BY <1>0, <1>2 DEF KeepsFirst, AliveTo
<1>4. SUFFICES ASSUME ~changed, NEW n \in Amounts, NEW S \in SUBSET DOMAIN s,
                      Total([i \in DOMAIN loads |-> IF i \in S THEN MinOf(loads[i]) ELSE 0], Len(loads)) < n
               PROVE  Cardinality(S) <= Supported(s, n)
  BY <1>1 DEF MostServed
<1>5. PICK k : k = Supported(s, n)
  OBVIOUS
<1>6. n \in Nat /\ IsServed(s, n, k)
  BY <1>0, <1>3, <1>5, SupportedIs, AmountsAssumption
<1>7. k \in 0 .. Len(s) /\ k \in Nat /\ Len(s) \in Nat /\ S \in SUBSET (1 .. Len(s))
  BY <1>0, <1>3, <1>6 DEF IsServed
<1>8. Cardinality(S) \in Nat /\ Cardinality(S) <= Len(s)
  <2>1. IsFiniteSet(1 .. Len(s)) /\ Cardinality(1 .. Len(s)) = Len(s)
    <3>1. PICK m \in Nat : m = Len(s)
      BY <1>7
    <3>2. /\ IsFiniteSet(1 .. m)
          /\ Cardinality(1 .. m) = IF 1 > m THEN 0 ELSE m - 1 + 1
      BY FS_Interval
    <3> QED BY <3>1, <3>2
  <2> QED BY <1>7, <2>1, FS_Subset, FS_CardinalityType
<1>9. CASE k = Len(s)
  BY <1>5, <1>8, <1>9
<1>10. CASE k # Len(s)
  <2>1. PICK q : q = k + 1
    OBVIOUS
  <2>2. q \in 1 .. Len(s) /\ q - 1 = k /\ k < Len(s)
    BY <1>7, <1>10, <2>1
  <2>3. ~Fits(s, n, q)
    BY <1>6, <2>1, <2>2 DEF IsServed
  <2>4. PICK a : a = Mins(loads)
    OBVIOUS
  <2>5. PICK b : b = [i \in DOMAIN loads |-> IF i \in S THEN MinOf(loads[i]) ELSE 0]
    OBVIOUS
  <2>6. PICK c : c = [i \in 1 .. Len(loads) |-> IF i \in S THEN 1 ELSE 0]
    OBVIOUS
  <2>7. \A i \in 1 .. Len(loads) : a[i] = MinOf(loads[i]) /\ a[i] \in Nat
    BY <1>0, <2>4, MinsTyped
  <2>8. \A i \in 1 .. Len(loads) : b[i] = (IF i \in S THEN a[i] ELSE 0) /\ c[i] = (IF i \in S THEN 1 ELSE 0)
    BY <1>0, <2>5, <2>6, <2>7
  <2>9. \A i, j \in 1 .. Len(s) : i <= j => a[i] <= a[j]
    <3>1. ASSUME NEW i \in 1 .. Len(s), NEW j \in 1 .. Len(s), i <= j PROVE a[i] <= a[j]
      <4>1. i \in 1 .. Len(loads) /\ j \in 1 .. Len(loads)
        BY <1>0, <1>3
      <4>2. CASE i = j
        BY <2>7, <4>1, <4>2
      <4>3. CASE i # j
        <5>1. i < j
          BY <3>1, <4>3
        <5>2. MinOf(loads[i]) <= MinOf(loads[j])
          BY <1>1, <1>4, <5>1, OrderSeen DEF Ascending
        <5> QED BY <2>7, <4>1, <5>2
      <4> QED BY <4>2, <4>3
    <3> QED BY <3>1
  <2>10. Total(b, Len(loads)) < Total(a, q)
    <3>1. n <= Total(a, q)
      <4>1. PICK m : m = Mins(s)
        OBVIOUS
      <4>2. \A i \in 1 .. Len(s) : m[i] = MinOf(s[i]) /\ m[i] \in Nat
        BY <1>0, <1>3, <4>1, MinsTyped
      <4>3. \A i \in 1 .. Len(s) : m[i] \in Int
        BY <4>2
      <4>4. \A i \in 1 .. Len(s) : a[i] = m[i]
        <5>1. \A i \in 1 .. Len(s) : i \in 1 .. Len(loads)
          BY <1>0, <1>3
        <5> QED BY <1>3, <2>7, <4>2, <5>1
      <4>5. \A j \in 0 .. Len(s) : Total(a, j) = Total(m, j)
        BY <1>7, <4>3, <4>4, SameTotal
      <4>6. SumsUp(m, Len(s))
        BY <1>7, <4>3, Totals
      <4>7. Total(m, q) = Total(m, k) + m[q] /\ Total(m, k) \in Int
        BY <1>7, <2>2, <4>6 DEF SumsUp
      <4>8. s[q] \in alive /\ m[q] = MinOf(s[q]) /\ MinOf(s[q]) \in Nat
        BY <1>3, <2>2, <4>2
      <4>9. ~(MinOf(s[q]) < n - Total(m, k))
        BY <2>2, <2>3, <4>1, <4>8 DEF Fits
      <4>10. n <= Total(m, q)
        BY <1>6, <4>7, <4>8, <4>9
      <4>11. q \in 0 .. Len(s)
        BY <2>2
      <4> QED BY <4>5, <4>10, <4>11
    <3>2. Total(b, Len(loads)) < n
      BY <1>4, <2>5
    <3>3. Total(b, Len(loads)) \in Int
      <4>1. \A i \in 1 .. Len(loads) : b[i] \in Int
        BY <2>7, <2>8
      <4>2. SumsUp(b, Len(loads))
        BY <1>0, <4>1, Totals
      <4>3. Len(loads) \in 0 .. Len(loads)
        BY <1>0
      <4> QED BY <4>2, <4>3 DEF SumsUp
    <3>4. Total(a, q) \in Int
      <4>1. \A i \in 1 .. Len(loads) : a[i] \in Int
        BY <2>7
      <4>2. SumsUp(a, Len(loads))
        BY <1>0, <4>1, Totals
      <4>3. q \in 0 .. Len(loads)
        BY <1>3, <2>2
      <4> QED BY <4>2, <4>3 DEF SumsUp
    <3> QED BY <1>6, <3>1, <3>2, <3>3, <3>4
  <2>11. Fewer(Len(loads), Len(s), q, a, S, b, c)
    <3>1. \A i \in 1 .. Len(loads) : a[i] \in Nat
      BY <2>7
    <3> QED BY <1>0, <1>3, <1>7, <2>2, <2>8, <2>9, <2>10, <3>1 DEF Fewer
  <2>12. Total(c, Len(loads)) \in Int /\ Total(c, Len(loads)) < q
    BY <2>11, Greedy
  <2>13. Cardinality(S) = Total(c, Len(loads))
    <3>1. S \in SUBSET (1 .. Len(loads))
      BY <1>3, <1>7
    <3>2. \A i \in 1 .. Len(loads) : c[i] = IF i \in S THEN 1 ELSE 0
      BY <2>8
    <3> QED BY <1>0, <3>1, <3>2, CountsUp
  <2> QED BY <1>5, <1>7, <2>1, <2>12, <2>13
<1> QED BY <1>9, <1>10

(* The inductive invariant of the distributor holds.                           *)
THEOREM LoadsReachable == SpecLoads => []LoadsIInv
<1> QED BY LoadsInitially, LoadsStep, PTL DEF SpecLoads

(* Whatever the owners of the requests do: never more is used than there is;   *)
(* one load gets all that is left or none gets any of it; and as long as no    *)
(* owner changes what it asks for, the loads are ordered, and no other choice  *)
(* would serve more of them.                                                   *)
THEOREM LoadsHold == SpecLoads => []LoadsInv
<1>1. LoadsIInv => LoadsInv
  BY NoneAsksForMore, OrderSeen, NoneServesMore DEF LoadsInv, LoadsIInv
<1> QED BY <1>1, LoadsReachable, PTL

-----------------------------------------------------------------------------
(* Codec: messages as stacks of cells.                                         *)

(* A cell of a body: how many bytes, and of what value.                        *)
Cells == Nat \X Int
Reader(b, o) == [body |-> b, obj |-> o, ok |-> TRUE]

(* What is read of c is v, and b is left.                                      *)
Reads(c, size, v, b) == (\A old : Value(c, size, old) = v) /\ Rest(c, size) = b

(* The value that was appended last is the one that is read, and the body      *)
(* before it is the rest.                                                      *)
LEMMA AlignedRead ==
  ASSUME NEW b \in Seq(Cells), NEW size \in Nat, NEW v \in Int,
         NEW c, c = Append(b, <<size, v>>)
  PROVE  Reads(c, size, v, b)
<1>1. <<size, v>> \in Cells
  BY DEF Cells
<1>2. c \in Seq(Cells) /\ Len(c) = Len(b) + 1 /\ Len(b) \in Nat /\ c[Len(b) + 1] = <<size, v>>
  BY <1>1, Appended
<1>3. Last(c) = <<size, v>>
  BY <1>2 DEF Last
<1>4. c # <<>>
  BY <1>2
<1>5. Aligned(c, size)
  BY <1>3, <1>4 DEF Aligned
<1>6. \A old : Value(c, size, old) = v
  BY <1>3, <1>5 DEF Value
<1>7. Front(c) = b
  <2>1. PICK n : n = Len(c) - 1
    OBVIOUS
  <2>2. n = Len(b) /\ n \in Nat
    BY <1>2, <2>1
  <2>3. PICK t : t = SubSeq(c, 1, n)
    OBVIOUS
  <2>4. \A i \in 1 .. n : c[i] = b[i] /\ c[i] \in Cells
    <3>1. \A i \in 1 .. Len(b) : c[i] = b[i]
      BY <1>1, Appended
    <3> QED BY <2>2, <3>1
  <2>5. t = [i \in 1 .. n |-> c[i]]
    BY <1>2, <2>2, <2>3, <2>4
  <2>6. b = [i \in 1 .. n |-> b[i]]
    BY <2>2
  <2>7. t = b
    BY <2>4, <2>5, <2>6
  <2> QED BY <2>1, <2>3, <2>7 DEF Front
<1>8. Rest(c, size) = b
  BY <1>5, <1>7 DEF Rest
<1> QED BY <1>6, <1>8 DEF Reads

(* Reading the one field that was pushed last.                                 *)
PopsOne(c, size, v, b) ==
  \A o, x : Pop(Reader(c, o), <<<<x, size>>>>) = Reader(b, [o EXCEPT ![x] = v])

(* One value that was pushed is popped as it was.                              *)
LEMMA PopOne ==
  ASSUME NEW b \in Seq(Cells), NEW size \in Nat, NEW v \in Int, NEW c, c = Append(b, <<size, v>>)
  PROVE  PopsOne(c, size, v, b)
<1> SUFFICES ASSUME NEW o, NEW x
             PROVE  Pop(Reader(c, o), <<<<x, size>>>>) = Reader(b, [o EXCEPT ![x] = v])
  BY DEF PopsOne
<1>2. PICK r : r = Reader(c, o)
  OBVIOUS
<1>3. PICK u : u = Reader(b, [o EXCEPT ![x] = v])
  OBVIOUS
<1>4. PICK fields : fields = <<<<x, size>>>>
  OBVIOUS
<1>5. Len(fields) = 1 /\ fields[1][1] = x /\ fields[1][2] = size
  BY <1>4
<1> DEFINE St(q, i) == [q EXCEPT !.body = Rest(q.body, fields[i][2]),
                                 !.obj[fields[i][1]] = Value(q.body, fields[i][2], @)]
<1>6. St(r, 1) = u
  <2>1. r.body = c /\ r.obj = o
    BY <1>2 DEF Reader
  <2>2. Reads(c, size, v, b)
    BY AlignedRead
  <2>3. Rest(r.body, fields[1][2]) = b /\ \A old : Value(r.body, fields[1][2], old) = v
    BY <1>5, <2>1, <2>2 DEF Reads
  <2>4. PICK r1 : r1 = [r EXCEPT !.body = Rest(r.body, fields[1][2])]
    OBVIOUS
  <2>5. r1 = [body |-> b, obj |-> o, ok |-> TRUE]
    BY <1>2, <2>3, <2>4 DEF Reader
  <2>6. r1.obj = o /\ [r1 EXCEPT !.obj = [o EXCEPT ![x] = v]] = u
    <3>1. PICK w : w = [o EXCEPT ![x] = v]
      OBVIOUS
    <3>2. u = [body |-> b, obj |-> w, ok |-> TRUE]
      BY <1>3, <3>1 DEF Reader
    <3>3. PICK z : z = [r1 EXCEPT !.obj = w]
      OBVIOUS
    <3>4. z = [body |-> b, obj |-> w, ok |-> TRUE]
      BY <2>5, <3>3
    <3> QED BY <2>5, <3>1, <3>2, <3>3, <3>4
  <2> QED BY <1>5, <2>3, <2>4, <2>6
<1> HIDE DEF St
<1>7. PICK h : h = [k \in 0 .. 1 |-> IF k = 0 THEN r ELSE u]
  OBVIOUS
<1>8. h = [k \in 0 .. 1 |-> IF k = 0 THEN r ELSE St(h[k - 1], k)]
  BY <1>6, <1>7
<1>9. PICK g : g = CHOOSE f : f = [k \in 0 .. 1 |-> IF k = 0 THEN r ELSE St(f[k - 1], k)]
  OBVIOUS
<1>10. g = [k \in 0 .. 1 |-> IF k = 0 THEN r ELSE St(g[k - 1], k)]
  BY <1>8, <1>9
<1>11. g[1] = u
  BY <1>6, <1>10
<1>12. Pop(r, fields) = g[1]
  BY <1>5, <1>9 DEF Pop, Repeat, St
<1> QED BY <1>2, <1>3, <1>4, <1>11, <1>12

(* Reading no field.                                                           *)
LEMMA PopNone ==
  ASSUME NEW r
  PROVE  Pop(r, <<>>) = r
<1> DEFINE fields == <<>>
           St(q, i) == [q EXCEPT !.body = Rest(q.body, fields[i][2]),
                                 !.obj[fields[i][1]] = Value(q.body, fields[i][2], @)]
<1>1. Len(fields) = 0
  OBVIOUS
<1>2. PICK g : g = CHOOSE f : f = [k \in 0 .. 0 |-> IF k = 0 THEN r ELSE St(f[k - 1], k)]
  OBVIOUS
<1>3. Pop(r, fields) = g[0]
  BY <1>1, <1>2 DEF Pop, Repeat
<1> HIDE DEF St
<1>4. PICK h : h = [k \in 0 .. 0 |-> r]
  OBVIOUS
<1>5. h = [k \in 0 .. 0 |-> IF k = 0 THEN r ELSE St(h[k - 1], k)]
  BY <1>4
<1>6. g = [k \in 0 .. 0 |-> IF k = 0 THEN r ELSE St(g[k - 1], k)]
  BY <1>2, <1>5
<1>7. g[0] = r
  BY <1>6
<1> QED BY <1>3, <1>7

(* What a bank and a source hold, as long as the gradients are linear curves.  *)
Banks == [capacity : Nat, value : Nat]
Sources == [throttle_n : Nat, gen_g : {CurveOf(1)}, con_g : {CurveOf(1)},
            maxGenerate : Nat, maxConsumption : Nat, fuel : Nat]
Holds(fields, o) == \/ fields = BankFields /\ o \in Banks
                    \/ fields = SourceFields /\ o \in Sources

(* A linear curve packs nothing and unpacks nothing.                           *)
LEMMA LinearIsEmpty ==
  ASSUME NEW b \in Seq(Cells)
  PROVE  PackCurve(b, CurveOf(1)) = b /\ UnpackCurve(b, CurveOf(1)) = Reader(b, CurveOf(1))
<1>1. CurveOf(1).class = 1 /\ CurveFields[1] = <<>>
  BY DEF CurveOf, CurveFields
<1>2. PackCurve(b, CurveOf(1)) = b
  <2>1. PICK e : e = [i \in 1 .. 0 |-> <<CurveFields[1][i][2], CurveOf(1)[CurveFields[1][i][1]]>>]
    OBVIOUS
  <2>2. e = <<>>
    BY <2>1
  <2>3. b \o e = b
    BY <2>2
  <2>4. Len(CurveFields[1]) = 0
    BY <1>1
  <2> QED BY <1>1, <2>1, <2>3, <2>4 DEF PackCurve, Push
<1>3. Reverse(<<>>) = <<>>
  BY DEF Reverse
<1>4. UnpackCurve(b, CurveOf(1)) = Reader(b, CurveOf(1))
  BY <1>1, <1>3, PopNone DEF UnpackCurve, Reader
<1> QED BY <1>2, <1>4

(* One field of a part is read as it was pushed.                               *)
ReadsField(p, b, o, c, fields, t) ==
  p \in Seq(Cells) /\ UnpackField(Reader(p, c), fields, t) = Reader(b, [c EXCEPT ![fields[t][1]] = o[fields[t][1]]])

(* A field that was packed is read into the copy.                              *)
LEMMA FieldRead ==
  ASSUME NEW fields, NEW o, NEW c, Holds(fields, o), Holds(fields, c), NEW t \in 1 .. Len(fields),
         NEW b \in Seq(Cells)
  PROVE  ReadsField(PackField(b, o, fields, t), b, o, c, fields, t)
<1>1. PICK p : p = PackField(b, o, fields, t)
  OBVIOUS
<1>2. PICK x : x = fields[t][1]
  OBVIOUS
<1>3. PICK size : size = fields[t][2]
  OBVIOUS
<1>4. CASE fields = SourceFields /\ t \in Gradients
  <2>1. x \in {"gen_g", "con_g"} /\ o \in Sources /\ c \in Sources
    BY <1>2, <1>4 DEF Gradients, SourceFields, Holds, BankFields
  <2>2. o[x] = CurveOf(1) /\ c[x] = CurveOf(1)
    BY <2>1 DEF Sources
  <2>3. p = b
    BY <1>1, <1>2, <1>4, <2>2, LinearIsEmpty DEF PackField
  <2>4. PICK r : r = Reader(b, c)
    OBVIOUS
  <2>5. r.body = b /\ r.obj = c
    BY <2>4 DEF Reader
  <2>6. PICK u : u = Reader(b, CurveOf(1))
    OBVIOUS
  <2>7. u = UnpackCurve(b, c[x])
    BY <2>2, <2>6, LinearIsEmpty
  <2>8. UnpackField(r, fields, t) = Into(r, x, u)
    BY <1>2, <1>4, <2>5, <2>7 DEF UnpackField
  <2>9. PICK z : z = Into(r, x, u)
    OBVIOUS
  <2>10. PICK w : w = [c EXCEPT ![x] = CurveOf(1)]
    OBVIOUS
  <2>11. u = [body |-> b, obj |-> CurveOf(1), ok |-> TRUE] /\ u.obj = CurveOf(1)
    BY <2>6 DEF Reader
  <2>12. z = [u EXCEPT !.obj = w]
    BY <2>5, <2>9, <2>10, <2>11 DEF Into
  <2>13. z = [body |-> b, obj |-> w, ok |-> TRUE]
    BY <2>11, <2>12
  <2> QED BY <1>1, <1>2, <2>2, <2>3, <2>4, <2>8, <2>9, <2>10, <2>13 DEF ReadsField, Reader
<1>5. CASE ~(fields = SourceFields /\ t \in Gradients)
  <2>1. size \in Nat /\ o[x] \in Nat /\ fields[t] = <<x, size>>
    <3>1. CASE fields = BankFields
      <4>1. t \in 1 .. 2
        BY <3>1 DEF BankFields
      <4>2. x \in {"capacity", "value"} /\ size = 8 /\ fields[t] = <<x, size>>
        BY <1>2, <1>3, <3>1, <4>1 DEF BankFields
      <4>3. o \in Banks
        BY <3>1 DEF Holds, BankFields, SourceFields
      <4> QED BY <4>2, <4>3 DEF Banks
    <3>2. CASE fields = SourceFields
      <4>1. t \in {1, 4, 5, 6}
        BY <1>5, <3>2 DEF SourceFields, Gradients
      <4>2. x \in {"throttle_n", "maxGenerate", "maxConsumption", "fuel"} /\ size \in {4, 8} /\ fields[t] = <<x, size>>
        BY <1>2, <1>3, <3>2, <4>1 DEF SourceFields
      <4>3. o \in Sources
        BY <3>2 DEF Holds, BankFields, SourceFields
      <4> QED BY <4>2, <4>3 DEF Sources
    <3> QED BY <3>1, <3>2 DEF Holds
  <2>2. p = Append(b, <<size, o[x]>>)
    <3>1. PICK one : one = <<<<x, size>>>>
      OBVIOUS
    <3>2. p = Push(b, o, one)
      BY <1>1, <1>5, <2>1, <3>1 DEF PackField
    <3>3. Len(one) = 1 /\ one[1][1] = x /\ one[1][2] = size
      BY <3>1
    <3>4. PICK e : e = [i \in 1 .. 1 |-> <<one[i][2], o[one[i][1]]>>]
      OBVIOUS
    <3>5. e = <<<<size, o[x]>>>>
      BY <3>3, <3>4
    <3>6. p = b \o e
      BY <3>2, <3>3, <3>4 DEF Push
    <3> QED BY <3>5, <3>6
  <2>3. p \in Seq(Cells)
    <3>1. <<size, o[x]>> \in Cells
      BY <2>1 DEF Cells
    <3> QED BY <2>2, <3>1, Appended
  <2>4. UnpackField(Reader(p, c), fields, t) = Pop(Reader(p, c), <<<<x, size>>>>)
    BY <1>5, <2>1 DEF UnpackField
  <2>5. Pop(Reader(p, c), <<<<x, size>>>>) = Reader(b, [c EXCEPT ![x] = o[x]])
    <3>1. PICK v \in Int : v = o[x]
      BY <2>1
    <3>2. size \in Nat /\ p = Append(b, <<size, v>>)
      BY <2>1, <2>2, <3>1
    <3>3. PopsOne(p, size, v, b)
      BY <3>2, PopOne
    <3> QED BY <3>1, <3>3 DEF PopsOne
  <2> QED BY <1>1, <1>2, <2>3, <2>4, <2>5 DEF ReadsField
<1> QED BY <1>4, <1>5

(* The body after each of the targets that are packed.                         *)
Packs(P, body, o, fields, order) ==
  /\ P \in [0 .. Len(order) -> Seq(Cells)] /\ P[0] = body
  /\ \A k \in 1 .. Len(order) :
       P[k] = Append(PackField(P[k - 1], o, fields, order[k]), <<1, order[k]>>)
IsPacked(p, body, o, fields, order) ==
  \E P : Packs(P, body, o, fields, order) /\ p = Append(P[Len(order)], <<1, Len(order)>>)

(* Packing the targets appends each of them in the order given, and their      *)
(* number at last.                                                             *)
LEMMA PacksTargets ==
  ASSUME NEW fields, NEW o, Holds(fields, o), NEW order \in Seq(1 .. Len(fields)), NEW body \in Seq(Cells)
  PROVE  IsPacked(packTargets(body, o, fields, order), body, o, fields, order)
<1>1. PICK n \in Nat : n = Len(order)
  OBVIOUS
<1> DEFINE St(b, i) == Append(PackField(b, o, fields, order[i]), <<1, order[i]>>)
<1>2. PICK S : S = Seq(Cells)
  OBVIOUS
<1>3. ASSUME NEW b \in S, NEW i \in 1 .. n PROVE St(b, i) \in S
  <2>1. order[i] \in 1 .. Len(fields)
    BY <1>1
  <2>2. PackField(b, o, fields, order[i]) \in Seq(Cells)
    BY <1>2, <2>1, FieldRead DEF ReadsField
  <2>3. <<1, order[i]>> \in Cells
    BY <2>1 DEF Cells
  <2> QED BY <1>2, <2>2, <2>3, Appended
<1>4. PICK R : R = [i \in 1 .. n |-> [b \in S |-> St(b, i)]]
  OBVIOUS
<1>5. \A i \in 1 .. n : R[i] \in [S -> S]
  BY <1>3, <1>4
<1>6. PICK P \in [0 .. n -> S] : Runs(P, body, R, n)
  BY <1>2, <1>5, Iterates
<1> HIDE DEF St
<1>7. P[0] = body /\ \A i \in 1 .. n : P[i] = St(P[i - 1], i)
  <2>1. ASSUME NEW i \in 1 .. n PROVE P[i] = St(P[i - 1], i)
    <3>1. i - 1 \in 0 .. n
      OBVIOUS
    <3>2. P[i - 1] \in S
      BY <3>1
    <3> QED BY <1>4, <1>6, <3>2 DEF Runs
  <2> QED BY <1>6, <2>1 DEF Runs
<1>8. P = [i \in 0 .. n |-> IF i = 0 THEN body ELSE St(P[i - 1], i)]
  <2>1. \A i \in 0 .. n : i = 0 \/ (i \in 1 .. n /\ i # 0)
    OBVIOUS
  <2> QED BY <1>7, <2>1
<1>9. PICK g : g = CHOOSE h : h = [i \in 0 .. n |-> IF i = 0 THEN body ELSE St(h[i - 1], i)]
  OBVIOUS
<1>10. g = [i \in 0 .. n |-> IF i = 0 THEN body ELSE St(g[i - 1], i)]
  BY <1>8, <1>9
<1>11. packTargets(body, o, fields, order) = Append(g[n], <<1, n>>)
  BY <1>1, <1>9 DEF packTargets, Repeat, St
<1>12. PICK T : T = {i \in 0 .. n : g[i] = P[i]}
  OBVIOUS
<1>13. 0 \in T
  BY <1>7, <1>10, <1>12
<1>14. ASSUME NEW i \in 1 .. n, i - 1 \in T PROVE i \in T
  <2>1. i \in 0 .. n /\ i # 0
    OBVIOUS
  <2>2. g[i] = St(g[i - 1], i) /\ P[i] = St(P[i - 1], i)
    BY <1>7, <1>10, <2>1
  <2> QED BY <1>12, <1>14, <2>1, <2>2
<1>15. \A i \in 0 .. n : i \in T
  BY <1>13, <1>14, Throughout
<1>16. g[n] = P[n]
  BY <1>12, <1>15
<1>17. Packs(P, body, o, fields, order)
  BY <1>1, <1>2, <1>6, <1>7 DEF Packs, St
<1> QED BY <1>1, <1>11, <1>16, <1>17 DEF IsPacked

(* No two types have the same field.                                           *)
LEMMA FieldsDiffer ==
  ASSUME NEW fields, NEW o, Holds(fields, o), NEW t \in 1 .. Len(fields), NEW k \in 1 .. Len(fields),
         fields[t][1] = fields[k][1]
  PROVE  t = k
<1>1. CASE fields = BankFields
  <2>1. t \in {1, 2} /\ k \in {1, 2}
    BY <1>1 DEF BankFields
  <2>2. fields[1][1] = "capacity" /\ fields[2][1] = "value"
    BY <1>1 DEF BankFields
  <2> QED BY <2>1, <2>2
<1>2. CASE fields = SourceFields
  <2>1. t \in {1, 2, 3, 4, 5, 6} /\ k \in {1, 2, 3, 4, 5, 6}
    BY <1>2 DEF SourceFields
  <2>2. /\ fields[1][1] = "throttle_n" /\ fields[2][1] = "gen_g" /\ fields[3][1] = "con_g"
        /\ fields[4][1] = "maxGenerate" /\ fields[5][1] = "maxConsumption" /\ fields[6][1] = "fuel"
    BY <1>2 DEF SourceFields
  <2>3. CASE t = 1
    BY <2>1, <2>2, <2>3
  <2>4. CASE t = 2
    BY <2>1, <2>2, <2>4
  <2>5. CASE t = 3
    BY <2>1, <2>2, <2>5
  <2>6. CASE t = 4
    BY <2>1, <2>2, <2>6
  <2>7. CASE t = 5
    BY <2>1, <2>2, <2>7
  <2>8. CASE t = 6
    BY <2>1, <2>2, <2>8
  <2> QED BY <2>1, <2>3, <2>4, <2>5, <2>6, <2>7, <2>8
<1> QED BY <1>1, <1>2 DEF Holds

(* Replacing a field by that of another object of the sort.                    *)
Takes(u, o, c, fields, t) ==
  /\ Holds(fields, u)
  /\ \A k \in 1 .. Len(fields) : u[fields[k][1]] = IF k = t THEN o[fields[k][1]] ELSE c[fields[k][1]]

(* A copy that takes one field has the value of the original there and its own *)
(* elsewhere.                                                                  *)
LEMMA FieldTaken ==
  ASSUME NEW fields, NEW o, NEW c, Holds(fields, o), Holds(fields, c), NEW t \in 1 .. Len(fields),
         NEW u, u = [c EXCEPT ![fields[t][1]] = o[fields[t][1]]]
  PROVE  Takes(u, o, c, fields, t)
<1>1. CASE fields = BankFields
  <2>1. t \in {1, 2} /\ Len(fields) = 2 /\ o \in Banks /\ c \in Banks
    BY <1>1 DEF BankFields, SourceFields, Holds
  <2>2. fields[1][1] = "capacity" /\ fields[2][1] = "value"
    BY <1>1 DEF BankFields
  <2>3. CASE t = 1
    <3>1. u = [c EXCEPT !["capacity"] = o["capacity"]]
      BY <2>2, <2>3
    <3>2. u \in Banks /\ u["capacity"] = o["capacity"] /\ u["value"] = c["value"]
      BY <2>1, <3>1 DEF Banks
    <3> QED BY <1>1, <2>1, <2>2, <2>3, <3>2 DEF Holds, Takes
  <2>4. CASE t = 2
    <3>1. u = [c EXCEPT !["value"] = o["value"]]
      BY <2>2, <2>4
    <3>2. u \in Banks /\ u["value"] = o["value"] /\ u["capacity"] = c["capacity"]
      BY <2>1, <3>1 DEF Banks
    <3> QED BY <1>1, <2>1, <2>2, <2>4, <3>2 DEF Holds, Takes
  <2> QED BY <2>1, <2>3, <2>4
<1>2. CASE fields = SourceFields
  <2>1. t \in {1, 2, 3, 4, 5, 6} /\ Len(fields) = 6 /\ o \in Sources /\ c \in Sources
    BY <1>2 DEF BankFields, SourceFields, Holds
  <2>2. /\ fields[1][1] = "throttle_n" /\ fields[2][1] = "gen_g" /\ fields[3][1] = "con_g"
        /\ fields[4][1] = "maxGenerate" /\ fields[5][1] = "maxConsumption" /\ fields[6][1] = "fuel"
    BY <1>2 DEF SourceFields
  <2>4. ASSUME NEW k \in 1 .. 6
        PROVE  u[fields[k][1]] = IF k = t THEN o[fields[k][1]] ELSE c[fields[k][1]]
    <3>1. k \in {1, 2, 3, 4, 5, 6}
      OBVIOUS
    <3>2. fields[k][1] \in DOMAIN c
      BY <2>1, <2>2, <3>1 DEF Sources
    <3>3. k # t => fields[k][1] # fields[t][1]
      BY <2>1, <2>2, <3>1
    <3> QED BY <3>2, <3>3
  <2>3. u \in Sources
    <3>1. \A k \in {1, 2, 3, 4, 5, 6} : u[fields[k][1]] \in {o[fields[k][1]], c[fields[k][1]]}
      BY <2>4
    <3>2. /\ u["throttle_n"] \in Nat /\ u["gen_g"] = CurveOf(1) /\ u["con_g"] = CurveOf(1)
          /\ u["maxGenerate"] \in Nat /\ u["maxConsumption"] \in Nat /\ u["fuel"] \in Nat
      BY <2>1, <2>2, <3>1 DEF Sources
    <3>3. DOMAIN u = DOMAIN c
      OBVIOUS
    <3>4. u = [x \in DOMAIN c |-> u[x]]
      BY <3>3
    <3>5. DOMAIN c = {"throttle_n", "gen_g", "con_g", "maxGenerate", "maxConsumption", "fuel"}
      BY <2>1 DEF Sources
    <3> QED BY <3>2, <3>4, <3>5 DEF Sources
  <2> QED BY <1>2, <2>1, <2>3, <2>4 DEF Holds, Takes
<1> QED BY <1>1, <1>2 DEF Holds

(* One target is read: its type, and the field of that type.                   *)
Targeted(q, fields) ==
  LET t == Value(q.body, 1, 0)
  IN  IF q.ok /\ t \in 1 .. Len(fields)
      THEN UnpackField([q EXCEPT !.body = Rest(q.body, 1)], fields, t)
      ELSE [q EXCEPT !.ok = FALSE]
ReadsTarget(p, b, o, c, fields, t) ==
  Targeted(Reader(p, c), fields) = Reader(b, [c EXCEPT ![fields[t][1]] = o[fields[t][1]]])

(* One target that was packed is read: its number tells which field follows.   *)
LEMMA TargetRead ==
  ASSUME NEW fields, NEW o, NEW c, Holds(fields, o), Holds(fields, c), NEW t \in 1 .. Len(fields),
         NEW b \in Seq(Cells), NEW p, p = Append(PackField(b, o, fields, t), <<1, t>>)
  PROVE  ReadsTarget(p, b, o, c, fields, t)
<1>1. PICK f : f = PackField(b, o, fields, t)
  OBVIOUS
<1>2. ReadsField(f, b, o, c, fields, t)
  BY <1>1, FieldRead
<1>3. f \in Seq(Cells)
  BY <1>2 DEF ReadsField
<1>4. PICK v \in Int : v = t
  OBVIOUS
<1>5. Reads(p, 1, v, f)
  <2>1. p = Append(f, <<1, v>>) /\ 1 \in Nat
    BY <1>1, <1>4
  <2> QED BY <1>3, <2>1, AlignedRead
<1>6. PICK q : q = Reader(p, c)
  OBVIOUS
<1>7. q.ok = TRUE /\ q.body = p /\ q = [body |-> p, obj |-> c, ok |-> TRUE]
  BY <1>6 DEF Reader
<1>8. Value(q.body, 1, 0) = t /\ Rest(q.body, 1) = f
  BY <1>4, <1>5, <1>7 DEF Reads
<1>9. PICK z : z = [q EXCEPT !.body = f]
  OBVIOUS
<1>10. z = [body |-> f, obj |-> c, ok |-> TRUE]
  BY <1>7, <1>9
<1>11. Targeted(q, fields) = UnpackField(z, fields, t)
  BY <1>7, <1>8, <1>9 DEF Targeted
<1> QED BY <1>2, <1>6, <1>10, <1>11 DEF ReadsField, ReadsTarget, Reader

(* Of the types that were packed, the copy gets what was packed; the others    *)
(* stay as they were.                                                          *)
Merges(u, o, c, fields, T) ==
  /\ Holds(fields, u)
  /\ \A t \in 1 .. Len(fields) : u[fields[t][1]] = IF t \in T THEN o[fields[t][1]] ELSE c[fields[t][1]]

(* The copy after each of the targets that are read, from the last to the      *)
(* first that was packed.                                                      *)
Copies(C, o, c, fields, order) ==
  /\ C[0] = c /\ \A i \in 0 .. Len(order) : Holds(fields, C[i])
  /\ \A i \in 1 .. Len(order) :
       LET t == order[Len(order) + 1 - i]
       IN  C[i] = [C[i - 1] EXCEPT ![fields[t][1]] = o[fields[t][1]]]

(* Taking the fields one after the other merges the original into the copy.    *)
LEMMA CopiesMerge ==
  ASSUME NEW fields, NEW o, NEW c, Holds(fields, o), Holds(fields, c), NEW order \in Seq(1 .. Len(fields))
  PROVE  \E C : Copies(C, o, c, fields, order) /\ Merges(C[Len(order)], o, c, fields, ToSet(order))
<1>1. PICK n \in Nat : n = Len(order)
  OBVIOUS
<1>2. PICK S : S = IF fields = BankFields THEN Banks ELSE Sources
  OBVIOUS
<1>3. \A x : Holds(fields, x) <=> x \in S
  BY <1>2 DEF Holds, BankFields, SourceFields
<1> DEFINE At2(i) == order[n + 1 - i]
           St(x, i) == [x EXCEPT ![fields[At2(i)][1]] = o[fields[At2(i)][1]]]
<1>4. \A i \in 1 .. n : At2(i) \in 1 .. Len(fields)
  <2>1. \A i \in 1 .. n : n + 1 - i \in 1 .. n
    OBVIOUS
  <2> QED BY <1>1, <2>1
<1>5. ASSUME NEW x \in S, NEW i \in 1 .. n
      PROVE  /\ St(x, i) \in S
             /\ \A k \in 1 .. Len(fields) :
                  St(x, i)[fields[k][1]] = IF k = At2(i) THEN o[fields[k][1]] ELSE x[fields[k][1]]
  <2>1. PICK t \in 1 .. Len(fields) : t = At2(i)
    BY <1>4
  <2>2. PICK u : u = [x EXCEPT ![fields[t][1]] = o[fields[t][1]]]
    OBVIOUS
  <2>3. Holds(fields, x)
    BY <1>3
  <2>4. Takes(u, o, x, fields, t)
    BY <2>2, <2>3, FieldTaken
  <2>5. u = St(x, i)
    BY <2>1, <2>2
  <2> QED BY <1>3, <2>1, <2>4, <2>5 DEF Takes
<1>6. PICK R : R = [i \in 1 .. n |-> [x \in S |-> St(x, i)]]
  OBVIOUS
<1> HIDE DEF St
<1>7. \A i \in 1 .. n : R[i] \in [S -> S]
  BY <1>5, <1>6
<1>8. c \in S
  BY <1>3
<1>9. PICK C \in [0 .. n -> S] : Runs(C, c, R, n)
  BY <1>7, <1>8, Iterates
<1>10. C[0] = c /\ \A i \in 1 .. n : C[i] = St(C[i - 1], i) /\ C[i - 1] \in S
  <2>1. ASSUME NEW i \in 1 .. n PROVE C[i] = St(C[i - 1], i) /\ C[i - 1] \in S
    <3>1. i - 1 \in 0 .. n
      OBVIOUS
    <3>2. C[i - 1] \in S
      BY <3>1
    <3> QED BY <1>6, <1>9, <3>2 DEF Runs
  <2> QED BY <1>9, <2>1 DEF Runs
<1>11. Copies(C, o, c, fields, order)
  BY <1>1, <1>3, <1>10 DEF Copies, St
<1> DEFINE Read(i) == {order[j] : j \in n + 1 - i .. n}
<1>12. PICK T : T = {i \in 0 .. n : \A k \in 1 .. Len(fields) :
                       C[i][fields[k][1]] = IF k \in Read(i) THEN o[fields[k][1]] ELSE c[fields[k][1]]}
  OBVIOUS
<1>13. 0 \in T
  <2>1. Read(0) = {}
    OBVIOUS
  <2> QED BY <1>10, <1>12, <2>1
<1>14. ASSUME NEW i \in 1 .. n, i - 1 \in T PROVE i \in T
  <2>1. Read(i) = Read(i - 1) \cup {At2(i)}
    <3>1. n + 1 - i .. n = (n + 1 - (i - 1) .. n) \cup {n + 1 - i}
      OBVIOUS
    <3> QED BY <3>1
  <2>2. i \in 0 .. n
    OBVIOUS
  <2>3. ASSUME NEW k \in 1 .. Len(fields)
        PROVE  C[i][fields[k][1]] = IF k \in Read(i) THEN o[fields[k][1]] ELSE c[fields[k][1]]
    <3>1. C[i][fields[k][1]] = IF k = At2(i) THEN o[fields[k][1]] ELSE C[i - 1][fields[k][1]]
      <4> HIDE DEF At2
      <4>1. C[i] = St(C[i - 1], i) /\ C[i - 1] \in S
        BY <1>10
      <4>2. PICK x \in S : x = C[i - 1]
        BY <4>1
      <4>3. St(x, i)[fields[k][1]] = IF k = At2(i) THEN o[fields[k][1]] ELSE x[fields[k][1]]
        BY <1>5
      <4> QED BY <4>1, <4>2, <4>3
    <3>2. C[i - 1][fields[k][1]] = IF k \in Read(i - 1) THEN o[fields[k][1]] ELSE c[fields[k][1]]
      BY <1>12, <1>14
    <3> HIDE DEF Read, At2
    <3> QED BY <2>1, <3>1, <3>2
  <2> QED BY <1>12, <2>2, <2>3
<1>15. \A i \in 0 .. n : i \in T
  BY <1>13, <1>14, Throughout
<1>16. Read(n) = ToSet(order)
  <2>1. n + 1 - n = 1 /\ DOMAIN order = 1 .. n
    BY <1>1
  <2> QED BY <2>1 DEF ToSet
<1>17. n \in T /\ C[n] \in S
  BY <1>15
<1>18. Merges(C[n], o, c, fields, ToSet(order))
  BY <1>3, <1>12, <1>16, <1>17 DEF Merges
<1> QED BY <1>1, <1>11, <1>18

(* What packTargets packs, unpackTargets reads, in whatever order the types    *)
(* were packed.                                                                *)
ReadsTargets(p, body, o, c, fields, T) ==
  p \in Seq(Cells) /\ \E u : unpackTargets(Reader(p, c), fields) = Reader(body, u) /\ Merges(u, o, c, fields, T)

(* All the targets that were packed are read, and the body is as before them.  *)
LEMMA TargetsRead ==
  ASSUME NEW fields, NEW o, NEW c, Holds(fields, o), Holds(fields, c),
         NEW order \in Seq(1 .. Len(fields)), NEW body \in Seq(Cells)
  PROVE  ReadsTargets(packTargets(body, o, fields, order), body, o, c, fields, ToSet(order))
<1>1. PICK n \in Nat : n = Len(order)
  OBVIOUS
<1>2. PICK P : Packs(P, body, o, fields, order)
               /\ packTargets(body, o, fields, order) = Append(P[n], <<1, n>>)
  <2>1. IsPacked(packTargets(body, o, fields, order), body, o, fields, order)
    BY PacksTargets
  <2> QED BY <1>1, <2>1 DEF IsPacked
<1>3. PICK C : Copies(C, o, c, fields, order) /\ Merges(C[n], o, c, fields, ToSet(order))
  BY <1>1, CopiesMerge
<1>4. PICK p : p = packTargets(body, o, fields, order)
  OBVIOUS
<1>5. P \in [0 .. n -> Seq(Cells)] /\ P[n] \in Seq(Cells) /\ P[0] = body
  BY <1>1, <1>2 DEF Packs
<1>6. PICK v \in Int : v = n
  OBVIOUS
<1>7. p \in Seq(Cells) /\ Reads(p, 1, v, P[n])
  <2>1. p = Append(P[n], <<1, v>>) /\ 1 \in Nat /\ <<1, v>> \in Cells
    BY <1>2, <1>4, <1>6 DEF Cells
  <2>2. Reads(p, 1, v, P[n])
    BY <1>5, <2>1, AlignedRead
  <2> QED BY <1>5, <2>1, <2>2, Appended
<1>8. PICK r : r = Reader(p, c)
  OBVIOUS
<1>9. PICK a : a = Reader(P[n], c)
  OBVIOUS
<1>10. Value(r.body, 1, 0) = n /\ [r EXCEPT !.body = Rest(r.body, 1)] = a /\ n # Garbage
  <2>1. r = [body |-> p, obj |-> c, ok |-> TRUE] /\ r.body = p
    BY <1>8 DEF Reader
  <2>2. Value(r.body, 1, 0) = n /\ Rest(r.body, 1) = P[n]
    BY <1>6, <1>7, <2>1 DEF Reads
  <2>3. PICK z : z = [r EXCEPT !.body = Rest(r.body, 1)]
    OBVIOUS
  <2>4. z = [body |-> P[n], obj |-> c, ok |-> TRUE]
    BY <2>1, <2>2, <2>3
  <2>5. z = a
    BY <1>9, <2>4 DEF Reader
  <2>6. n # Garbage
    BY DEF Garbage
  <2> QED BY <2>2, <2>3, <2>5, <2>6
<1> DEFINE St(q, i) == Targeted(q, fields)
<1>11. PICK h : h = [i \in 0 .. n |-> Reader(P[n - i], C[i])]
  OBVIOUS
<1>12. h[0] = a /\ h[n] = Reader(body, C[n])
  <2>1. n - 0 = n /\ n - n = 0 /\ C[0] = c
    BY <1>3 DEF Copies
  <2> QED BY <1>5, <1>9, <1>11, <2>1
<1>13. ASSUME NEW i \in 1 .. n PROVE h[i] = St(h[i - 1], i)
  <2>1. PICK k \in 1 .. n : k = n + 1 - i
    OBVIOUS
  <2>2. /\ k - 1 \in 0 .. n /\ k \in 0 .. n /\ n - (i - 1) = k /\ n - i = k - 1
        /\ i - 1 \in 0 .. n /\ i \in 0 .. n
    BY <2>1
  <2>3. PICK t \in 1 .. Len(fields) : t = order[k]
    BY <1>1
  <2>4. PICK b \in Seq(Cells) : b = P[k - 1]
    BY <1>5, <2>2
  <2>5. P[k] = Append(PackField(b, o, fields, t), <<1, t>>)
    BY <1>1, <1>2, <2>3, <2>4 DEF Packs
  <2>6. PICK x : x = C[i - 1]
    OBVIOUS
  <2>7. Holds(fields, x)
    BY <1>1, <1>3, <2>2, <2>6 DEF Copies
  <2>8. ReadsTarget(P[k], b, o, x, fields, t)
    BY <2>5, <2>7, TargetRead
  <2>9. C[i] = [x EXCEPT ![fields[t][1]] = o[fields[t][1]]]
    BY <1>1, <1>3, <2>1, <2>3, <2>6 DEF Copies
  <2>10. h[i - 1] = Reader(P[k], x) /\ h[i] = Reader(b, C[i])
    BY <1>11, <2>2, <2>4, <2>6
  <2> QED BY <2>8, <2>9, <2>10 DEF ReadsTarget
<1> HIDE DEF St
<1>14. h = [i \in 0 .. n |-> IF i = 0 THEN a ELSE St(h[i - 1], i)]
  <2>1. \A i \in 0 .. n : i = 0 \/ (i \in 1 .. n /\ i # 0)
    OBVIOUS
  <2> QED BY <1>11, <1>12, <1>13, <2>1
<1>15. PICK g : g = CHOOSE f : f = [i \in 0 .. n |-> IF i = 0 THEN a ELSE St(f[i - 1], i)]
  OBVIOUS
<1>16. g = [i \in 0 .. n |-> IF i = 0 THEN a ELSE St(g[i - 1], i)]
  BY <1>14, <1>15
<1>17. PICK T : T = {i \in 0 .. n : g[i] = h[i]}
  OBVIOUS
<1>18. 0 \in T
  BY <1>12, <1>16, <1>17
<1>19. ASSUME NEW i \in 1 .. n, i - 1 \in T PROVE i \in T
  <2>1. i \in 0 .. n /\ i # 0
    OBVIOUS
  <2>2. g[i] = St(g[i - 1], i) /\ h[i] = St(h[i - 1], i)
    BY <1>13, <1>16, <2>1
  <2> QED BY <1>17, <1>19, <2>1, <2>2
<1>20. \A i \in 0 .. n : i \in T
  BY <1>18, <1>19, Throughout
<1>21. g[n] = Reader(body, C[n])
  BY <1>12, <1>17, <1>20
<1>22. unpackTargets(r, fields) = g[n]
  BY <1>10, <1>15 DEF unpackTargets, Repeat, St, Targeted
<1> QED BY <1>3, <1>4, <1>7, <1>8, <1>21, <1>22 DEF ReadsTargets

(* A ship, as long as the gradients of its source are linear.                  *)
Ships == [bank : Banks, source : Sources, verts : {<<>>}, transform : Nat, mass : Nat]

(* A part of an object is read by a reader of its own.                         *)
ReadsPart(p, c, part, fields, body, w) ==
  Into(Reader(p, c), part, unpackTargets(At(Reader(p, c), part), fields)) = Reader(body, w)

(* A part of the ship is read as it would be by itself.                        *)
LEMMA PartRead ==
  ASSUME NEW p, NEW c, NEW part, NEW fields, NEW body, NEW u, NEW x, x = c[part],
         unpackTargets(Reader(p, x), fields) = Reader(body, u), NEW w, w = [c EXCEPT ![part] = u]
  PROVE  ReadsPart(p, c, part, fields, body, w)
<1>1. PICK r : r = Reader(p, c)
  OBVIOUS
<1>2. r = [body |-> p, obj |-> c, ok |-> TRUE] /\ r.obj = c
  BY <1>1 DEF Reader
<1>3. PICK a : a = At(r, part)
  OBVIOUS
<1>5. a = [r EXCEPT !.obj = x]
  BY <1>2, <1>3 DEF At
<1>6. a = [body |-> p, obj |-> x, ok |-> TRUE]
  BY <1>2, <1>5
<1>7. a = Reader(p, x)
  BY <1>6 DEF Reader
<1>8. PICK q : q = Reader(body, u)
  OBVIOUS
<1>9. unpackTargets(a, fields) = q
  BY <1>7, <1>8
<1>10. q = [body |-> body, obj |-> u, ok |-> TRUE] /\ q.obj = u
  BY <1>8 DEF Reader
<1>12. PICK z : z = Into(r, part, q)
  OBVIOUS
<1>13. z = [q EXCEPT !.obj = w]
  BY <1>2, <1>10, <1>12 DEF Into
<1>14. z = [body |-> body, obj |-> w, ok |-> TRUE]
  BY <1>10, <1>13
<1> QED BY <1>1, <1>3, <1>8, <1>9, <1>12, <1>14 DEF Reader, ReadsPart

(* The bytes of a body of one cell.                                            *)
LEMMA OneCell ==
  ASSUME NEW v
  PROVE  Bytes(<<<<8, v>>>>) = 8
<1>1. PICK b : b = <<<<8, v>>>>
  OBVIOUS
<1>2. Len(b) = 1 /\ b[1][1] = 8
  BY <1>1
<1>3. PICK h : h = [k \in 0 .. 1 |-> IF k = 0 THEN 0 ELSE 8]
  OBVIOUS
<1>4. h = [k \in 0 .. 1 |-> IF k = 0 THEN 0 ELSE h[k - 1] + b[k][1]]
  <2>1. ASSUME NEW k \in 0 .. 1 PROVE h[k] = IF k = 0 THEN 0 ELSE h[k - 1] + b[k][1]
    <3>1. h[0] = 0 /\ h[1] = 8 /\ (k = 0 \/ k = 1) /\ 1 - 1 = 0
      BY <1>3
    <3> QED BY <1>2, <3>1
  <2> QED BY <1>3, <2>1
<1>5. PICK g : g = CHOOSE f : f = [k \in 0 .. 1 |-> IF k = 0 THEN 0 ELSE f[k - 1] + b[k][1]]
  OBVIOUS
<1>6. g = [k \in 0 .. 1 |-> IF k = 0 THEN 0 ELSE g[k - 1] + b[k][1]]
  BY <1>4, <1>5
<1>7. g[0] = 0 /\ g[1] = g[0] + b[1][1]
  BY <1>6
<1>8. Bytes(b) = g[1]
  BY <1>2, <1>5 DEF Bytes
<1> QED BY <1>1, <1>2, <1>7, <1>8

(* The body of a ship has no corners: their number is packed, which is zero.   *)
LEMMA NoCorners ==
  /\ packArray(<<>>, <<>>, 8) = <<<<8, 0>>>> /\ packArray(<<>>, <<>>, 8) \in Seq(Cells)
  /\ \A c : unpackArray(Reader(<<<<8, 0>>>>, c), "verts", 8) = Reader(<<>>, c)
<1>1. PICK b : b = Append(<<>>, <<8, 0>>)
  OBVIOUS
<1>2. <<>> \in Seq(Cells) /\ <<8, 0>> \in Cells /\ b = <<<<8, 0>>>>
  BY <1>1 DEF Cells
<1>3. b \in Seq(Cells)
  BY <1>1, <1>2, Appended
<1>4. packArray(<<>>, <<>>, 8) = b
  <2>1. PICK v : v = <<>>
    OBVIOUS
  <2>2. Len(v) = 0
    BY <2>1
  <2>3. PICK e : e = [i \in 1 .. 0 |-> <<8, v[Len(v) + 1 - i]>>]
    OBVIOUS
  <2>4. e = <<>>
    BY <2>3
  <2>5. packArray(<<>>, v, 8) = Append(<<>> \o e, <<8, 0>>)
    BY <2>2, <2>3 DEF packArray
  <2> QED BY <1>1, <2>1, <2>4, <2>5
<1>5. ASSUME NEW c PROVE unpackArray(Reader(b, c), "verts", 8) = Reader(<<>>, c)
  <2>1. PICK r : r = Reader(b, c)
    OBVIOUS
  <2>2. r = [body |-> b, obj |-> c, ok |-> TRUE] /\ r.body = b
    BY <2>1 DEF Reader
  <2>3. PICK v \in Int : v = 0
    OBVIOUS
  <2>4. PICK e \in Seq(Cells) : e = <<>>
    BY <1>2
  <2>5. Reads(b, 8, v, e)
    <3>1. b = Append(e, <<8, v>>) /\ 8 \in Nat
      BY <1>1, <2>3, <2>4
    <3> QED BY <3>1, AlignedRead
  <2>6. Value(r.body, 8, 0) = 0 /\ Rest(r.body, 8) = <<>> /\ 0 # Garbage
    BY <2>2, <2>3, <2>4, <2>5 DEF Reads, Garbage
  <2>7. PICK start : start = [r EXCEPT !.body = Rest(r.body, 8)]
    OBVIOUS
  <2>8. start = [body |-> <<>>, obj |-> c, ok |-> TRUE]
    BY <2>2, <2>6, <2>7
  <2>9. Bytes(r.body) = 8
    BY <1>2, <2>2, OneCell
  <2> DEFINE N == Value(r.body, 8, 0)
             A == [r EXCEPT !.body = Rest(r.body, 8)]
             St(q, i) == [q EXCEPT !.body = Rest(q.body, 8), !.obj["verts"] = Append(@, Value(q.body, 8, 0))]
  <2>10. PICK g : g = CHOOSE f : f = [k \in 0 .. N |-> IF k = 0 THEN A ELSE St(f[k - 1], k)]
    OBVIOUS
  <2>11. unpackArray(r, "verts", 8) = g[N]
    <3>1. unpackArray(r, "verts", 8) = Repeat(N, A, St)
      <4>1. ~(Bytes(r.body) < 8) /\ Bytes(r.body) >= 8 /\ ~(N = Garbage)
        BY <2>6, <2>9
      <4> QED BY <4>1 DEF unpackArray, Repeat
    <3>2. Repeat(N, A, St) = g[N]
      BY <2>10, Zenon DEF Repeat
    <3> QED BY <3>1, <3>2
  <2>12. N = 0 /\ A = start
    BY <2>6, <2>7
  <2> HIDE DEF St, N, A
  <2>13. PICK h : h = [k \in 0 .. 0 |-> start]
    OBVIOUS
  <2>14. h = [k \in 0 .. N |-> IF k = 0 THEN A ELSE St(h[k - 1], k)]
    BY <2>12, <2>13
  <2>15. g = [k \in 0 .. N |-> IF k = 0 THEN A ELSE St(g[k - 1], k)]
    BY <2>10, <2>14
  <2>16. g[N] = start
    BY <2>12, <2>15
  <2> QED BY <2>1, <2>8, <2>11, <2>16 DEF Reader
<1> QED BY <1>2, <1>3, <1>4, <1>5

(* What POST sends of a ship, the copy gets: the types that were packed of its *)
(* bank and of its source, and nothing else.                                   *)
ShipMerges(u, o, c, S, B) ==
  /\ u \in Ships /\ u.transform = c.transform
  /\ Merges(u.bank, o.bank, c.bank, BankFields, B)
  /\ Merges(u.source, o.source, c.source, SourceFields, S)

(* A ship that was packed is read by the copy, and nothing of the body is      *)
(* left.                                                                       *)
LEMMA ShipRead ==
  ASSUME NEW o \in Ships, NEW c \in Ships, NEW s \in Seq(1 .. 6), NEW b \in Seq(1 .. 2)
  PROVE  \E u : UnpackShip(PackShip(o, s, b), c) = Reader(<<>>, u) /\ ShipMerges(u, o, c, ToSet(s), ToSet(b))
<1>1. Len(SourceFields) = 6 /\ Len(BankFields) = 2
  BY DEF SourceFields, BankFields
<1>2. /\ o.bank \in Banks /\ c.bank \in Banks /\ o.source \in Sources /\ c.source \in Sources
      /\ o.verts = <<>>
  BY DEF Ships
<1>3. /\ Holds(BankFields, o.bank) /\ Holds(BankFields, c.bank)
      /\ Holds(SourceFields, o.source) /\ Holds(SourceFields, c.source)
  BY <1>2 DEF Holds
<1>4. PICK b0 \in Seq(Cells) : b0 = <<<<8, 0>>>> /\ b0 = packArray(<<>>, <<>>, 8)
  BY NoCorners
<1>5. PICK b1 : b1 = packTargets(b0, o.source, SourceFields, s)
  OBVIOUS
<1>6. ReadsTargets(b1, b0, o.source, c.source, SourceFields, ToSet(s))
  BY <1>1, <1>3, <1>5, TargetsRead
<1>7. b1 \in Seq(Cells)
  BY <1>6 DEF ReadsTargets
<1>8. PICK b2 : b2 = packTargets(b1, o.bank, BankFields, b)
  OBVIOUS
<1>9. ReadsTargets(b2, b1, o.bank, c.bank, BankFields, ToSet(b))
  BY <1>1, <1>3, <1>7, <1>8, TargetsRead
<1>10. PackShip(o, s, b) = b2
  BY <1>2, <1>4, <1>5, <1>8 DEF PackShip
<1>11. PICK x : unpackTargets(Reader(b2, c.bank), BankFields) = Reader(b1, x)
               /\ Merges(x, o.bank, c.bank, BankFields, ToSet(b))
  BY <1>9 DEF ReadsTargets
<1>12. PICK c1 : c1 = [c EXCEPT !["bank"] = x]
  OBVIOUS
<1>13. x \in Banks
  BY <1>11 DEF Merges, Holds, BankFields, SourceFields
<1>14. c1 \in Ships /\ c1.bank = x /\ c1.source = c.source /\ c1.transform = c.transform
  BY <1>12, <1>13 DEF Ships
<1>15. PICK y : unpackTargets(Reader(b1, c1.source), SourceFields) = Reader(b0, y)
               /\ Merges(y, o.source, c.source, SourceFields, ToSet(s))
  BY <1>6, <1>14 DEF ReadsTargets
<1>16. PICK c2 : c2 = [c1 EXCEPT !["source"] = y]
  OBVIOUS
<1>17. y \in Sources
  BY <1>15 DEF Merges, Holds, BankFields, SourceFields
<1>18. c2 \in Ships /\ c2.bank = x /\ c2.source = y /\ c2.transform = c.transform
  BY <1>14, <1>16, <1>17 DEF Ships
<1>19. PICK r : r = Reader(b2, c)
  OBVIOUS
<1>20. PICK r1 : r1 = Reader(b1, c1)
  OBVIOUS
<1>21. Into(r, "bank", unpackTargets(At(r, "bank"), BankFields)) = r1
  <2>1. PICK d : d = c["bank"]
    OBVIOUS
  <2>2. unpackTargets(Reader(b2, d), BankFields) = Reader(b1, x)
    BY <1>11, <2>1
  <2>3. ReadsPart(b2, c, "bank", BankFields, b1, c1)
    BY <1>12, <2>1, <2>2, PartRead
  <2> QED BY <1>19, <1>20, <2>3 DEF ReadsPart
<1>22. Into(r1, "source", unpackTargets(At(r1, "source"), SourceFields)) = Reader(b0, c2)
  <2>1. PICK d : d = c1["source"]
    OBVIOUS
  <2>2. unpackTargets(Reader(b1, d), SourceFields) = Reader(b0, y)
    BY <1>15, <2>1
  <2>3. ReadsPart(b1, c1, "source", SourceFields, b0, c2)
    BY <1>16, <2>1, <2>2, PartRead
  <2> QED BY <1>20, <2>3 DEF ReadsPart
<1>23. unpackArray(Reader(b0, c2), "verts", 8) = Reader(<<>>, c2)
  BY <1>4, NoCorners
<1>24. r = [body |-> b2, obj |-> c, ok |-> TRUE]
  BY <1>19 DEF Reader
<1>25. UnpackShip(b2, c) = Reader(<<>>, c2)
  BY <1>21, <1>22, <1>23, <1>24 DEF UnpackShip
<1>26. ShipMerges(c2, o, c, ToSet(s), ToSet(b))
  BY <1>11, <1>15, <1>18 DEF ShipMerges
<1> QED BY <1>10, <1>25, <1>26

(* Reading the two fields that were pushed last.                               *)
PopsTwo(c, x, sx, vx, y, sy, vy, b) ==
  \A o : Pop(Reader(c, o), <<<<x, sx>>, <<y, sy>>>>) = Reader(b, [[o EXCEPT ![x] = vx] EXCEPT ![y] = vy])

(* Two values that were pushed are popped in the opposite order.               *)
LEMMA PopTwo ==
  ASSUME NEW b \in Seq(Cells), NEW sx \in Nat, NEW sy \in Nat, NEW vx \in Int, NEW vy \in Int,
         NEW d, d = Append(b, <<sy, vy>>), NEW c, c = Append(d, <<sx, vx>>), NEW x, NEW y
  PROVE  PopsTwo(c, x, sx, vx, y, sy, vy, b)
<1> SUFFICES ASSUME NEW o
             PROVE  Pop(Reader(c, o), <<<<x, sx>>, <<y, sy>>>>) = Reader(b, [[o EXCEPT ![x] = vx] EXCEPT ![y] = vy])
  BY DEF PopsTwo
<1>1. d \in Seq(Cells)
  <2>1. <<sy, vy>> \in Cells
    BY DEF Cells
  <2> QED BY <2>1, Appended
<1>2. Reads(d, sy, vy, b) /\ Reads(c, sx, vx, d)
  BY <1>1, AlignedRead
<1>3. PICK fields : fields = <<<<x, sx>>, <<y, sy>>>>
  OBVIOUS
<1>4. Len(fields) = 2 /\ fields[1][1] = x /\ fields[1][2] = sx /\ fields[2][1] = y /\ fields[2][2] = sy
  BY <1>3
<1>5. PICK o1 : o1 = [o EXCEPT ![x] = vx]
  OBVIOUS
<1>6. PICK o2 : o2 = [o1 EXCEPT ![y] = vy]
  OBVIOUS
<1> DEFINE St(q, i) == [q EXCEPT !.body = Rest(q.body, fields[i][2]),
                                 !.obj[fields[i][1]] = Value(q.body, fields[i][2], @)]
<1>7. St(Reader(c, o), 1) = Reader(d, o1)
  <2>1. PICK r : r = [body |-> c, obj |-> o, ok |-> TRUE]
    OBVIOUS
  <2>2. r.body = c /\ r.obj = o
    BY <2>1
  <2>3. Rest(r.body, fields[1][2]) = d /\ \A old : Value(r.body, fields[1][2], old) = vx
    BY <1>2, <1>4, <2>2 DEF Reads
  <2>4. PICK r1 : r1 = [r EXCEPT !.body = d]
    OBVIOUS
  <2>5. r1 = [body |-> d, obj |-> o, ok |-> TRUE]
    BY <2>1, <2>4
  <2>6. PICK r2 : r2 = [r1 EXCEPT !.obj = o1]
    OBVIOUS
  <2>7. r2 = [body |-> d, obj |-> o1, ok |-> TRUE] /\ r1.obj = o
    BY <2>5, <2>6
  <2>8. St(r, 1) = r2
    BY <1>4, <1>5, <2>3, <2>4, <2>6, <2>7
  <2> QED BY <2>1, <2>7, <2>8 DEF Reader
<1>8. St(Reader(d, o1), 2) = Reader(b, o2)
  <2>1. PICK r : r = [body |-> d, obj |-> o1, ok |-> TRUE]
    OBVIOUS
  <2>2. r.body = d /\ r.obj = o1
    BY <2>1
  <2>3. Rest(r.body, fields[2][2]) = b /\ \A old : Value(r.body, fields[2][2], old) = vy
    BY <1>2, <1>4, <2>2 DEF Reads
  <2>4. PICK r1 : r1 = [r EXCEPT !.body = b]
    OBVIOUS
  <2>5. r1 = [body |-> b, obj |-> o1, ok |-> TRUE]
    BY <2>1, <2>4
  <2>6. PICK r2 : r2 = [r1 EXCEPT !.obj = o2]
    OBVIOUS
  <2>7. r2 = [body |-> b, obj |-> o2, ok |-> TRUE] /\ r1.obj = o1
    BY <2>5, <2>6
  <2>8. St(r, 2) = r2
    BY <1>4, <1>6, <2>3, <2>4, <2>6, <2>7
  <2> QED BY <2>1, <2>7, <2>8 DEF Reader
<1> HIDE DEF St
<1>9. PICK a : a = Reader(c, o)
  OBVIOUS
<1>10. PICK h : h = [k \in 0 .. 2 |-> IF k = 0 THEN a ELSE IF k = 1 THEN Reader(d, o1) ELSE Reader(b, o2)]
  OBVIOUS
<1>11. h[0] = a /\ h[1] = St(h[0], 1) /\ h[2] = St(h[1], 2)
  <2>1. 0 \in 0 .. 2 /\ 1 \in 0 .. 2 /\ 2 \in 0 .. 2 /\ 1 # 0 /\ 2 # 0 /\ 2 # 1
    OBVIOUS
  <2>2. h[0] = a
    BY <1>10, <2>1
  <2>3. h[1] = Reader(d, o1)
    BY <1>10, <2>1
  <2>4. h[2] = Reader(b, o2)
    BY <1>10, <2>1
  <2>5. h[1] = St(h[0], 1)
    BY <1>7, <1>9, <2>2, <2>3
  <2>6. h[2] = St(h[1], 2)
    BY <1>8, <2>3, <2>4
  <2> QED BY <2>2, <2>5, <2>6
<1>12. h = [k \in 0 .. 2 |-> IF k = 0 THEN a ELSE St(h[k - 1], k)]
  <2>1. ASSUME NEW k \in 0 .. 2 PROVE h[k] = IF k = 0 THEN a ELSE St(h[k - 1], k)
    <3>1. k = 0 \/ (k = 1 /\ k - 1 = 0) \/ (k = 2 /\ k - 1 = 1)
      OBVIOUS
    <3> QED BY <1>11, <3>1
  <2> QED BY <1>10, <2>1
<1>13. PICK g : g = CHOOSE f : f = [k \in 0 .. 2 |-> IF k = 0 THEN a ELSE St(f[k - 1], k)]
  OBVIOUS
<1>14. g = [k \in 0 .. 2 |-> IF k = 0 THEN a ELSE St(g[k - 1], k)]
  BY <1>12, <1>13
<1>15. g[0] = a /\ g[1] = St(g[0], 1) /\ g[2] = St(g[1], 2)
  <2>1. 0 \in 0 .. 2 /\ 1 \in 0 .. 2 /\ 2 \in 0 .. 2 /\ 1 - 1 = 0 /\ 2 - 1 = 1 /\ 1 # 0 /\ 2 # 0
    OBVIOUS
  <2> QED BY <1>14, <2>1
<1>16. g[2] = Reader(b, o2)
  BY <1>7, <1>8, <1>9, <1>15
<1>17. Pop(a, fields) = g[2]
  BY <1>4, <1>13 DEF Pop, Repeat, St
<1> QED BY <1>3, <1>5, <1>6, <1>9, <1>16, <1>17

(* What UPDATE sends of a ship, the copy gets: where it is.                    *)
LEMMA UpdateRead ==
  ASSUME NEW o \in Ships, NEW c \in Ships
  PROVE  \E u \in Ships :
           /\ ApplyUpdate(Append(Push(<<>>, o, TransformFields), <<2, 1>>), c) = Reader(<<>>, u)
           /\ u.transform = o.transform /\ u.bank = c.bank /\ u.source = c.source
<1>1. PICK vt \in Int : vt = o.transform /\ vt \in Nat
  BY DEF Ships
<1>2. PICK vm \in Int : vm = o.mass /\ vm \in Nat
  BY DEF Ships
<1>3. PICK b \in Seq(Cells) : b = <<>>
  <2>1. <<>> \in Seq(Cells)
    BY DEF Cells
  <2> QED BY <2>1
<1>4. PICK d : d = Append(b, <<80, vt>>)
  OBVIOUS
<1>5. PICK e : e = Append(d, <<8, vm>>)
  OBVIOUS
<1>6. PICK f : f = Append(e, <<2, 1>>)
  OBVIOUS
<1>7. <<80, vt>> \in Cells /\ <<8, vm>> \in Cells
  BY DEF Cells
<1>8. d \in Seq(Cells)
  BY <1>4, <1>7, Appended
<1>9. e \in Seq(Cells)
  BY <1>5, <1>7, <1>8, Appended
<1>10. Push(<<>>, o, TransformFields) = e
  <2>1. PICK t : t = TransformFields
    OBVIOUS
  <2>2. Len(t) = 2 /\ t[1][1] = "transform" /\ t[1][2] = 80 /\ t[2][1] = "mass" /\ t[2][2] = 8
    BY <2>1 DEF TransformFields
  <2>3. PICK w : w = [i \in 1 .. 2 |-> <<t[i][2], o[t[i][1]]>>]
    OBVIOUS
  <2>4. w = <<<<80, vt>>, <<8, vm>>>>
    BY <1>1, <1>2, <2>2, <2>3
  <2>5. Push(<<>>, o, t) = <<>> \o w
    BY <2>2, <2>3 DEF Push
  <2>6. <<>> \o w = <<<<80, vt>>, <<8, vm>>>>
    BY <2>4
  <2>7. e = <<<<80, vt>>, <<8, vm>>>>
    <3>1. d = <<<<80, vt>>>>
      BY <1>3, <1>4
    <3>2. PICK y : y = <<8, vm>>
      OBVIOUS
    <3>3. PICK x : x = <<80, vt>>
      OBVIOUS
    <3>4. <<x, y>> \in Seq(Cells) /\ <<x>> \in Seq(Cells)
      BY <1>7, <3>2, <3>3
    <3>5. Append(<<x>>, y) = <<x, y>>
      <4>1. PICK p \in Seq(Cells) : p = <<x>>
        BY <3>4
      <4>2. PICK q : q = Append(p, y)
        OBVIOUS
      <4>3. q \in Seq(Cells) /\ Len(q) = 2 /\ q[1] = x /\ q[2] = y
        BY <1>7, <3>2, <4>1, <4>2
      <4>4. PICK z \in Seq(Cells) : z = <<x, y>>
        BY <3>4
      <4>5. Len(z) = 2 /\ z[1] = x /\ z[2] = y
        BY <4>4
      <4>6. q = [i \in 1 .. 2 |-> q[i]] /\ z = [i \in 1 .. 2 |-> z[i]]
        BY <4>3, <4>4, <4>5
      <4>7. \A i \in 1 .. 2 : q[i] = z[i]
        <5>1. \A i \in 1 .. 2 : i = 1 \/ i = 2
          OBVIOUS
        <5> QED BY <4>3, <4>5, <5>1
      <4> QED BY <4>1, <4>2, <4>4, <4>6, <4>7
    <3> QED BY <1>5, <3>1, <3>2, <3>3, <3>5
  <2> QED BY <2>1, <2>5, <2>6, <2>7
<1>11. Reads(f, 2, 1, e)
  <2>1. PICK v \in Int : v = 1
    OBVIOUS
  <2>2. PICK n \in Nat : n = 2
    OBVIOUS
  <2>3. f = Append(e, <<n, v>>)
    BY <1>6, <2>1, <2>2
  <2>4. Reads(f, n, v, e)
    BY <1>9, <2>3, AlignedRead
  <2> QED BY <2>1, <2>2, <2>4
<1>12. PICK r : r = [body |-> Rest(f, 2), obj |-> c, ok |-> Value(f, 2, 0) = 1]
  OBVIOUS
<1>13. r = Reader(e, c)
  BY <1>11, <1>12 DEF Reads, Reader
<1>14. Reverse(TransformFields) = <<<<"mass", 8>>, <<"transform", 80>>>>
  <2>1. PICK t : t = TransformFields
    OBVIOUS
  <2>2. Len(t) = 2 /\ t[1] = <<"transform", 80>> /\ t[2] = <<"mass", 8>>
    BY <2>1 DEF TransformFields
  <2>3. PICK w : w = [i \in 1 .. 2 |-> t[(2 - i) + 1]]
    OBVIOUS
  <2>4. Reverse(t) = w
    BY <2>2, <2>3 DEF Reverse
  <2>5. w[1] = t[2] /\ w[2] = t[1]
    BY <2>3
  <2>6. w = <<t[2], t[1]>>
    BY <2>3, <2>5
  <2> QED BY <2>1, <2>2, <2>4, <2>6
<1>15. PopsTwo(e, "mass", 8, vm, "transform", 80, vt, b)
  BY <1>4, <1>5, PopTwo
<1>16. PICK u : u = [[c EXCEPT !["mass"] = vm] EXCEPT !["transform"] = vt]
  OBVIOUS
<1>17. Pop(r, <<<<"mass", 8>>, <<"transform", 80>>>>) = Reader(b, u)
  BY <1>13, <1>15, <1>16 DEF PopsTwo
<1>18. ApplyUpdate(f, c) = Reader(<<>>, u)
  BY <1>3, <1>12, <1>14, <1>17 DEF ApplyUpdate
<1>19. u \in Ships /\ u.transform = vt /\ u.bank = c.bank /\ u.source = c.source
  BY <1>1, <1>2, <1>16 DEF Ships
<1> QED BY <1>1, <1>6, <1>10, <1>18, <1>19

(* A copy as it is once what is on its way has arrived.                        *)
Coming(d) == IF wire = <<>> THEN Reader(<<>>, d)
             ELSE IF wire.how = "update" THEN ApplyUpdate(wire.body, d) ELSE UnpackShip(wire.body, d)
Updating == wire # <<>> /\ wire.how = "update"

(* What arrives can be read; it brings the settings up to date, and an update  *)
(* the transform, which anything else leaves alone.                            *)
ArrivesInStep(d) ==
  /\ Coming(d).ok = TRUE /\ Coming(d).obj \in Ships /\ SettingsInStep(Coming(d).obj)
  /\ Coming(d).obj.transform = IF Updating /\ ~missed.transform THEN owned.transform
                               ELSE IF Updating THEN Coming(d).obj.transform ELSE d.transform

(* The inductive invariant: while no gradient was replaced, what is on its way *)
(* can be read, wherever the copy has moved meanwhile, and with it the copy is *)
(* in step.                                                                    *)
ShipKept ==
  /\ ~garbled /\ owned \in Ships /\ copy \in Ships
  /\ \A d \in Ships : d.bank = copy.bank /\ d.source = copy.source => ArrivesInStep(d)
  /\ missed.transform \/ Updating \/ copy.transform = owned.transform
CodecIInv == CodecTypeOK /\ (kind = "ship" /\ ~replaced => ShipKept)

(* A copy at which nothing is to arrive has to be in step itself.              *)
LEMMA NothingComing ==
  ASSUME wire = <<>>, NEW d
  PROVE  /\ ~Updating /\ Coming(d).ok = TRUE /\ Coming(d).obj = d
         /\ ArrivesInStep(d) <=> d \in Ships /\ SettingsInStep(d)
<1>1. PICK r : r = Coming(d)
  OBVIOUS
<1>2. r = Reader(<<>>, d)
  BY <1>1 DEF Coming
<1>3. r.ok = TRUE /\ r.obj = d
  BY <1>2 DEF Reader
<1>4. ~Updating
  BY DEF Updating
<1> QED BY <1>1, <1>3, <1>4 DEF ArrivesInStep

(* The copy starts as the owner does.                                          *)
LEMMA CodecInitially == InitCodec => CodecIInv
<1> SUFFICES ASSUME InitCodec PROVE CodecIInv
  OBVIOUS
<1>1. CodecTypeOK
  <2>1. /\ targets \in [bank : SUBSET {1, 2}, source : SUBSET (1 .. 6)]
        /\ missed \in [bank : SUBSET {1, 2}, source : SUBSET (1 .. 6), transform : BOOLEAN]
    BY DEF InitCodec
  <2>2. changes \in 0 .. MaxChanges /\ sent \in 0 .. MaxSent
    BY CodecAssumption DEF InitCodec
  <2> QED BY <2>1, <2>2 DEF InitCodec, CodecTypeOK
<1>2. ASSUME kind = "ship" PROVE ShipKept
  <2>1. owned = ShipDefault /\ copy = ShipDefault /\ wire = <<>> /\ ~garbled
    BY <1>2 DEF InitCodec, Default
  <2>2. ShipDefault \in Ships
    BY DEF ShipDefault, Ships, Banks, Sources
  <2>3. ASSUME NEW d \in Ships, d.bank = copy.bank, d.source = copy.source PROVE ArrivesInStep(d)
    <3>1. SettingsInStep(d)
      BY <2>1, <2>3 DEF SettingsInStep
    <3> QED BY <2>1, <3>1, NothingComing
  <2> QED BY <2>1, <2>2, <2>3 DEF ShipKept
<1> QED BY <1>1, <1>2 DEF CodecIInv

(* Every step keeps the types.                                                 *)
LEMMA CodecTypeKept == CodecTypeOK /\ [NextCodec]_codecVars => CodecTypeOK'
<1> SUFFICES ASSUME CodecTypeOK, [NextCodec]_codecVars PROVE CodecTypeOK'
  OBVIOUS
<1>1. ASSUME NEW o, Changed(o), UNCHANGED targets, replaced' \in BOOLEAN,
             missed' \in [bank : SUBSET {1, 2}, source : SUBSET (1 .. 6), transform : BOOLEAN]
      PROVE  CodecTypeOK'
  BY <1>1, CodecAssumption DEF Changed, CodecTypeOK
<1>2. ASSUME NEW o, Change(o) PROVE CodecTypeOK'
  BY <1>1, <1>2 DEF Change, CodecTypeOK
<1>3. ASSUME NEW v, NEW t \in 1 .. 5, Set("source", SourceFields, t, v) PROVE CodecTypeOK'
  BY <1>3, CodecAssumption DEF Set, Changed, CodecTypeOK
<1>4. ASSUME NEW v, NEW t \in {1, 2}, Set("bank", BankFields, t, v) PROVE CodecTypeOK'
  BY <1>4, CodecAssumption DEF Set, Changed, CodecTypeOK
<1>5. ASSUME NEW v, SetThrottle(v) PROVE CodecTypeOK'
  BY <1>3, <1>5 DEF SetThrottle
<1>6. ASSUME NEW v, Slide(v) PROVE CodecTypeOK'
  <2>1. PICK R : R = missed.source \cup {1}
    OBVIOUS
  <2>2. R \in SUBSET (1 .. 6) /\ missed' = [missed EXCEPT !.source = R]
    BY <1>6, <2>1 DEF Slide, CodecTypeOK
  <2>3. missed' \in [bank : SUBSET {1, 2}, source : SUBSET (1 .. 6), transform : BOOLEAN]
    BY <2>2 DEF CodecTypeOK
  <2> QED BY <1>1, <1>6, <2>3 DEF Slide, CodecTypeOK
<1>7. ASSUME NEW v, Turn(v) PROVE CodecTypeOK'
  <2>1. missed' \in [bank : SUBSET {1, 2}, source : SUBSET (1 .. 6), transform : BOOLEAN]
    BY <1>7 DEF Turn, CodecTypeOK
  <2> QED BY <1>1, <1>7, <2>1 DEF Turn, CodecTypeOK
<1>8. ASSUME NEW v, CopyTurns(v) PROVE CodecTypeOK'
  <2>1. missed' \in [bank : SUBSET {1, 2}, source : SUBSET (1 .. 6), transform : BOOLEAN]
    BY <1>8 DEF CopyTurns, CodecTypeOK
  <2> QED BY <1>8, <2>1, CodecAssumption DEF CopyTurns, CodecTypeOK
<1>9. ASSUME NEW m, Sent(m), m.how \in {"post", "update", "whole"},
             targets' \in [bank : SUBSET {1, 2}, source : SUBSET (1 .. 6)],
             missed' \in [bank : SUBSET {1, 2}, source : SUBSET (1 .. 6), transform : BOOLEAN]
      PROVE  CodecTypeOK'
  BY <1>9, CodecAssumption DEF Sent, CodecTypeOK
<1>10. PICK S, R : S = targets.bank /\ R = targets.source /\ S \in SUBSET {1, 2} /\ R \in SUBSET (1 .. 6)
  BY DEF CodecTypeOK
<1>11. CASE Post
  <2>1. PICK b : Sent([how |-> "post", body |-> b])
    BY <1>11 DEF Post
  <2>2. PICK m : m = [how |-> "post", body |-> b]
    OBVIOUS
  <2>3. m.how = "post" /\ Sent(m)
    BY <2>1, <2>2
  <2>4. missed' \in [bank : SUBSET {1, 2}, source : SUBSET (1 .. 6), transform : BOOLEAN]
    BY <1>10, <1>11 DEF Post, CodecTypeOK
  <2>5. targets' \in [bank : SUBSET {1, 2}, source : SUBSET (1 .. 6)]
    BY <1>11 DEF Post
  <2> QED BY <1>9, <2>3, <2>4, <2>5
<1>12. CASE PostPast
  <2>1. missed' \in [bank : SUBSET {1, 2}, source : SUBSET (1 .. 6), transform : BOOLEAN]
    BY <1>10, <1>12 DEF PostPast, CodecTypeOK
  <2>2. targets' \in [bank : SUBSET {1, 2}, source : SUBSET (1 .. 6)]
    BY <1>12 DEF PostPast
  <2> QED BY <1>12, <2>1, <2>2, CodecAssumption DEF PostPast, CodecTypeOK
<1>13. ASSUME NEW v, Update(v) PROVE CodecTypeOK'
  <2>1. PICK b : Sent([how |-> "update", body |-> b])
    BY <1>13 DEF Update
  <2>2. PICK m : m = [how |-> "update", body |-> b]
    OBVIOUS
  <2>3. m.how = "update" /\ Sent(m)
    BY <2>1, <2>2
  <2>4. missed' \in [bank : SUBSET {1, 2}, source : SUBSET (1 .. 6), transform : BOOLEAN]
    BY <1>13 DEF Update, CodecTypeOK
  <2>5. targets' \in [bank : SUBSET {1, 2}, source : SUBSET (1 .. 6)]
    BY <1>13 DEF Update, CodecTypeOK
  <2> QED BY <1>9, <2>3, <2>4, <2>5
<1>14. CASE Send
  BY <1>14, CodecAssumption DEF Send, Sent, CodecTypeOK
<1>15. CASE Receive
  BY <1>15 DEF Receive, CodecTypeOK
<1>16. CASE UNCHANGED codecVars
  BY <1>16 DEF codecVars, CodecTypeOK
<1>17. {4, 5} \subseteq 1 .. 5 /\ Gradients \subseteq 1 .. 5
  BY DEF Gradients
<1> QED BY <1>2, <1>3, <1>4, <1>5, <1>6, <1>7, <1>8, <1>11, <1>12, <1>13, <1>14, <1>15, <1>16, <1>17 DEF NextCodec

(* What is on its way does not change while the owner changes its object.      *)
LEMMA OwnerKeeps ==
  ASSUME ShipKept, UNCHANGED <<wire, copy, garbled>>, owned' \in Ships,
         \A c \in Ships : SettingsInStep(c) => SettingsInStep(c)',
         ~missed'.transform => ~missed.transform /\ owned'.transform = owned.transform
  PROVE  ShipKept'
<1>1. ASSUME NEW d \in Ships, d.bank = copy.bank, d.source = copy.source PROVE ArrivesInStep(d)'
  <2>1. ArrivesInStep(d)
    BY <1>1 DEF ShipKept
  <2>2. PICK r : r = Coming(d)
    OBVIOUS
  <2>3. Coming(d)' = r /\ Updating' = Updating
    BY <2>2 DEF Coming, Updating
  <2>4. r.ok = TRUE /\ r.obj \in Ships /\ SettingsInStep(r.obj)
        /\ r.obj.transform = IF Updating /\ ~missed.transform THEN owned.transform
                             ELSE IF Updating THEN r.obj.transform ELSE d.transform
    BY <2>1, <2>2 DEF ArrivesInStep
  <2>5. PICK c \in Ships : c = r.obj
    BY <2>4
  <2>6. SettingsInStep(c)'
    BY <2>4, <2>5
  <2> QED BY <2>3, <2>4, <2>5, <2>6 DEF ArrivesInStep
<1>2. Updating' = Updating
  BY DEF Updating
<1> QED BY <1>1, <1>2 DEF ShipKept

(* The setters mark what they change.                                          *)
LEMMA SetKeeps ==
  ASSUME CodecTypeOK, ShipKept, NEW v, NEW t,
         \/ t \in {1, 4, 5} /\ v \in Nat /\ Set("source", SourceFields, t, v)
         \/ t \in {2, 3} /\ v = CurveOf(1) /\ Set("source", SourceFields, t, v)
         \/ t \in {1, 2} /\ v \in Nat /\ Set("bank", BankFields, t, v)
  PROVE  ShipKept'
<1>1. owned \in Ships /\ owned.source \in Sources /\ owned.bank \in Banks
  BY DEF ShipKept, Ships
<1>2. UNCHANGED <<wire, copy, garbled, missed>>
  BY DEF Set, Changed
<1>3. CASE t \in 1 .. 5 /\ ((v \in Nat /\ t \in {1, 4, 5}) \/ (v = CurveOf(1) /\ t \in {2, 3}))
           /\ Set("source", SourceFields, t, v)
  <2>1. PICK s : s = [owned.source EXCEPT ![SourceFields[t][1]] = v]
    OBVIOUS
  <2>2. s \in Sources
    BY <1>1, <1>3, <2>1 DEF Sources, SourceFields
  <2>3. owned' = [owned EXCEPT !["source"] = s]
    BY <1>3, <2>1 DEF Set, Changed
  <2>4. owned' \in Ships /\ owned'.source = s /\ owned'.bank = owned.bank /\ owned'.transform = owned.transform
    BY <1>1, <2>2, <2>3 DEF Ships
  <2>5. targets'.source = targets.source \cup {t} /\ targets'.bank = targets.bank
    BY <1>3 DEF Set, CodecTypeOK
  <2>6. \A k \in (1 .. 6) \ {t} : s[SourceFields[k][1]] = owned.source[SourceFields[k][1]]
    BY <1>1, <1>3, <2>1 DEF Sources, SourceFields
  <2>7. ASSUME NEW c \in Ships, SettingsInStep(c) PROVE SettingsInStep(c)'
    BY <1>2, <2>4, <2>5, <2>6, <2>7 DEF SettingsInStep
  <2> QED BY <1>2, <2>4, <2>7, OwnerKeeps
<1>4. CASE t \in {1, 2} /\ v \in Nat /\ Set("bank", BankFields, t, v)
  <2>1. PICK s : s = [owned.bank EXCEPT ![BankFields[t][1]] = v]
    OBVIOUS
  <2>2. s \in Banks
    BY <1>1, <1>4, <2>1 DEF Banks, BankFields
  <2>3. owned' = [owned EXCEPT !["bank"] = s]
    BY <1>4, <2>1 DEF Set, Changed
  <2>4. owned' \in Ships /\ owned'.bank = s /\ owned'.source = owned.source /\ owned'.transform = owned.transform
    BY <1>1, <2>2, <2>3 DEF Ships
  <2>5. targets'.bank = targets.bank \cup {t} /\ targets'.source = targets.source
    BY <1>4 DEF Set, CodecTypeOK
  <2>6. \A k \in {1, 2} \ {t} : s[BankFields[k][1]] = owned.bank[BankFields[k][1]]
    BY <1>1, <1>4, <2>1 DEF Banks, BankFields
  <2>7. ASSUME NEW c \in Ships, SettingsInStep(c) PROVE SettingsInStep(c)'
    BY <1>2, <2>4, <2>5, <2>6, <2>7 DEF SettingsInStep
  <2> QED BY <1>2, <2>4, <2>7, OwnerKeeps
<1>5. t \in {1, 4, 5} \/ t \in {2, 3} => t \in 1 .. 5
  OBVIOUS
<1>6. \/ /\ t \in 1 .. 5 /\ ((v \in Nat /\ t \in {1, 4, 5}) \/ (v = CurveOf(1) /\ t \in {2, 3}))
         /\ Set("source", SourceFields, t, v)
      \/ t \in {1, 2} /\ v \in Nat /\ Set("bank", BankFields, t, v)
  BY <1>5, Zenon
<1> QED BY <1>3, <1>4, <1>6, Zenon

(* What the slider writes counts as missed; the copy is in step with the rest. *)
LEMMA SlideKeeps ==
  ASSUME CodecTypeOK, ShipKept, NEW v \in Nat, Slide(v)
  PROVE  ShipKept'
<1>1. owned \in Ships /\ owned.source \in Sources
  BY DEF ShipKept, Ships
<1>2. PICK s : s = [owned.source EXCEPT !["throttle_n"] = v]
  OBVIOUS
<1>3. s \in Sources
  BY <1>1, <1>2 DEF Sources
<1>4. owned' = [owned EXCEPT !["source"] = s] /\ UNCHANGED <<wire, copy, garbled, targets>>
  BY <1>2 DEF Slide, Changed
<1>5. owned' \in Ships /\ owned'.source = s /\ owned'.bank = owned.bank /\ owned'.transform = owned.transform
  BY <1>1, <1>3, <1>4 DEF Ships
<1>6. /\ missed'.source = missed.source \cup {1} /\ missed'.bank = missed.bank
      /\ missed'.transform = missed.transform
  BY DEF Slide, CodecTypeOK
<1>7. \A k \in (1 .. 6) \ {1} : s[SourceFields[k][1]] = owned.source[SourceFields[k][1]]
  BY <1>1, <1>2 DEF Sources, SourceFields
<1>8. ASSUME NEW c \in Ships, SettingsInStep(c) PROVE SettingsInStep(c)'
  BY <1>4, <1>5, <1>6, <1>7, <1>8 DEF SettingsInStep
<1> QED BY <1>4, <1>5, <1>6, <1>8, OwnerKeeps

(* So does a turn that moves the ship and tells no one.                        *)
LEMMA TurnKeeps ==
  ASSUME CodecTypeOK, ShipKept, NEW v \in Nat, Turn(v)
  PROVE  ShipKept'
<1>1. owned' = [owned EXCEPT !.transform = v] /\ owned \in Ships /\ UNCHANGED <<wire, copy, garbled, targets>>
  BY DEF Turn, Changed, ShipKept
<1>2. owned' \in Ships /\ owned'.source = owned.source /\ owned'.bank = owned.bank /\ owned'.transform = v
  BY <1>1 DEF Ships
<1>3. /\ missed'.source = missed.source /\ missed'.bank = missed.bank
      /\ ~missed'.transform => ~missed.transform /\ v = owned.transform
  BY DEF Turn, CodecTypeOK
<1>4. ASSUME NEW c \in Ships, SettingsInStep(c) PROVE SettingsInStep(c)'
  BY <1>1, <1>2, <1>3, <1>4 DEF SettingsInStep
<1> QED BY <1>1, <1>2, <1>3, <1>4, OwnerKeeps

(* A copy that moves by itself is brought back by the update that is on its    *)
(* way, and counts as astray if none is.                                       *)
LEMMA CopyTurnsKeeps ==
  ASSUME CodecTypeOK, ShipKept, NEW v \in Nat, CopyTurns(v)
  PROVE  ShipKept'
<1>1. copy' = [copy EXCEPT !.transform = v] /\ copy \in Ships /\ UNCHANGED <<owned, wire, garbled, targets>>
  BY DEF CopyTurns, ShipKept
<1>2. copy' \in Ships /\ copy'.source = copy.source /\ copy'.bank = copy.bank
  BY <1>1 DEF Ships
<1>3. missed'.source = missed.source /\ missed'.bank = missed.bank
  BY DEF CopyTurns, CodecTypeOK
<1>4. Updating' = Updating
  BY <1>1 DEF Updating
<1>5. missed'.transform = (missed.transform \/ ~Updating)
  BY DEF CopyTurns, CodecTypeOK, Updating
<1>6. ASSUME NEW d \in Ships, d.bank = copy'.bank, d.source = copy'.source PROVE ArrivesInStep(d)'
  <2>1. ArrivesInStep(d)
    BY <1>2, <1>6 DEF ShipKept
  <2>2. PICK r : r = Coming(d)
    OBVIOUS
  <2>3. Coming(d)' = r
    BY <1>1, <2>2 DEF Coming
  <2>4. r.ok = TRUE /\ r.obj \in Ships /\ SettingsInStep(r.obj)
        /\ r.obj.transform = IF Updating /\ ~missed.transform THEN owned.transform
                             ELSE IF Updating THEN r.obj.transform ELSE d.transform
    BY <2>1, <2>2 DEF ArrivesInStep
  <2>5. SettingsInStep(r.obj)'
    <3>1. PICK c : c = r.obj
      OBVIOUS
    <3>2. SettingsInStep(c)'
      BY <1>1, <1>3, <2>4, <3>1 DEF SettingsInStep
    <3> QED BY <2>2, <2>3, <3>1, <3>2 DEF SettingsInStep
  <2> QED BY <1>1, <1>4, <1>5, <2>3, <2>4, <2>5 DEF ArrivesInStep
<1> QED BY <1>1, <1>2, <1>4, <1>5, <1>6 DEF ShipKept

(* POST takes off what it sends.                                               *)
LEMMA PostKeeps ==
  ASSUME CodecTypeOK, ShipKept, Post
  PROVE  ShipKept'
<1>1. PICK S : S = targets.source
  OBVIOUS
<1>2. PICK B : B = targets.bank
  OBVIOUS
<1>3. S \in SUBSET (1 .. 6) /\ B \in SUBSET (1 .. 2)
  <2>1. {1, 2} = 1 .. 2
    OBVIOUS
  <2> QED BY <1>1, <1>2, <2>1 DEF CodecTypeOK
<1>4. PICK s \in Orders(S), b \in Orders(B) : Sent([how |-> "post", body |-> PackShip(owned, s, b)])
  BY <1>1, <1>2 DEF Post
<1>5. s \in Seq(1 .. 6) /\ b \in Seq(1 .. 2) /\ ToSet(s) = S /\ ToSet(b) = B
  <2>1. Cardinality(S) \in Nat /\ Cardinality(B) \in Nat
    <3>1. IsFiniteSet(1 .. 6) /\ IsFiniteSet(1 .. 2)
      <4>1. 1 \in Int /\ 2 \in Int /\ 6 \in Int
        OBVIOUS
      <4> QED BY <4>1, FS_Interval
    <3>2. IsFiniteSet(S) /\ IsFiniteSet(B)
      BY <1>3, <3>1, FS_Subset
    <3> QED BY <3>2, FS_CardinalityType
  <2>2. PICK n \in Nat : n = Cardinality(S)
    BY <2>1
  <2>3. PICK m \in Nat : m = Cardinality(B)
    BY <2>1
  <2>4. s \in [1 .. n -> S] /\ b \in [1 .. m -> B] /\ ToSet(s) = S /\ ToSet(b) = B
    BY <1>4, <2>2, <2>3 DEF Orders
  <2>5. s \in [1 .. n -> 1 .. 6] /\ b \in [1 .. m -> 1 .. 2]
    BY <1>3, <2>4
  <2> QED BY <2>4, <2>5
<1>6. wire = <<>> /\ wire' = [how |-> "post", body |-> PackShip(owned, s, b)]
      /\ UNCHANGED <<owned, copy, garbled>>
  BY <1>4 DEF Sent, Post
<1>7. wire' # <<>> /\ wire'.how = "post" /\ wire'.body = PackShip(owned, s, b) /\ ~Updating'
  <2>1. DOMAIN wire' # DOMAIN <<>>
    BY <1>6
  <2> QED BY <1>6, <2>1 DEF Updating
<1>8. owned \in Ships /\ copy \in Ships /\ ~garbled
  BY DEF ShipKept
<1>9. targets'.bank = {} /\ targets'.source = {} /\ missed'.bank = missed.bank \ B
      /\ missed'.source = missed.source \ S /\ missed'.transform = missed.transform
  BY <1>1, <1>2 DEF Post, CodecTypeOK
<1>10. ASSUME NEW d \in Ships, d.bank = copy.bank, d.source = copy.source PROVE ArrivesInStep(d)'
  <2>1. SettingsInStep(d)
    BY <1>6, <1>10, NothingComing DEF ShipKept
  <2>2. PICK u : UnpackShip(PackShip(owned, s, b), d) = Reader(<<>>, u) /\ ShipMerges(u, owned, d, S, B)
    BY <1>5, <1>8, ShipRead
  <2>3. PICK r : r = Reader(<<>>, u)
    OBVIOUS
  <2>4. Coming(d)' = r
    BY <1>7, <2>2, <2>3 DEF Coming
  <2>5. r.ok = TRUE /\ r.obj = u
    BY <2>3 DEF Reader
  <2>6. \A t \in (1 .. 2) \ (missed.bank \ B) : u.bank[BankFields[t][1]] = owned.bank[BankFields[t][1]]
    <3>1. Len(BankFields) = 2 /\ 1 .. 2 = {1, 2}
      BY DEF BankFields
    <3>2. \A t \in 1 .. 2 : u.bank[BankFields[t][1]] = IF t \in B THEN owned.bank[BankFields[t][1]]
                                                     ELSE d.bank[BankFields[t][1]]
      BY <2>2, <3>1 DEF ShipMerges, Merges
    <3> QED BY <1>2, <2>1, <3>1, <3>2 DEF SettingsInStep
  <2>7. \A t \in (1 .. 6) \ (missed.source \ S) : u.source[SourceFields[t][1]] = owned.source[SourceFields[t][1]]
    <3>1. Len(SourceFields) = 6
      BY DEF SourceFields
    <3>2. \A t \in 1 .. 6 : u.source[SourceFields[t][1]] = IF t \in S THEN owned.source[SourceFields[t][1]]
                                                         ELSE d.source[SourceFields[t][1]]
      BY <2>2, <3>1 DEF ShipMerges, Merges
    <3> QED BY <1>1, <2>1, <3>2 DEF SettingsInStep
  <2>8. u \in Ships /\ u.transform = d.transform
    BY <2>2 DEF ShipMerges
  <2>9. SettingsInStep(u)'
    <3>1. {1, 2} = 1 .. 2
      OBVIOUS
    <3> QED BY <1>6, <1>9, <2>6, <2>7, <3>1 DEF SettingsInStep
  <2> QED BY <1>7, <2>4, <2>5, <2>8, <2>9 DEF ArrivesInStep
<1>11. missed.transform \/ copy.transform = owned.transform
  BY <1>6, NothingComing DEF ShipKept
<1> QED BY <1>6, <1>8, <1>9, <1>10, <1>11 DEF ShipKept

(* What a post that the peer does not get takes along counts as missed.        *)
LEMMA PostPastKeeps ==
  ASSUME CodecTypeOK, ShipKept, PostPast
  PROVE  ShipKept'
<1>1. UNCHANGED <<owned, wire, copy, garbled>>
  BY DEF PostPast
<1>2. /\ targets'.bank = {} /\ targets'.source = {} /\ missed'.bank = missed.bank \cup targets.bank
      /\ missed'.source = missed.source \cup targets.source /\ missed'.transform = missed.transform
  BY DEF PostPast, CodecTypeOK
<1>3. ASSUME NEW c \in Ships, SettingsInStep(c) PROVE SettingsInStep(c)'
  BY <1>1, <1>2, <1>3 DEF SettingsInStep
<1>4. owned' \in Ships
  BY <1>1 DEF ShipKept
<1> QED BY <1>1, <1>2, <1>3, <1>4, OwnerKeeps

(* With an update on its way the transform is made up for.                     *)
LEMMA UpdateKeeps ==
  ASSUME CodecTypeOK, ShipKept, NEW v \in Nat, Update(v)
  PROVE  ShipKept'
<1>1. PICK p : p = Append(Push(<<>>, owned', TransformFields), <<2, 1>>)
  OBVIOUS
<1>2. wire = <<>> /\ wire' = [how |-> "update", body |-> p] /\ UNCHANGED <<copy, garbled, targets>>
      /\ owned' = [owned EXCEPT !.transform = v]
  BY <1>1 DEF Update, Sent
<1>3. owned \in Ships /\ copy \in Ships /\ ~garbled
  BY DEF ShipKept
<1>4. owned' \in Ships /\ owned'.bank = owned.bank /\ owned'.source = owned.source
  BY <1>2, <1>3 DEF Ships
<1>5. wire' # <<>> /\ wire'.how = "update" /\ wire'.body = p /\ Updating'
  <2>1. DOMAIN wire' # DOMAIN <<>>
    BY <1>2
  <2> QED BY <1>2, <2>1 DEF Updating
<1>6. missed'.bank = missed.bank /\ missed'.source = missed.source /\ missed'.transform = FALSE
  BY DEF Update, CodecTypeOK
<1>7. ASSUME NEW d \in Ships, d.bank = copy.bank, d.source = copy.source PROVE ArrivesInStep(d)'
  <2>1. SettingsInStep(d)
    BY <1>2, <1>7, NothingComing DEF ShipKept
  <2>2. PICK o \in Ships : o = owned'
    BY <1>4
  <2>3. PICK u \in Ships : /\ ApplyUpdate(Append(Push(<<>>, o, TransformFields), <<2, 1>>), d) = Reader(<<>>, u)
                           /\ u.transform = o.transform /\ u.bank = d.bank /\ u.source = d.source
    BY UpdateRead
  <2>4. PICK r : r = Reader(<<>>, u)
    OBVIOUS
  <2>5. Coming(d)' = r
    BY <1>1, <1>5, <2>2, <2>3, <2>4 DEF Coming
  <2>6. r.ok = TRUE /\ r.obj = u
    BY <2>4 DEF Reader
  <2>7. SettingsInStep(u)'
    BY <1>2, <1>4, <1>6, <2>1, <2>3 DEF SettingsInStep
  <2> QED BY <1>5, <1>6, <2>2, <2>3, <2>5, <2>6, <2>7 DEF ArrivesInStep
<1> QED BY <1>2, <1>3, <1>4, <1>5, <1>7 DEF ShipKept

(* A copy that took what was on its way is in step, and nothing is on its way. *)
LEMMA ReceiveKeeps ==
  ASSUME CodecTypeOK, ShipKept, kind = "ship", Receive
  PROVE  ShipKept'
<1>1. PICK r : r = Coming(copy)
  OBVIOUS
<1>2. ArrivesInStep(copy) /\ owned \in Ships
  BY DEF ShipKept
<1>3. r.ok = TRUE /\ r.obj \in Ships /\ SettingsInStep(r.obj)
      /\ r.obj.transform = IF Updating /\ ~missed.transform THEN owned.transform
                           ELSE IF Updating THEN r.obj.transform ELSE copy.transform
  BY <1>1, <1>2 DEF ArrivesInStep
<1>4. Unpacked("ship", wire.body, copy) = UnpackShip(wire.body, copy)
  BY DEF Unpacked
<1>5. r = IF wire.how = "update" THEN ApplyUpdate(wire.body, copy) ELSE Unpacked(kind, wire.body, copy)
  BY <1>1, <1>4 DEF Receive, Coming
<1>6. copy' = r.obj /\ garbled' = ~r.ok /\ wire' = <<>> /\ UNCHANGED <<owned, targets, missed>>
  BY <1>5 DEF Receive
<1>7. PICK c \in Ships : c = r.obj
  BY <1>3
<1>8. ASSUME NEW d \in Ships, d.bank = c.bank, d.source = c.source PROVE ArrivesInStep(d)'
  <2>1. SettingsInStep(d)'
    BY <1>3, <1>6, <1>7, <1>8 DEF SettingsInStep
  <2>2. PICK q : q = Coming(d)'
    OBVIOUS
  <2>3. q = Reader(<<>>, d) /\ ~Updating'
    BY <1>6, <2>2 DEF Coming, Updating
  <2>4. q.ok = TRUE /\ q.obj = d
    BY <2>3 DEF Reader
  <2> QED BY <2>1, <2>2, <2>3, <2>4 DEF ArrivesInStep
<1>9. missed.transform \/ c.transform = owned.transform
  BY <1>3, <1>7 DEF ShipKept
<1> QED BY <1>2, <1>3, <1>6, <1>7, <1>8, <1>9 DEF ShipKept

(* The inductive invariant of the codec holds in every reachable state.        *)
THEOREM CodecReachable == SpecCodec => []CodecIInv
<1>1. CodecIInv /\ [NextCodec]_codecVars => CodecIInv'
  <2> SUFFICES ASSUME CodecIInv, [NextCodec]_codecVars, kind' = "ship", ~replaced' PROVE ShipKept'
    BY CodecTypeKept DEF CodecIInv
  <2>1. CodecTypeOK
    BY DEF CodecIInv
  <2>2. CASE UNCHANGED codecVars
    <3>1. ShipKept /\ UNCHANGED <<owned, wire, copy, garbled, targets, missed>>
      BY <2>2 DEF codecVars, CodecIInv
    <3>2. ASSUME NEW c \in Ships, SettingsInStep(c) PROVE SettingsInStep(c)'
      BY <3>1, <3>2 DEF SettingsInStep
    <3>3. owned' \in Ships
      BY <3>1 DEF ShipKept
    <3> QED BY <3>1, <3>2, <3>3, OwnerKeeps
  <2>3. ASSUME NEW o \in Objects(kind), Change(o) PROVE FALSE
    <3>1. kind = "ship"
      BY <2>3 DEF Change, Changed
    <3> QED BY <2>3, <3>1 DEF Objects
  <2>5. ASSUME NEW v \in Nat, NEW t \in {1, 4, 5}, Set("source", SourceFields, t, v) PROVE ShipKept'
    <3>1. kind = "ship" /\ ~replaced
      BY <2>5 DEF Set
    <3>2. ShipKept
      BY <3>1 DEF CodecIInv
    <3> QED BY <2>1, <2>5, <3>2, SetKeeps
  <2>6. ASSUME NEW v \in Nat, NEW t \in {1, 2}, Set("bank", BankFields, t, v) PROVE ShipKept'
    <3>1. kind = "ship" /\ ~replaced
      BY <2>6 DEF Set
    <3>2. ShipKept
      BY <3>1 DEF CodecIInv
    <3> QED BY <2>1, <2>6, <3>2, SetKeeps
  <2>7. ASSUME NEW v \in Nat, SetThrottle(v) PROVE ShipKept'
    <3>1. PICK w \in Nat : w = IF v > 1 THEN 1 ELSE v
      OBVIOUS
    <3>2. 1 \in {1, 4, 5} /\ Set("source", SourceFields, 1, w)
      BY <2>7, <3>1 DEF SetThrottle
    <3> QED BY <2>5, <3>2
  <2>8. ASSUME NEW v \in Nat, Slide(v) PROVE ShipKept'
    <3>1. ShipKept
      BY <2>8 DEF Slide, CodecIInv
    <3> QED BY <2>1, <2>8, <3>1, SlideKeeps
  <2>9. ASSUME NEW v \in Nat, Turn(v) PROVE ShipKept'
    <3>1. ShipKept
      BY <2>9 DEF Turn, CodecIInv
    <3> QED BY <2>1, <2>9, <3>1, TurnKeeps
  <2>10. ASSUME NEW v \in Nat, CopyTurns(v) PROVE ShipKept'
    <3>1. ShipKept
      BY <2>10 DEF CopyTurns, CodecIInv
    <3> QED BY <2>1, <2>10, <3>1, CopyTurnsKeeps
  <2>11. ASSUME NEW v \in Nat, Update(v) PROVE ShipKept'
    <3>1. ShipKept
      BY <2>11 DEF Update, Sent, CodecIInv
    <3> QED BY <2>1, <2>11, <3>1, UpdateKeeps
  <2>12. ASSUME NEW t \in Gradients, NEW c \in Curves, Set("source", SourceFields, t, c) PROVE ShipKept'
    <3>1. kind = "ship" /\ ~replaced /\ c = CurveOf(1) /\ t \in {2, 3}
      BY <2>12 DEF Set, Gradients
    <3>2. ShipKept
      BY <3>1 DEF CodecIInv
    <3> QED BY <2>1, <2>12, <3>1, <3>2, SetKeeps
  <2>13. CASE Post
    <3>1. ShipKept
      BY <2>13 DEF Post, Sent, CodecIInv
    <3> QED BY <2>1, <2>13, <3>1, PostKeeps
  <2>14. CASE PostPast
    <3>1. ShipKept
      BY <2>14 DEF PostPast, CodecIInv
    <3> QED BY <2>1, <2>14, <3>1, PostPastKeeps
  <2>15. CASE Send
    BY <2>15 DEF Send, Sent
  <2>16. CASE Receive
    <3>1. ShipKept /\ kind = "ship"
      BY <2>16 DEF Receive, CodecIInv
    <3> QED BY <2>1, <2>16, <3>1, ReceiveKeeps
  <2>17. Values \subseteq Nat /\ {4, 5} \subseteq {1, 4, 5}
    BY CodecAssumption
  <2> QED BY <2>2, <2>3, <2>5, <2>6, <2>7, <2>8, <2>9, <2>10, <2>11, <2>12, <2>13, <2>14, <2>15, <2>16, <2>17
      DEF NextCodec
<1> QED BY <1>1, CodecInitially, PTL DEF SpecCodec

(* Messages in bodies: the copy of a ship keeps step with its owner in all     *)
(* that it is told.                                                            *)
THEOREM CodecHolds == SpecCodec => []CodecInv
<1>1. CodecIInv => CodecInv
  <2> SUFFICES ASSUME CodecTypeOK, ShipKept, wire = <<>>
               PROVE  SettingsInStep(copy) /\ (~missed.transform => copy.transform = owned.transform)
    BY DEF CodecInv, CodecIInv, ShipInStep, ShipKept
  <2> QED BY NothingComing DEF ShipKept
<1> QED BY <1>1, CodecReachable, PTL

-----------------------------------------------------------------------------
(* Codec: what is sent whole.                                                  *)

(* Pushing the fields of an object, one or two, appends their cells.           *)
LEMMA PushOne ==
  ASSUME NEW b \in Seq(Cells), NEW o, NEW x, NEW size \in Nat, o[x] \in Int
  PROVE  Push(b, o, <<<<x, size>>>>) = Append(b, <<size, o[x]>>) /\ Append(b, <<size, o[x]>>) \in Seq(Cells)
<1>1. PICK fields : fields = <<<<x, size>>>>
  OBVIOUS
<1>2. Len(fields) = 1 /\ fields[1][1] = x /\ fields[1][2] = size
  BY <1>1
<1>3. PICK e : e = [i \in 1 .. 1 |-> <<fields[i][2], o[fields[i][1]]>>]
  OBVIOUS
<1>4. e = <<<<size, o[x]>>>>
  BY <1>2, <1>3
<1>5. Push(b, o, fields) = b \o e
  BY <1>2, <1>3 DEF Push
<1>6. <<size, o[x]>> \in Cells
  BY DEF Cells
<1>7. Append(b, <<size, o[x]>>) \in Seq(Cells)
  BY <1>6, Appended
<1>8. b \o e = Append(b, <<size, o[x]>>)
  BY <1>4, <1>6
<1> QED BY <1>1, <1>5, <1>7, <1>8, Zenon

(* Two elements that are appended together or one after the other.             *)
LEMMA TwoMore ==
  ASSUME NEW S, NEW b \in Seq(S), NEW p \in S, NEW q \in S
  PROVE  b \o <<p, q>> = Append(Append(b, p), q)
  OBVIOUS

(* Two fields that are pushed: the body after the first, and after both.       *)
Pushes(fields, o, b, d, c) == Push(b, o, fields) = c /\ d \in Seq(Cells) /\ c \in Seq(Cells)
LEMMA PushTwo ==
  ASSUME NEW b \in Seq(Cells), NEW o, NEW x, NEW sx \in Nat, o[x] \in Int, NEW y, NEW sy \in Nat, o[y] \in Int,
         NEW d, d = Append(b, <<sx, o[x]>>), NEW c, c = Append(d, <<sy, o[y]>>)
  PROVE  Pushes(<<<<x, sx>>, <<y, sy>>>>, o, b, d, c)
<1>1. PICK fields : fields = <<<<x, sx>>, <<y, sy>>>>
  OBVIOUS
<1>2. Len(fields) = 2 /\ fields[1][1] = x /\ fields[1][2] = sx /\ fields[2][1] = y /\ fields[2][2] = sy
  BY <1>1
<1>3. PICK p \in Cells : p = <<sx, o[x]>>
  BY DEF Cells
<1>4. PICK q \in Cells : q = <<sy, o[y]>>
  BY DEF Cells
<1>5. PICK e : e = [i \in 1 .. 2 |-> <<fields[i][2], o[fields[i][1]]>>]
  OBVIOUS
<1>6. e = <<p, q>>
  BY <1>2, <1>3, <1>4, <1>5
<1>7. Push(b, o, fields) = b \o e
  BY <1>2, <1>5 DEF Push
<1>8. b \o <<p, q>> = Append(Append(b, p), q)
  BY TwoMore
<1>9. d \in Seq(Cells)
  BY <1>3, Appended
<1>10. c \in Seq(Cells)
  BY <1>4, <1>9, Appended
<1> QED BY <1>1, <1>3, <1>4, <1>6, <1>7, <1>8, <1>9, <1>10 DEF Pushes

(* A value that was pushed at another size is zero or torn, if it is read      *)
(* where a zero would stay.                                                    *)
LEMMA TornRead ==
  ASSUME NEW b \in Seq(Cells), NEW s \in Nat, NEW v \in Int, NEW size \in Nat, size # s,
         NEW c, c = Append(b, <<s, v>>)
  PROVE  Value(c, size, 0) \in {0, Garbage}
<1>1. <<s, v>> \in Cells
  BY DEF Cells
<1>2. c \in Seq(Cells) /\ Len(c) = Len(b) + 1 /\ Len(b) \in Nat /\ c[Len(b) + 1] = <<s, v>>
  BY <1>1, Appended
<1>3. Last(c) = <<s, v>>
  BY <1>2 DEF Last
<1>4. ~Aligned(c, size)
  BY <1>3 DEF Aligned
<1> QED BY <1>4 DEF Value

(* What a curve of the code holds.                                             *)
Payloads == {c \in [class : CurveIds, x : Nat, y : Nat] :
               /\ c.class = 1 <=> c.x = 0
               /\ c.class \in {3, 4} <=> c.y # 0}

(* A curve that was packed is read as it was; if it has a payload, no class    *)
(* can be read from that.                                                      *)
ReadsCurve(p, b, c) ==
  /\ p \in Seq(Cells) /\ UnpackCurve(p, CurveOf(c.class)) = Reader(b, c)
  /\ c.class = 1 => p = b
  /\ c.class # 1 => Value(p, 1, 0) \notin CurveIds
LEMMA CurveRead ==
  ASSUME NEW b \in Seq(Cells), NEW c \in Payloads
  PROVE  ReadsCurve(PackCurve(b, c), b, c)
<1>1. PICK k \in 1 .. 4 : k = c.class
  BY DEF Payloads, CurveIds, CurveFields
<1>2. PICK vx \in Nat : vx = c.x
  BY DEF Payloads
<1>3. PICK vy \in Nat : vy = c.y
  BY DEF Payloads
<1>4. c = [class |-> k, x |-> vx, y |-> vy]
  BY <1>1, <1>2, <1>3 DEF Payloads
<1>5. (k = 1 <=> vx = 0) /\ (k \in {3, 4} <=> vy # 0)
  BY <1>1, <1>2, <1>3 DEF Payloads
<1>6. PICK o : o = CurveOf(c.class)
  OBVIOUS
<1>7. o = [class |-> k, x |-> 0, y |-> 0]
  BY <1>1, <1>6 DEF CurveOf
<1>8. CASE k = 1
  <2>1. c = CurveOf(1) /\ o = CurveOf(1)
    BY <1>4, <1>5, <1>7, <1>8 DEF CurveOf
  <2> QED BY <1>1, <1>6, <1>8, <2>1, LinearIsEmpty DEF ReadsCurve
<1>9. 0 \notin CurveIds /\ Garbage \notin CurveIds
  BY DEF CurveIds, CurveFields, Garbage
<1>10. CASE k = 2
  <2>1. CurveFields[k] = <<<<"x", 4>>>> /\ vy = 0
    BY <1>5, <1>10 DEF CurveFields
  <2>2. PICK p : p = Append(b, <<4, vx>>)
    OBVIOUS
  <2>3. PackCurve(b, c) = p /\ p \in Seq(Cells)
    <3>1. c["x"] = vx /\ c["x"] \in Int /\ 4 \in Nat
      BY <1>2
    <3>2. Push(b, c, <<<<"x", 4>>>>) = Append(b, <<4, c["x"]>>) /\ Append(b, <<4, c["x"]>>) \in Seq(Cells)
      BY <3>1, PushOne
    <3> QED BY <1>1, <2>1, <2>2, <3>1, <3>2 DEF PackCurve
  <2>4. PopsOne(p, 4, vx, b)
    <3>1. 4 \in Nat /\ vx \in Int
      OBVIOUS
    <3> QED BY <2>2, <3>1, PopOne
  <2>5. Reverse(<<<<"x", 4>>>>) = <<<<"x", 4>>>>
    <3>1. PICK w : w = <<<<"x", 4>>>>
      OBVIOUS
    <3>2. w = [i \in 1 .. 1 |-> w[i]] /\ Len(w) = 1
      BY <3>1
    <3>3. Reverse(w) = [i \in 1 .. 1 |-> w[(1 - i) + 1]]
      BY <3>2 DEF Reverse
    <3>4. \A i \in 1 .. 1 : (1 - i) + 1 = i
      OBVIOUS
    <3> QED BY <3>1, <3>2, <3>3, <3>4
  <2>6. UnpackCurve(p, o) = Pop(Reader(p, o), <<<<"x", 4>>>>)
    BY <1>7, <2>1, <2>5 DEF UnpackCurve, Reader
  <2>7. [o EXCEPT !["x"] = vx] = c
    BY <1>4, <1>7, <2>1
  <2>8. UnpackCurve(p, o) = Reader(b, c)
    BY <2>4, <2>6, <2>7 DEF PopsOne
  <2>9. Value(p, 1, 0) \in {0, Garbage}
    <3>1. 4 \in Nat /\ 1 \in Nat /\ 1 # 4 /\ vx \in Int
      OBVIOUS
    <3> QED BY <2>2, <3>1, TornRead
  <2> QED BY <1>1, <1>6, <1>9, <1>10, <2>3, <2>8, <2>9 DEF ReadsCurve
<1>11. CASE k \in {3, 4}
  <2>1. PICK sx \in Nat : sx = IF k = 3 THEN 1 ELSE 16
    OBVIOUS
  <2>2. PICK sy \in Nat : sy = IF k = 3 THEN 4 ELSE 16
    OBVIOUS
  <2>3. CurveFields[k] = <<<<"x", sx>>, <<"y", sy>>>>
    BY <1>11, <2>1, <2>2 DEF CurveFields
  <2>4. PICK d : d = Append(b, <<sx, vx>>)
    OBVIOUS
  <2>5. PICK p : p = Append(d, <<sy, vy>>)
    OBVIOUS
  <2>6. PackCurve(b, c) = p /\ d \in Seq(Cells) /\ p \in Seq(Cells)
    <3>1. c["x"] = vx /\ c["x"] \in Int /\ c["y"] = vy /\ c["y"] \in Int
      BY <1>2, <1>3
    <3>2. d = Append(b, <<sx, c["x"]>>) /\ p = Append(d, <<sy, c["y"]>>)
      BY <2>4, <2>5, <3>1
    <3>3. Pushes(<<<<"x", sx>>, <<"y", sy>>>>, c, b, d, p)
      BY <3>1, <3>2, PushTwo
    <3> QED BY <1>1, <2>3, <3>3 DEF PackCurve, Pushes
  <2>7. PopsTwo(p, "y", sy, vy, "x", sx, vx, b)
    <3>1. vx \in Int /\ vy \in Int
      OBVIOUS
    <3> QED BY <2>4, <2>5, <3>1, PopTwo
  <2>8. Reverse(<<<<"x", sx>>, <<"y", sy>>>>) = <<<<"y", sy>>, <<"x", sx>>>>
    <3>1. PICK w : w = <<<<"x", sx>>, <<"y", sy>>>>
      OBVIOUS
    <3>2. Len(w) = 2 /\ w[1] = <<"x", sx>> /\ w[2] = <<"y", sy>>
      BY <3>1
    <3>3. PICK z : z = [i \in 1 .. 2 |-> w[(2 - i) + 1]]
      OBVIOUS
    <3>4. Reverse(w) = z
      BY <3>2, <3>3 DEF Reverse
    <3>5. z[1] = w[2] /\ z[2] = w[1]
      BY <3>3
    <3>6. z = <<w[2], w[1]>>
      BY <3>3, <3>5
    <3> QED BY <3>1, <3>2, <3>4, <3>6
  <2>9. UnpackCurve(p, o) = Pop(Reader(p, o), <<<<"y", sy>>, <<"x", sx>>>>)
    BY <1>7, <2>3, <2>8 DEF UnpackCurve, Reader
  <2>10. [[o EXCEPT !["y"] = vy] EXCEPT !["x"] = vx] = c
    BY <1>4, <1>7
  <2>11. UnpackCurve(p, o) = Reader(b, c)
    BY <2>7, <2>9, <2>10 DEF PopsTwo
  <2>12. Value(p, 1, 0) \in {0, Garbage}
    <3>1. 1 \in Nat /\ 1 # sy /\ vy \in Int
      BY <2>2
    <3>2. d \in Seq(Cells)
      BY <2>6
    <3> QED BY <2>5, <3>1, <3>2, TornRead
  <2> QED BY <1>1, <1>6, <1>9, <1>11, <2>6, <2>11, <2>12 DEF ReadsCurve
<1> QED BY <1>8, <1>10, <1>11

(* The bodies while a pipe is packed, from its last stage to its first: each   *)
(* stage twice and its class.                                                  *)
Stages(P, stages) ==
  /\ P \in [0 .. Len(stages) -> Seq(Cells)] /\ P[0] = <<>>
  /\ \A i \in 1 .. Len(stages) :
       LET c == stages[Len(stages) + 1 - i]
       IN  P[i] = Append(PackCurve(PackCurve(P[i - 1], c), c), <<1, c.class>>)
LEMMA PacksPipe ==
  ASSUME NEW stages \in Seq(Payloads)
  PROVE  \E P : Stages(P, stages) /\ PackPipe([stages |-> stages]) = Append(P[Len(stages)], <<8, Len(stages)>>)
<1>1. PICK n \in Nat : n = Len(stages)
  OBVIOUS
<1> DEFINE St(b, i) == LET c == stages[n + 1 - i] IN Append(PackCurve(PackCurve(b, c), c), <<1, c.class>>)
<1>2. ASSUME NEW b \in Seq(Cells), NEW i \in 1 .. n PROVE St(b, i) \in Seq(Cells)
  <2>1. n + 1 - i \in 1 .. n
    OBVIOUS
  <2>2. PICK c \in Payloads : c = stages[n + 1 - i]
    BY <1>1, <2>1
  <2>3. PICK d : d = PackCurve(b, c)
    OBVIOUS
  <2>4. d \in Seq(Cells)
    BY <2>3, CurveRead DEF ReadsCurve
  <2>5. PICK e : e = PackCurve(d, c)
    OBVIOUS
  <2>6. e \in Seq(Cells)
    BY <2>4, <2>5, CurveRead DEF ReadsCurve
  <2>7. <<1, c.class>> \in Cells
    BY DEF Cells, Payloads, CurveIds, CurveFields
  <2>8. Append(e, <<1, c.class>>) \in Seq(Cells)
    BY <2>6, <2>7, Appended
  <2> QED BY <2>2, <2>3, <2>5, <2>8
<1>3. PICK R : R = [i \in 1 .. n |-> [b \in Seq(Cells) |-> St(b, i)]]
  OBVIOUS
<1> HIDE DEF St
<1>4. \A i \in 1 .. n : R[i] \in [Seq(Cells) -> Seq(Cells)]
  BY <1>2, <1>3
<1>5. <<>> \in Seq(Cells)
  OBVIOUS
<1>6. PICK P \in [0 .. n -> Seq(Cells)] : Runs(P, <<>>, R, n)
  BY <1>4, <1>5, Iterates
<1>7. P[0] = <<>> /\ \A i \in 1 .. n : P[i] = St(P[i - 1], i)
  <2>1. ASSUME NEW i \in 1 .. n PROVE P[i] = St(P[i - 1], i)
    <3>1. i - 1 \in 0 .. n
      OBVIOUS
    <3>2. P[i - 1] \in Seq(Cells)
      BY <3>1
    <3> QED BY <1>3, <1>6, <3>2 DEF Runs
  <2> QED BY <1>6, <2>1 DEF Runs
<1>8. P = [i \in 0 .. n |-> IF i = 0 THEN <<>> ELSE St(P[i - 1], i)]
  <2>1. \A i \in 0 .. n : i = 0 \/ (i \in 1 .. n /\ i # 0)
    OBVIOUS
  <2>2. P = [i \in 0 .. n |-> P[i]]
    OBVIOUS
  <2> QED BY <1>7, <2>1, <2>2
<1>9. PICK o : o = [stages |-> stages]
  OBVIOUS
<1>10. o.stages = stages
  BY <1>9
<1> DEFINE N == Len(o.stages)
           Step(b, i) == LET c == o.stages[N + 1 - i] IN Append(PackCurve(PackCurve(b, c), c), <<1, c.class>>)
<1>11. PICK g : g = CHOOSE f : f = [i \in 0 .. N |-> IF i = 0 THEN <<>> ELSE Step(f[i - 1], i)]
  OBVIOUS
<1>12. PackPipe(o) = Append(g[N], <<8, N>>)
  BY <1>11, Zenon DEF PackPipe, Repeat
<1>13. N = n /\ \A b, i : Step(b, i) = St(b, i)
  BY <1>1, <1>10 DEF St
<1> HIDE DEF N, Step
<1>14. g = [i \in 0 .. n |-> IF i = 0 THEN <<>> ELSE St(g[i - 1], i)]
  <2>1. P = [i \in 0 .. N |-> IF i = 0 THEN <<>> ELSE Step(P[i - 1], i)]
    BY <1>8, <1>13
  <2>2. g = [i \in 0 .. N |-> IF i = 0 THEN <<>> ELSE Step(g[i - 1], i)]
    BY <1>11, <2>1
  <2> QED BY <1>13, <2>2
<1>15. PICK T : T = {i \in 0 .. n : g[i] = P[i]}
  OBVIOUS
<1>16. 0 \in T
  BY <1>7, <1>14, <1>15
<1>17. ASSUME NEW i \in 1 .. n, i - 1 \in T PROVE i \in T
  <2>1. i \in 0 .. n /\ i # 0
    OBVIOUS
  <2>2. g[i] = St(g[i - 1], i) /\ P[i] = St(P[i - 1], i)
    BY <1>7, <1>14, <2>1
  <2> QED BY <1>15, <1>17, <2>1, <2>2
<1>18. \A i \in 0 .. n : i \in T
  BY <1>16, <1>17, Throughout
<1>19. g[n] = P[n]
  BY <1>15, <1>18
<1>20. PackPipe([stages |-> stages]) = Append(P[n], <<8, n>>)
  BY <1>9, <1>12, <1>13, <1>19
<1>21. Stages(P, stages)
  BY <1>1, <1>7 DEF Stages, St
<1> QED BY <1>1, <1>20, <1>21

(* One stage of a pipe that is read.                                           *)
Staged(r) ==
  IF ~r.ok \/ Value(r.body, 1, 0) \notin CurveIds THEN [r EXCEPT !.ok = FALSE]
  ELSE LET u == UnpackCurve(Rest(r.body, 1), CurveOf(Value(r.body, 1, 0)))
       IN  [u EXCEPT !.obj = [stages |-> Append(r.obj.stages, u.obj)]]

(* The first stages of a pipe.                                                 *)
Firsts(stages, k) == [j \in 1 .. k |-> stages[j]]

(* The first ones and the next.                                                *)
Grows(s, i, t) == t = Firsts(s, i - 1) /\ Append(t, s[i]) = Firsts(s, i)
LEMMA FirstsGrow ==
  ASSUME NEW S, NEW stages \in Seq(S), NEW i \in 1 .. Len(stages)
  PROVE  \E s \in Seq(S) : Grows(stages, i, s)
<1>1. PICK c \in S : c = stages[i]
  BY Elements
<1>2. PICK s \in Seq(S) : s = Firsts(stages, i - 1)
  <2>1. Firsts(stages, i - 1) \in [1 .. i - 1 -> S] /\ i - 1 \in Nat
    <3>1. \A j \in 1 .. i - 1 : j \in 1 .. Len(stages)
      OBVIOUS
    <3>2. \A j \in 1 .. i - 1 : stages[j] \in S
      BY <3>1, Elements
    <3> QED BY <3>2 DEF Firsts
  <2> QED BY <2>1, AsSequence
<1>3. Len(s) = i - 1
  BY <1>2 DEF Firsts
<1>4. PICK t : t = Append(s, c)
  OBVIOUS
<1>5. Len(t) = i /\ t[i] = c /\ (\A j \in 1 .. i - 1 : t[j] = s[j]) /\ t \in Seq(S)
  <2>1. (i - 1) + 1 = i
    OBVIOUS
  <2> QED BY <1>3, <1>4, <2>1, Appended
<1>6. \A j \in 1 .. i - 1 : s[j] = stages[j]
  BY <1>2 DEF Firsts
<1>7. \A j \in 1 .. i : t[j] = stages[j]
  <2>1. \A j \in 1 .. i : j = i \/ j \in 1 .. i - 1
    OBVIOUS
  <2> QED BY <1>1, <1>5, <1>6, <2>1
<1>8. t = [j \in 1 .. i |-> t[j]]
  BY <1>5
<1>9. t = Firsts(stages, i)
  BY <1>7, <1>8 DEF Firsts
<1> QED BY <1>1, <1>2, <1>4, <1>9 DEF Grows

(* A pipe arrives exactly when only its last stage has a payload.              *)
PipeArrives(r, stages) ==
  /\ r.ok \in BOOLEAN
  /\ r.ok = TRUE /\ r.obj = [stages |-> stages] <=> \A i \in 1 .. Len(stages) - 1 : stages[i].class = 1
LEMMA PipeRead ==
  ASSUME NEW stages \in Seq(Payloads)
  PROVE  PipeArrives(UnpackPipe(PackPipe([stages |-> stages])), stages)
<1>1. PICK n \in Nat : n = Len(stages) /\ DOMAIN stages = 1 .. n
  OBVIOUS
<1>2. PICK P : Stages(P, stages) /\ PackPipe([stages |-> stages]) = Append(P[n], <<8, n>>)
  BY <1>1, PacksPipe
<1>3. P \in [0 .. n -> Seq(Cells)] /\ P[n] \in Seq(Cells)
  BY <1>1, <1>2 DEF Stages
<1>4. PICK p : p = Append(P[n], <<8, n>>)
  OBVIOUS
<1>5. Reads(p, 8, n, P[n])
  <2>1. 8 \in Nat /\ n \in Int
    OBVIOUS
  <2> QED BY <1>3, <1>4, <2>1, AlignedRead
<1>6. PICK m \in 0 .. n : (\A j \in 1 .. m - 1 : stages[j].class = 1) /\ (m = n \/ (m \in 1 .. n - 1 /\ stages[m].class # 1))
  <2>1. PICK B : B = {j \in 1 .. n - 1 : stages[j].class # 1}
    OBVIOUS
  <2>2. CASE B = {}
    <3>1. \A j \in 1 .. n - 1 : stages[j].class = 1
      BY <2>1, <2>2
    <3>2. n \in 0 .. n
      OBVIOUS
    <3> QED BY <3>1, <3>2
  <2>3. CASE B # {}
    <3>1. B \in SUBSET Nat
      BY <2>1
    <3>2. PICK k \in B : \A j \in B : k <= j
      BY <2>3, <3>1, LeastNumber
    <3>3. k \in 1 .. n - 1 /\ stages[k].class # 1 /\ k \in 0 .. n
      BY <2>1, <3>2
    <3>4. \A j \in 1 .. k - 1 : stages[j].class = 1
      <4>1. \A j \in 1 .. k - 1 : j \in 1 .. n - 1 /\ ~(k <= j)
        BY <3>3
      <4> QED BY <2>1, <3>2, <4>1
    <3> QED BY <3>3, <3>4
  <2> QED BY <2>2, <2>3
<1> DEFINE Q(i) == IF i = 0 THEN P[n] ELSE PackCurve(P[n - i], stages[i])
           Good(i) == Reader(Q(i), [stages |-> Firsts(stages, i)])
           Bad == [Good(m) EXCEPT !.ok = FALSE]
           St(q, i) == Staged(q)
<1>7. PICK h : h = [i \in 0 .. n |-> IF i <= m THEN Good(i) ELSE Bad]
  OBVIOUS
<1>8. PICK a : a = Reader(P[n], [stages |-> <<>>])
  OBVIOUS
<1>9. h[0] = a
  <2>1. Firsts(stages, 0) = <<>>
    BY DEF Firsts
  <2>2. 0 <= m /\ 0 \in 0 .. n
    OBVIOUS
  <2> QED BY <1>7, <1>8, <2>1, <2>2
<1>10. ASSUME NEW i \in 1 .. m PROVE Staged(Good(i - 1)) = Good(i)
  <2>1. PICK c \in Payloads : c = stages[i]
    BY <1>1
  <2>2. PICK b \in Seq(Cells) : b = P[n - i]
    <3>1. n - i \in 0 .. n
      OBVIOUS
    <3> QED BY <1>3, <3>1
  <2>3. PICK d : d = PackCurve(b, c)
    OBVIOUS
  <2>4. ReadsCurve(d, b, c)
    BY <2>3, CurveRead
  <2>5. PICK e : e = PackCurve(d, c)
    OBVIOUS
  <2>6. d \in Seq(Cells)
    BY <2>4 DEF ReadsCurve
  <2>7. ReadsCurve(e, d, c)
    BY <2>5, <2>6, CurveRead
  <2>8. PICK k \in Int : k = c.class
    BY DEF Payloads, CurveIds, CurveFields
  <2>9. PICK f : f = Append(e, <<1, k>>)
    OBVIOUS
  <2>10. f = P[n - (i - 1)]
    <3>1. n - (i - 1) \in 1 .. n /\ n - (i - 1) - 1 = n - i /\ n + 1 - (n - (i - 1)) = i
      OBVIOUS
    <3> QED BY <1>1, <1>2, <2>1, <2>2, <2>3, <2>5, <2>8, <2>9, <3>1 DEF Stages
  <2>11. Q(i - 1) = f
    <3>1. CASE i = 1
      <4>1. i - 1 = 0
        BY <3>1
      <4>2. f = P[n]
        BY <2>10, <3>1
      <4> QED BY <4>1, <4>2
    <3>2. CASE i # 1
      <4>1. i - 1 \in 1 .. m - 1 /\ i - 1 # 0 /\ i - 1 \in 1 .. n
        BY <3>2
      <4>2. PICK x \in Payloads : x = stages[i - 1]
        BY <1>1, <4>1
      <4>3. x.class = 1
        BY <1>6, <4>1, <4>2
      <4>4. n - (i - 1) \in 0 .. n
        OBVIOUS
      <4>5. PICK y \in Seq(Cells) : y = P[n - (i - 1)]
        BY <1>3, <4>4
      <4>6. PackCurve(y, x) = y
        BY <4>3, CurveRead DEF ReadsCurve
      <4> QED BY <2>10, <4>1, <4>2, <4>5, <4>6
    <3> QED BY <3>1, <3>2
  <2>12. Reads(f, 1, k, e)
    <3>1. e \in Seq(Cells) /\ 1 \in Nat
      BY <2>7 DEF ReadsCurve
    <3> QED BY <2>9, <3>1, AlignedRead
  <2>13. PICK s \in Seq(Payloads) : Grows(stages, i, s)
    BY <1>1, FirstsGrow
  <2>14. s = Firsts(stages, i - 1) /\ Append(s, c) = Firsts(stages, i)
    BY <2>1, <2>13 DEF Grows
  <2>15. PICK r : r = Reader(f, [stages |-> s])
    OBVIOUS
  <2>16. r.ok = TRUE /\ r.body = f /\ r.obj.stages = s
    BY <2>15 DEF Reader
  <2>17. Value(r.body, 1, 0) = k /\ k \in CurveIds /\ Rest(r.body, 1) = e
    BY <2>8, <2>12, <2>16 DEF Reads, Payloads
  <2>18. PICK u : u = Reader(d, c)
    OBVIOUS
  <2>19. UnpackCurve(e, CurveOf(k)) = u
    BY <2>7, <2>8, <2>18 DEF ReadsCurve
  <2>20. Staged(r) = [u EXCEPT !.obj = [stages |-> Append(s, u.obj)]]
    BY <2>16, <2>17, <2>19 DEF Staged
  <2>21. u.obj = c /\ [u EXCEPT !.obj = [stages |-> Append(s, c)]] = Reader(d, [stages |-> Append(s, c)])
    <3>1. PICK w : w = [stages |-> Append(s, c)]
      OBVIOUS
    <3>2. u = [body |-> d, obj |-> c, ok |-> TRUE]
      BY <2>18 DEF Reader
    <3>3. PICK z : z = [u EXCEPT !.obj = w]
      OBVIOUS
    <3>4. z = [body |-> d, obj |-> w, ok |-> TRUE]
      BY <3>2, <3>3
    <3> QED BY <3>1, <3>2, <3>3, <3>4 DEF Reader
  <2>22. Good(i - 1) = r /\ Good(i) = Reader(d, [stages |-> Append(s, c)])
    <3>1. Q(i) = d
      BY <2>1, <2>2, <2>3
    <3> HIDE DEF Q
    <3> QED BY <2>11, <2>14, <2>15, <3>1
  <2> QED BY <2>20, <2>21, <2>22
<1>11. m # n => Staged(Good(m)) = Bad
  <2> SUFFICES ASSUME m # n PROVE Staged(Good(m)) = Bad
    OBVIOUS
  <2>1. m \in 1 .. n - 1 /\ stages[m].class # 1 /\ m \in 1 .. n
    BY <1>6
  <2>2. PICK c \in Payloads : c = stages[m]
    BY <1>1, <2>1
  <2>3. PICK b \in Seq(Cells) : b = P[n - m]
    <3>1. n - m \in 0 .. n
      BY <2>1
    <3> QED BY <1>3, <3>1
  <2>4. PICK d : d = PackCurve(b, c)
    OBVIOUS
  <2>5. Value(d, 1, 0) \notin CurveIds
    BY <2>1, <2>2, <2>4, CurveRead DEF ReadsCurve
  <2>6. Q(m) = d
    BY <2>1, <2>2, <2>3, <2>4
  <2>7. PICK r : r = Good(m)
    OBVIOUS
  <2>8. r.body = d
    BY <2>6, <2>7 DEF Reader
  <2>9. Staged(r) = [r EXCEPT !.ok = FALSE]
    BY <2>5, <2>8 DEF Staged
  <2> QED BY <2>7, <2>9
<1>12. Staged(Bad) = Bad /\ Bad.ok = FALSE
  <2>1. PICK x, y : x = Q(m) /\ y = [stages |-> Firsts(stages, m)]
    OBVIOUS
  <2>2. Bad = [body |-> x, obj |-> y, ok |-> FALSE]
    <3>1. PICK w : w = [body |-> x, obj |-> y, ok |-> TRUE]
      OBVIOUS
    <3>2. PICK v : v = [w EXCEPT !.ok = FALSE]
      OBVIOUS
    <3>3. v = [body |-> x, obj |-> y, ok |-> FALSE]
      BY <3>1, <3>2
    <3>4. w = Good(m)
      BY <2>1, <3>1 DEF Reader
    <3> QED BY <3>2, <3>3, <3>4
  <2>3. PICK z : z = [body |-> x, obj |-> y, ok |-> FALSE]
    OBVIOUS
  <2>4. Staged(z) = [z EXCEPT !.ok = FALSE] /\ z.ok = FALSE
    BY <2>3 DEF Staged
  <2>5. [z EXCEPT !.ok = FALSE] = z
    <3>1. PICK v : v = [z EXCEPT !.ok = FALSE]
      OBVIOUS
    <3>2. v = [body |-> x, obj |-> y, ok |-> FALSE]
      BY <2>3, <3>1
    <3> QED BY <2>3, <3>1, <3>2
  <2> QED BY <2>2, <2>3, <2>4, <2>5
<1> HIDE DEF Good, Bad
<1>13. ASSUME NEW i \in 1 .. n PROVE h[i] = St(h[i - 1], i)
  <2>1. i \in 0 .. n /\ i - 1 \in 0 .. n
    OBVIOUS
  <2>2. CASE i <= m
    <3>1. i \in 1 .. m /\ i - 1 <= m
      BY <2>2
    <3>2. h[i] = Good(i) /\ h[i - 1] = Good(i - 1)
      BY <1>7, <2>1, <2>2, <3>1
    <3> QED BY <1>10, <3>1, <3>2
  <2>3. CASE i = m + 1
    <3>1. h[i] = Bad /\ h[i - 1] = Good(m) /\ m # n
      BY <1>7, <2>1, <2>3
    <3> QED BY <1>11, <3>1
  <2>4. CASE i > m + 1
    <3>1. h[i] = Bad /\ h[i - 1] = Bad
      BY <1>7, <2>1, <2>4
    <3> QED BY <1>12, <3>1
  <2> QED BY <2>2, <2>3, <2>4
<1> HIDE DEF St
<1>14. h = [i \in 0 .. n |-> IF i = 0 THEN a ELSE St(h[i - 1], i)]
  <2>1. \A i \in 0 .. n : i = 0 \/ (i \in 1 .. n /\ i # 0)
    OBVIOUS
  <2>2. h = [i \in 0 .. n |-> h[i]]
    BY <1>7
  <2> QED BY <1>9, <1>13, <2>1, <2>2
<1> DEFINE N == Value(p, 8, 0)
           A == [body |-> Rest(p, 8), obj |-> [stages |-> <<>>], ok |-> TRUE]
<1>15. PICK g : g = CHOOSE f : f = [i \in 0 .. N |-> IF i = 0 THEN A ELSE St(f[i - 1], i)]
  OBVIOUS
<1>16. UnpackPipe(p) = g[N]
  BY <1>15, Zenon DEF UnpackPipe, Repeat, St, Staged
<1>17. N = n /\ A = a
  BY <1>5, <1>8 DEF Reads, Reader
<1> HIDE DEF N, A
<1>18. g = [i \in 0 .. n |-> IF i = 0 THEN a ELSE St(g[i - 1], i)]
  <2>1. h = [i \in 0 .. N |-> IF i = 0 THEN A ELSE St(h[i - 1], i)]
    BY <1>14, <1>17
  <2>2. g = [i \in 0 .. N |-> IF i = 0 THEN A ELSE St(g[i - 1], i)]
    BY <1>15, <2>1
  <2> QED BY <1>17, <2>2
<1>19. PICK T : T = {i \in 0 .. n : g[i] = h[i]}
  OBVIOUS
<1>20. 0 \in T
  BY <1>9, <1>18, <1>19
<1>21. ASSUME NEW i \in 1 .. n, i - 1 \in T PROVE i \in T
  <2>1. i \in 0 .. n /\ i # 0
    OBVIOUS
  <2>2. g[i] = St(g[i - 1], i) /\ h[i] = St(h[i - 1], i)
    BY <1>13, <1>18, <2>1
  <2> QED BY <1>19, <1>21, <2>1, <2>2
<1>22. \A i \in 0 .. n : i \in T
  BY <1>20, <1>21, Throughout
<1>23. g[n] = h[n]
  BY <1>19, <1>22
<1>24. UnpackPipe(p) = g[n]
  BY <1>16, <1>17
<1>25. CASE m = n
  <2>1. h[n] = Good(n)
    BY <1>7, <1>25
  <2>2. Firsts(stages, n) = stages
    BY <1>1 DEF Firsts
  <2>3. Good(n).ok = TRUE /\ Good(n).obj = [stages |-> stages]
    BY <2>2 DEF Good, Reader
  <2>4. \A i \in 1 .. n - 1 : stages[i].class = 1
    BY <1>6, <1>25
  <2> QED BY <1>1, <1>2, <1>4, <1>23, <1>24, <2>1, <2>3, <2>4 DEF PipeArrives
<1>26. CASE m # n
  <2>1. h[n] = Bad
    BY <1>7, <1>26
  <2>2. ~\A i \in 1 .. n - 1 : stages[i].class = 1
    BY <1>6, <1>26
  <2> QED BY <1>1, <1>2, <1>4, <1>12, <1>23, <1>24, <2>1, <2>2 DEF PipeArrives
<1> QED BY <1>25, <1>26

(* One element of an array that is read.                                       *)
Taken(q, name, size) == [q EXCEPT !.body = Rest(q.body, size), !.obj[name] = Append(@, Value(q.body, size, 0))]

(* Counted from the other end.                                                 *)
FromEnd(n, i, k) == /\ n - (i - 1) = k /\ n - i = k - 1 /\ (n + 1) - k = i
                    /\ i - 1 \in 0 .. n /\ i \in 0 .. n /\ k - 1 \in Nat
LEMMA Mirror ==
  ASSUME NEW n \in Nat, NEW i \in 1 .. n
  PROVE  \E k \in 1 .. n : FromEnd(n, i, k)
<1>1. PICK k \in 1 .. n : k = (n + 1) - i
  OBVIOUS
<1> QED BY <1>1 DEF FromEnd

(* The object into which the array is read has none yet.                       *)
Empty(o, name) == name \in DOMAIN o /\ [o EXCEPT ![name] = <<>>] = o

(* The elements of an array as they are pushed, and the readers while they are *)
(* popped again, from the first to the last.                                   *)
Pushed(s, n, size, k) == [j \in 1 .. k |-> <<size, s[(n + 1) - j]>>]
TakesAll(h, s, n, size, name, o, e) ==
  /\ h = [i \in 0 .. n |-> h[i]]
  /\ h[0] = Reader(e, o) /\ h[n] = Reader(<<>>, [o EXCEPT ![name] = s])
  /\ \A i \in 1 .. n : h[i] = Taken(h[i - 1], name, size)
LEMMA ArrayTaken ==
  ASSUME NEW s \in Seq(Int), NEW size \in Nat, NEW name, NEW o, NEW n, n = Len(s), Empty(o, name)
  PROVE  \E h : TakesAll(h, s, n, size, name, o, Pushed(s, n, size, n))
<1>1. n \in Nat
  OBVIOUS
<1> DEFINE Fst(i) == Firsts(s, i)
           Rd(i) == Reader(Pushed(s, n, size, n - i), [o EXCEPT ![name] = Fst(i)])
<1>2. PICK h : h = [i \in 0 .. n |-> Rd(i)]
  OBVIOUS
<1>3. h[0] = Reader(Pushed(s, n, size, n), o)
  <2>1. Fst(0) = <<>>
    BY DEF Firsts
  <2>2. [o EXCEPT ![name] = <<>>] = o
    BY DEF Empty
  <2>3. n - 0 = n /\ 0 \in 0 .. n
    BY <1>1
  <2> QED BY <1>2, <2>1, <2>2, <2>3
<1>4. h[n] = Reader(<<>>, [o EXCEPT ![name] = s])
  <2>1. Fst(n) = s
    BY DEF Firsts
  <2>2. Pushed(s, n, size, 0) = <<>>
    BY DEF Pushed
  <2>3. n - n = 0 /\ n \in 0 .. n
    BY <1>1
  <2> QED BY <1>2, <2>1, <2>2, <2>3
<1>5. ASSUME NEW i \in 1 .. n PROVE h[i] = Taken(h[i - 1], name, size)
  <2>1. PICK k \in 1 .. n : FromEnd(n, i, k)
    BY <1>1, Mirror
  <2>2. n - (i - 1) = k /\ n - i = k - 1 /\ (n + 1) - k = i /\ i - 1 \in 0 .. n /\ i \in 0 .. n /\ k - 1 \in Nat
    BY <2>1 DEF FromEnd
  <2>3. PICK v \in Int : v = s[i]
    BY Elements
  <2>4. PICK b \in Seq(Cells) : b = Pushed(s, n, size, k - 1)
    <3>1. Pushed(s, n, size, k - 1) \in [1 .. k - 1 -> Cells]
      <4>1. \A j \in 1 .. k - 1 : (n + 1) - j \in 1 .. Len(s)
        BY <1>1
      <4>2. \A j \in 1 .. k - 1 : s[(n + 1) - j] \in Int
        BY <4>1, Elements
      <4> QED BY <4>2 DEF Pushed, Cells
    <3> QED BY <2>2, <3>1, AsSequence
  <2>5. PICK c : c = Append(b, <<size, v>>)
    OBVIOUS
  <2>6. c = Pushed(s, n, size, k)
    <3>1. <<size, v>> \in Cells /\ Len(b) = k - 1
      BY <2>2, <2>4 DEF Cells, Pushed
    <3>2. Len(c) = k /\ c[k] = <<size, v>> /\ (\A j \in 1 .. k - 1 : c[j] = b[j]) /\ c \in Seq(Cells)
      <4>1. (k - 1) + 1 = k
        OBVIOUS
      <4> QED BY <2>5, <3>1, <4>1, Appended
    <3>3. \A j \in 1 .. k - 1 : b[j] = <<size, s[(n + 1) - j]>>
      BY <2>4 DEF Pushed
    <3>4. \A j \in 1 .. k : c[j] = <<size, s[(n + 1) - j]>>
      <4>1. \A j \in 1 .. k : j = k \/ j \in 1 .. k - 1
        OBVIOUS
      <4> QED BY <2>2, <2>3, <3>2, <3>3, <4>1
    <3>5. c = [j \in 1 .. k |-> c[j]]
      BY <3>2
    <3> QED BY <3>4, <3>5 DEF Pushed
  <2>7. Reads(c, size, v, b)
    BY <2>5, AlignedRead
  <2>8. PICK t : Grows(s, i, t)
    BY FirstsGrow
  <2>9. t = Fst(i - 1) /\ Append(t, v) = Fst(i)
    BY <2>3, <2>8 DEF Grows
  <2> HIDE DEF Fst
  <2>10. PICK a : a = [o EXCEPT ![name] = t]
    OBVIOUS
  <2>11. a[name] = t /\ [a EXCEPT ![name] = Append(t, v)] = [o EXCEPT ![name] = Append(t, v)]
    BY <2>10 DEF Empty
  <2>12. PICK q : q = Reader(c, a)
    OBVIOUS
  <2>13. h[i - 1] = q
    BY <1>2, <2>2, <2>6, <2>9, <2>10, <2>12
  <2>14. h[i] = Reader(b, [a EXCEPT ![name] = Append(t, v)])
    BY <1>2, <2>2, <2>4, <2>9, <2>11
  <2>15. q.body = c /\ q.obj = a /\ Rest(q.body, size) = b /\ Value(q.body, size, 0) = v
    BY <2>7, <2>12 DEF Reads, Reader
  <2>16. PICK z : z = [a EXCEPT ![name] = Append(t, v)]
    OBVIOUS
  <2>17. PICK r1 : r1 = [q EXCEPT !.body = b]
    OBVIOUS
  <2>18. r1 = [body |-> b, obj |-> a, ok |-> TRUE]
    BY <2>12, <2>17 DEF Reader
  <2>19. PICK r2 : r2 = [r1 EXCEPT !.obj = z]
    OBVIOUS
  <2>20. r2 = [body |-> b, obj |-> z, ok |-> TRUE]
    BY <2>18, <2>19
  <2>21. Taken(q, name, size) = r2
    <3>1. r1.obj = a
      BY <2>18
    <3> QED BY <2>11, <2>15, <2>16, <2>17, <2>19, <3>1 DEF Taken
  <2> QED BY <2>13, <2>14, <2>16, <2>20, <2>21 DEF Reader
<1>6. h = [i \in 0 .. n |-> h[i]]
  BY <1>2
<1> QED BY <1>3, <1>4, <1>5, <1>6 DEF TakesAll

(* A recursion that pops the elements of an array, chosen among those there    *)
(* are.                                                                        *)
Recurs(f, k, x, name, size) == f = [i \in 0 .. k |-> IF i = 0 THEN x ELSE Taken(f[i - 1], name, size)]
Chosen(g, k, x, name, size) == (\E f : Recurs(f, k, x, name, size)) => Recurs(g, k, x, name, size)

(* An array that was pushed is popped as it was.                               *)
IsRead(r, s, o, name) == r = Reader(<<>>, [o EXCEPT ![name] = s])
LEMMA ArrayRead ==
  ASSUME NEW s \in Seq(Int), NEW size \in Nat, NEW name, NEW o, NEW n, n = Len(s), Empty(o, name),
         NEW a, a = Reader(Pushed(s, n, size, n), o), NEW g, Chosen(g, n, a, name, size)
  PROVE  IsRead(g[n], s, o, name)
<1>1. n \in Nat
  OBVIOUS
<1>2. PICK h : TakesAll(h, s, n, size, name, o, Pushed(s, n, size, n))
  BY ArrayTaken
<1>3. PICK z : z = Reader(<<>>, [o EXCEPT ![name] = s])
  OBVIOUS
<1>4. h[0] = a /\ h[n] = z /\ h = [i \in 0 .. n |-> h[i]]
  BY <1>2, <1>3 DEF TakesAll
<1> DEFINE St(q) == Taken(q, name, size)
<1>5. ASSUME NEW i \in 1 .. n PROVE h[i] = St(h[i - 1])
  BY <1>2 DEF TakesAll
<1>6. Recurs(h, n, a, name, size) <=> h = [i \in 0 .. n |-> IF i = 0 THEN a ELSE St(h[i - 1])]
  BY DEF Recurs
<1>7. Recurs(g, n, a, name, size) <=> g = [i \in 0 .. n |-> IF i = 0 THEN a ELSE St(g[i - 1])]
  BY DEF Recurs
<1> HIDE DEF St
<1>8. h = [i \in 0 .. n |-> IF i = 0 THEN a ELSE St(h[i - 1])]
  <2>1. \A i \in 0 .. n : i = 0 \/ (i \in 1 .. n /\ i # 0)
    BY <1>1
  <2> QED BY <1>4, <1>5, <2>1
<1>9. g = [i \in 0 .. n |-> IF i = 0 THEN a ELSE St(g[i - 1])]
  BY <1>6, <1>7, <1>8 DEF Chosen
<1>10. PICK T : T = {i \in 0 .. n : g[i] = h[i]}
  OBVIOUS
<1>11. 0 \in T
  <2>1. 0 \in 0 .. n
    BY <1>1
  <2> QED BY <1>4, <1>9, <1>10, <2>1
<1>12. ASSUME NEW i \in 1 .. n, i - 1 \in T PROVE i \in T
  <2>1. i \in 0 .. n /\ i # 0
    OBVIOUS
  <2>2. g[i] = St(g[i - 1]) /\ h[i] = St(h[i - 1])
    BY <1>5, <1>9, <2>1
  <2> QED BY <1>10, <1>12, <2>1, <2>2
<1>13. \A i \in 0 .. n : i \in T
  BY <1>1, <1>11, <1>12, Throughout
<1>14. n \in T
  BY <1>1, <1>13
<1> QED BY <1>3, <1>4, <1>10, <1>14 DEF IsRead

(* What is unpacked of the ids of a grid stays apart from its position.        *)
LEMMA GridRead ==
  ASSUME NEW ids \in Seq(Nat), NEW p \in Nat, NEW c \in [ids : Seq(Nat), gridPos : Nat]
  PROVE  UnpackGrid(PackGrid([ids |-> ids, gridPos |-> p]), c).obj = [c EXCEPT !.gridPos = p]
<1>1. PICK o : o = [ids |-> ids, gridPos |-> p]
  OBVIOUS
<1>2. o["gridPos"] = p /\ o.ids = ids /\ p \in Int
  BY <1>1
<1>3. PICK n \in Nat : n = Len(ids)
  OBVIOUS
<1>4. PICK s \in Seq(Int) : s = ids
  OBVIOUS
<1>5. PICK e \in Seq(Cells) : e = Pushed(s, n, 8, n)
  <2>1. Pushed(s, n, 8, n) \in [1 .. n -> Cells]
    <3>1. \A j \in 1 .. n : (n + 1) - j \in 1 .. Len(s)
      BY <1>3, <1>4
    <3>2. \A j \in 1 .. n : s[(n + 1) - j] \in Int
      BY <3>1, Elements
    <3> QED BY <3>2 DEF Pushed, Cells
  <2> QED BY <2>1, AsSequence
<1>6. PICK w : w = Append(e, <<8, n>>)
  OBVIOUS
<1>7. w \in Seq(Cells) /\ Reads(w, 8, n, e)
  <2>1. <<8, n>> \in Cells /\ n \in Int /\ 8 \in Nat
    BY DEF Cells
  <2>2. Reads(w, 8, n, e)
    BY <1>6, <2>1, AlignedRead
  <2> QED BY <1>6, <2>1, <2>2, Appended
<1>8. packArray(<<>>, ids, 8) = w
  <2>1. \A j \in 1 .. Len(ids) : Len(ids) + 1 - j = (n + 1) - j
    BY <1>3
  <2>2. e = [i \in 1 .. Len(ids) |-> <<8, ids[Len(ids) + 1 - i]>>]
    BY <1>3, <1>4, <1>5, <2>1 DEF Pushed
  <2>3. <<>> \o e = e
    BY <1>5
  <2> QED BY <1>3, <1>6, <2>2, <2>3 DEF packArray
<1>9. PICK m : m = Append(w, <<16, p>>)
  OBVIOUS
<1>10. PackGrid(o) = m
  <2>1. o["gridPos"] \in Int /\ 16 \in Nat
    BY <1>2
  <2>2. /\ Push(w, o, <<<<"gridPos", 16>>>>) = Append(w, <<16, o["gridPos"]>>)
        /\ Append(w, <<16, o["gridPos"]>>) \in Seq(Cells)
    BY <1>7, <2>1, PushOne
  <2> QED BY <1>2, <1>8, <1>9, <2>2 DEF PackGrid
<1>11. PICK g0 \in Nat : g0 = c.gridPos
  OBVIOUS
<1>12. PICK t : t = [gridPos |-> g0, objs |-> <<>>]
  OBVIOUS
<1>13. PICK u : u = [gridPos |-> p, objs |-> <<>>]
  OBVIOUS
<1>14. Pop(Reader(m, t), <<<<"gridPos", 16>>>>) = Reader(w, u)
  <2>1. 16 \in Nat
    OBVIOUS
  <2>2. PopsOne(m, 16, p, w)
    BY <1>2, <1>7, <1>9, <2>1, PopOne
  <2>3. [t EXCEPT !["gridPos"] = p] = u
    BY <1>12, <1>13
  <2> QED BY <2>2, <2>3 DEF PopsOne
<1>15. PICK r : r = Reader(w, u)
  OBVIOUS
<1>16. r.body = w /\ r.obj = u /\ u.gridPos = p
  BY <1>13, <1>15 DEF Reader
<1>17. \E x, y : unpackArray(r, "objs", 8) = Reader(x, y) /\ y.gridPos = p
  <2>1. CASE Bytes(r.body) < 8
    <3>1. Value(r.body, 8, 0) # Garbage
      BY <1>7, <1>16 DEF Reads, Garbage
    <3>2. unpackArray(r, "objs", 8) = r
      BY <2>1, <3>1 DEF unpackArray
    <3> QED BY <1>15, <1>16, <3>2
  <2>2. CASE ~(Bytes(r.body) < 8)
    <3> DEFINE N == Value(r.body, 8, 0)
               A == [r EXCEPT !.body = Rest(r.body, 8)]
               St(q, i) == Taken(q, "objs", 8)
    <3>1. N = n /\ N # Garbage
      BY <1>7, <1>16 DEF Reads, Garbage
    <3>2. A = Reader(e, u)
      <4>1. Rest(r.body, 8) = e
        BY <1>7, <1>16 DEF Reads
      <4>2. PICK a : a = [r EXCEPT !.body = e]
        OBVIOUS
      <4>3. a = [body |-> e, obj |-> u, ok |-> TRUE]
        BY <1>15, <4>2 DEF Reader
      <4> QED BY <4>1, <4>2, <4>3 DEF Reader
    <3>3. PICK g : g = CHOOSE f : f = [k \in 0 .. N |-> IF k = 0 THEN A ELSE St(f[k - 1], k)]
      OBVIOUS
    <3>4. unpackArray(r, "objs", 8) = g[N]
      <4>1. unpackArray(r, "objs", 8) = Repeat(N, A, St)
        <5>1. ~(Bytes(r.body) >= 8 /\ N = Garbage)
          BY <3>1
        <5> QED BY <2>2, <5>1 DEF unpackArray, Repeat, Taken
      <4>2. Repeat(N, A, St) = g[N]
        BY <3>3, Zenon DEF Repeat
      <4> QED BY <4>1, <4>2
    <3>5. Chosen(g, N, A, "objs", 8)
      <4> HIDE DEF N, A
      <4>1. (\E f : f = [k \in 0 .. N |-> IF k = 0 THEN A ELSE St(f[k - 1], k)])
              => g = [k \in 0 .. N |-> IF k = 0 THEN A ELSE St(g[k - 1], k)]
        <5> HIDE DEF St
        <5> QED BY <3>3
      <4> QED BY <4>1 DEF Chosen, Recurs
    <3> HIDE DEF N, A, St
    <3>6. g[n] = Reader(<<>>, [u EXCEPT !["objs"] = s])
      <4>1. Empty(u, "objs")
        BY <1>13 DEF Empty
      <4>2. PICK a : a = A
        OBVIOUS
      <4>3. a = Reader(Pushed(s, n, 8, n), u) /\ Chosen(g, n, a, "objs", 8) /\ 8 \in Nat /\ n = Len(s)
        BY <1>3, <1>4, <1>5, <3>1, <3>2, <3>5, <4>2
      <4>4. IsRead(g[n], s, u, "objs")
        BY <4>1, <4>3, ArrayRead
      <4> QED BY <4>4 DEF IsRead
    <3>7. [u EXCEPT !["objs"] = s].gridPos = p
      BY <1>13
    <3> QED BY <3>1, <3>4, <3>6, <3>7
  <2> QED BY <2>1, <2>2
<1>18. UnpackGrid(m, c).obj = [gridPos |-> p, ids |-> c.ids]
  <2>1. PICK x, y : unpackArray(r, "objs", 8) = Reader(x, y) /\ y.gridPos = p
    BY <1>17
  <2>2. PICK a : a = Reader(x, y)
    OBVIOUS
  <2>3. UnpackGrid(m, c) = [a EXCEPT !.obj = [gridPos |-> a.obj.gridPos, ids |-> c.ids]]
    <3>1. Pop([body |-> m, obj |-> [gridPos |-> c.gridPos, objs |-> <<>>], ok |-> TRUE],
              <<<<"gridPos", 16>>>>) = r
      BY <1>11, <1>12, <1>14, <1>15 DEF Reader
    <3> QED BY <2>1, <2>2, <3>1 DEF UnpackGrid
  <2>4. a = [body |-> x, obj |-> y, ok |-> TRUE]
    BY <2>2 DEF Reader
  <2> QED BY <2>1, <2>3, <2>4
<1>19. [c EXCEPT !.gridPos = p] = [gridPos |-> p, ids |-> c.ids]
  OBVIOUS
<1> QED BY <1>1, <1>10, <1>18, <1>19

(* A text arrives as its first characters.                                     *)
LEMMA ChatRead ==
  ASSUME NEW str \in Seq(Nat), Len(str) >= 2, NEW len, len = LastPacked(str)
  PROVE  UnpackChat(PackChat([str |-> str])).obj.str = SubSeq(str, 1, len + 1)
<1>1. PICK m \in Nat : m = Len(str)
  OBVIOUS
<1>2. len \in Nat /\ len + 1 \in Nat /\ len + 1 <= m /\ len \in Int
  BY <1>1 DEF LastPacked, MaxLen
<1>3. PICK n \in Nat : n = len + 1
  BY <1>2
<1>4. PICK s \in Seq(Int) : s = Firsts(str, n) /\ Len(s) = n
  <2>1. Firsts(str, n) \in [1 .. n -> Int]
    <3>1. \A j \in 1 .. n : j \in 1 .. Len(str)
      BY <1>1, <1>2, <1>3
    <3>2. \A j \in 1 .. n : str[j] \in Nat
      BY <3>1, Elements
    <3> QED BY <3>2 DEF Firsts
  <2> QED BY <2>1, AsSequence
<1>5. \A j \in 1 .. n : s[j] = str[j]
  BY <1>4 DEF Firsts
<1>6. PICK e \in Seq(Cells) : e = Pushed(s, n, 1, n)
  <2>1. Pushed(s, n, 1, n) \in [1 .. n -> Cells]
    <3>1. \A j \in 1 .. n : (n + 1) - j \in 1 .. Len(s)
      BY <1>4
    <3>2. \A j \in 1 .. n : s[(n + 1) - j] \in Int
      BY <3>1, Elements
    <3> QED BY <3>2 DEF Pushed, Cells
  <2> QED BY <2>1, AsSequence
<1>7. PICK w : w = Append(e, <<2, len>>)
  OBVIOUS
<1>8. Reads(w, 2, len, e)
  <2>1. 2 \in Nat
    OBVIOUS
  <2> QED BY <1>2, <1>6, <1>7, <2>1, AlignedRead
<1>9. PackChat([str |-> str]) = w
  <2>1. PICK o : o = [str |-> str]
    OBVIOUS
  <2>2. o.str = str
    BY <2>1
  <2>3. PICK d : d = [i \in 1 .. len + 1 |-> <<1, IF len + 2 - i <= Len(str) THEN str[len + 2 - i] ELSE Garbage>>]
    OBVIOUS
  <2>4. PackChat(o) = d \o <<<<2, len>>>>
    BY <2>2, <2>3 DEF PackChat
  <2>5. \A i \in 1 .. n : len + 2 - i <= Len(str) /\ str[len + 2 - i] = s[(n + 1) - i]
    <3>1. ASSUME NEW i \in 1 .. n PROVE len + 2 - i <= Len(str) /\ str[len + 2 - i] = s[(n + 1) - i]
      <4>1. PICK j \in 1 .. n : FromEnd(n, i, j)
        BY Mirror
      <4>2. (n + 1) - i = j
        <5>1. n - i = j - 1
          BY <4>1 DEF FromEnd
        <5> QED BY <5>1
      <4>3. len + 2 - i = (n + 1) - i
        <5>1. i \in Int /\ len \in Int /\ n = len + 1
          BY <1>2, <1>3
        <5> QED BY ONLY <5>1
      <4>4. j <= n /\ n <= m
        BY <1>2, <1>3
      <4>5. j <= m
        BY <4>4
      <4> QED BY <1>1, <1>5, <4>2, <4>3, <4>5
    <3> QED BY <3>1
  <2>6. d = e
    BY <1>3, <1>6, <2>3, <2>5 DEF Pushed
  <2>7. e \o <<<<2, len>>>> = Append(e, <<2, len>>)
    <3>1. PICK c \in Cells : c = <<2, len>>
      BY <1>2 DEF Cells
    <3>2. e \o <<c>> = Append(e, c)
      OBVIOUS
    <3> QED BY <3>1, <3>2
  <2> QED BY <1>7, <2>1, <2>4, <2>6, <2>7
<1>10. PICK u : u = [str |-> <<>>]
  OBVIOUS
<1> DEFINE L == Value(w, 2, 0)
           N == L + 1
           A == [body |-> Rest(w, 2), obj |-> [str |-> <<>>], ok |-> TRUE]
           St(q, i) == Taken(q, "str", 1)
<1>11. N = n /\ A = Reader(e, u)
  BY <1>3, <1>8, <1>10 DEF Reads, Reader
<1>12. PICK g : g = CHOOSE f : f = [k \in 0 .. N |-> IF k = 0 THEN A ELSE St(f[k - 1], k)]
  OBVIOUS
<1>13. UnpackChat(w) = g[N]
  BY <1>12 DEF UnpackChat, Repeat, Taken
<1>14. Chosen(g, N, A, "str", 1)
  <2> HIDE DEF N, A
  <2>1. (\E f : f = [k \in 0 .. N |-> IF k = 0 THEN A ELSE St(f[k - 1], k)])
          => g = [k \in 0 .. N |-> IF k = 0 THEN A ELSE St(g[k - 1], k)]
    <3> HIDE DEF St
    <3> QED BY <1>12
  <2> QED BY <2>1 DEF Chosen, Recurs
<1> HIDE DEF N, A, St
<1>15. IsRead(g[n], s, u, "str")
  <2>1. Empty(u, "str")
    BY <1>10 DEF Empty
  <2>2. PICK a : a = A
    OBVIOUS
  <2>3. a = Reader(Pushed(s, n, 1, n), u) /\ Chosen(g, n, a, "str", 1) /\ 1 \in Nat /\ n = Len(s)
    BY <1>4, <1>6, <1>11, <1>14, <2>2
  <2> QED BY <2>1, <2>3, ArrayRead
<1>16. g[n] = Reader(<<>>, [u EXCEPT !["str"] = s])
  BY <1>15 DEF IsRead
<1>17. [u EXCEPT !["str"] = s].str = s
  BY <1>10
<1>18. s = SubSeq(str, 1, n)
  <2>1. PICK t : t = SubSeq(str, 1, n)
    OBVIOUS
  <2>2. t = [i \in 1 .. n |-> str[i]]
    BY <1>1, <1>2, <1>3, <2>1
  <2> QED BY <1>4, <2>1, <2>2 DEF Firsts
<1>19. UnpackChat(w).obj = [u EXCEPT !["str"] = s]
  BY <1>11, <1>13, <1>16 DEF Reader
<1> QED BY <1>3, <1>9, <1>17, <1>18, <1>19

(* A pattern that is none or ALIGN leaves the copy as it was, and any other    *)
(* arrives.                                                                    *)
LEMMA NavRead ==
  ASSUME NEW o \in [state : TravelStates, target : Nat], o.state # ALIGN => o.target = 0, NEW c
  PROVE  UnpackNav(PackNav(o), c).obj = IF o.state \in {None, ALIGN} THEN c ELSE o
<1>1. PICK ts \in TravelStates : ts = o.state /\ ts = o["state"]
  OBVIOUS
<1>2. PICK tg \in Nat : tg = o.target /\ tg = o["target"]
  OBVIOUS
<1>3. ts \in Int /\ tg \in Int /\ None = 0 /\ ALIGN = 1 /\ Garbage = -1
  BY DEF TravelStates, None, ALIGN, Garbage
<1>4. PICK e \in Seq(Cells) : e = <<>>
  <2>1. <<>> \in Seq(Cells)
    OBVIOUS
  <2> QED BY <2>1
<1>5. PICK b : b = Append(e, <<1, ts>>)
  OBVIOUS
<1>6. Push(<<>>, o, <<<<"state", 1>>>>) = b /\ b \in Seq(Cells)
  <2>1. o["state"] \in Int /\ 1 \in Nat
    BY <1>1, <1>3
  <2>2. Push(e, o, <<<<"state", 1>>>>) = Append(e, <<1, o["state"]>>) /\ Append(e, <<1, o["state"]>>) \in Seq(Cells)
    BY <2>1, PushOne
  <2> QED BY <1>1, <1>4, <1>5, <2>2
<1>7. PackNav(o) = Push(b, o, NavFields(ts))
  BY <1>1, <1>6 DEF PackNav
<1>8. CASE ts = ALIGN
  <2>1. PICK w : w = Append(b, <<4, tg>>)
    OBVIOUS
  <2>2. PackNav(o) = w
    <3>1. b \in Seq(Cells) /\ o["target"] \in Int /\ 4 \in Nat
      BY <1>2, <1>6
    <3>2. Push(b, o, <<<<"target", 4>>>>) = Append(b, <<4, o["target"]>>) /\ Append(b, <<4, o["target"]>>) \in Seq(Cells)
      BY <3>1, PushOne
    <3> QED BY <1>2, <1>7, <1>8, <2>1, <3>2 DEF NavFields
  <2>3. Value(w, 1, 0) \in {0, Garbage}
    <3>1. 4 \in Nat /\ 1 \in Nat /\ 1 # 4
      OBVIOUS
    <3> QED BY <1>3, <1>6, <2>1, <3>1, TornRead
  <2>4. PICK v : v = Value(w, 1, 0)
    OBVIOUS
  <2>5. v = 0 \/ v = Garbage
    BY <2>3, <2>4
  <2>6. PICK start : start = [body |-> Rest(w, 1), obj |-> [state |-> v, target |-> 0], ok |-> TRUE]
    OBVIOUS
  <2>7. UnpackNav(w, c) = [start EXCEPT !.obj = c] \/ UnpackNav(w, c) = [start EXCEPT !.obj = c, !.ok = FALSE]
    <3>1. CASE v = None
      BY <2>4, <2>6, <3>1 DEF UnpackNav
    <3>2. CASE v # None
      <4>1. v = Garbage /\ ~(v \in TravelStates \ {None})
        BY <1>3, <2>5, <3>2 DEF TravelStates
      <4> QED BY <2>4, <2>6, <3>2, <4>1 DEF UnpackNav
    <3> QED BY <3>1, <3>2
  <2>8. [start EXCEPT !.obj = c].obj = c /\ [start EXCEPT !.obj = c, !.ok = FALSE].obj = c
    BY <2>6
  <2> QED BY <1>1, <1>8, <2>2, <2>7, <2>8
<1>9. CASE ts # ALIGN
  <2>1. NavFields(ts) = <<>>
    BY <1>9 DEF NavFields
  <2>2. PackNav(o) = b
    <3>1. PICK fields : fields = <<>>
      OBVIOUS
    <3>2. Len(fields) = 0
      BY <3>1
    <3>3. PICK d : d = [i \in 1 .. 0 |-> <<fields[i][2], o[fields[i][1]]>>]
      OBVIOUS
    <3>4. d = <<>>
      BY <3>3
    <3>5. Push(b, o, fields) = b \o d
      BY <3>2, <3>3 DEF Push
    <3>6. b \o <<>> = b
      BY <1>6
    <3> QED BY <1>7, <2>1, <3>1, <3>4, <3>5, <3>6
  <2>3. Reads(b, 1, ts, e)
    <3>1. 1 \in Nat
      OBVIOUS
    <3> QED BY <1>3, <1>4, <1>5, <3>1, AlignedRead
  <2>4. Value(b, 1, 0) = ts
    BY <2>3 DEF Reads
  <2>5. PICK start : start = [body |-> Rest(b, 1), obj |-> [state |-> ts, target |-> 0], ok |-> TRUE]
    OBVIOUS
  <2>6. CASE ts = None
    <3>1. UnpackNav(b, c) = [start EXCEPT !.obj = c]
      BY <2>4, <2>5, <2>6 DEF UnpackNav
    <3>2. [start EXCEPT !.obj = c].obj = c
      BY <2>5
    <3> QED BY <1>1, <2>2, <2>6, <3>1, <3>2
  <2>7. CASE ts # None
    <3>1. UnpackNav(b, c) = Pop(start, <<>>)
      BY <2>1, <2>4, <2>5, <2>7 DEF UnpackNav
    <3>2. Pop(start, <<>>) = start
      BY PopNone
    <3>3. start.obj = o
      BY <1>1, <1>2, <1>9, <2>5
    <3> QED BY <1>1, <1>9, <2>2, <2>7, <3>1, <3>2, <3>3
  <2> QED BY <2>6, <2>7
<1> QED BY <1>8, <1>9

(* What an owner may hold that is sent whole, whatever the bounds.             *)
Thing(k, o) ==
  CASE k = "nav" -> o \in [state : TravelStates, target : Nat] /\ (o.state # ALIGN => o.target = 0)
    [] k = "pipe" -> o \in [stages : Seq(Payloads)]
    [] k = "grid" -> o \in [ids : Seq(Nat), gridPos : Nat]
    [] k = "chat" -> o \in [str : Seq(Nat)]
    [] OTHER -> TRUE

(* A message of an object that is sent whole is what packing it made, and the  *)
(* copy of a grid is one.                                                      *)
WholeMessage == Thing(kind, wire.of) /\ wire.body = Packed(kind, wire.of)
WholeIInv ==
  /\ kind \in Kinds
  /\ Thing(kind, owned)
  /\ kind = "grid" => Thing(kind, copy)
  /\ wire # <<>> => (wire.how = "whole" <=> kind # "ship")
  /\ wire # <<>> /\ kind # "ship" => WholeMessage

(* Sequences up to a length are sequences.                                     *)
LEMMA ShortOnes ==
  ASSUME NEW S, NEW X, S \in SUBSET X, NEW n \in Nat, NEW s \in Seqs(S, n)
  PROVE  s \in Seq(X)
<1>1. PICK k \in 0 .. n : s \in [1 .. k -> S]
  BY DEF Seqs
<1>2. k \in Nat /\ s \in [1 .. k -> X]
  BY <1>1
<1> QED BY <1>2, AsSequence

(* What the owner changes its object to.                                       *)
LEMMA ObjectsAreThings ==
  ASSUME NEW k \in Kinds, NEW o \in Objects(k)
  PROVE  Thing(k, o)
<1>1. Values \in SUBSET Nat /\ 2 \in Nat
  BY CodecAssumption
<1>2. CASE k = "nav"
  BY <1>1, <1>2 DEF Objects, Thing
<1>3. CASE k = "pipe"
  <2>1. Curves \in SUBSET Payloads
    BY <1>1 DEF Curves, Payloads
  <2>2. PICK s \in Seqs(Curves, 2) : o = [stages |-> s]
    BY <1>3 DEF Objects
  <2>3. s \in Seq(Payloads)
    BY <1>1, <2>1, ShortOnes
  <2> QED BY <1>3, <2>2, <2>3 DEF Thing
<1>4. CASE k = "grid"
  <2>1. PICK s \in Seqs(Values, 2), p \in Values : o = [ids |-> s, gridPos |-> p]
    BY <1>4 DEF Objects
  <2>2. s \in Seq(Nat) /\ p \in Nat
    BY <1>1, ShortOnes
  <2> QED BY <1>4, <2>1, <2>2 DEF Thing
<1>5. CASE k = "chat"
  <2>1. PICK n \in 0 .. MaxLen + 3 : o = [str |-> [i \in 1 .. n |-> i]]
    BY <1>5 DEF Objects
  <2>2. PICK s : s = [i \in 1 .. n |-> i]
    OBVIOUS
  <2>3. n \in Nat /\ s \in [1 .. n -> Nat]
    BY <2>2 DEF MaxLen
  <2>4. s \in Seq(Nat)
    BY <2>3, AsSequence
  <2> QED BY <1>5, <2>1, <2>2, <2>4 DEF Thing
<1>6. CASE k = "ship"
  BY <1>6 DEF Thing
<1> QED BY <1>2, <1>3, <1>4, <1>5, <1>6 DEF Kinds

(* The first object of an owner, and the copies that are made of it.           *)
LEMMA WholeInitially == InitCodec => WholeIInv
<1> SUFFICES ASSUME InitCodec PROVE WholeIInv
  OBVIOUS
<1>1. kind \in Kinds /\ owned = Default(kind) /\ copy = Default(kind) /\ wire = <<>>
  BY DEF InitCodec
<1>2. ASSUME NEW S PROVE <<>> \in Seq(S)
  OBVIOUS
<1>3. Thing(kind, Default(kind))
  <2>1. CASE kind = "nav"
    BY <2>1 DEF Thing, Default, None, ALIGN, TravelStates
  <2>2. CASE kind = "pipe"
    BY <1>2, <2>2 DEF Thing, Default
  <2>3. CASE kind = "grid"
    BY <1>2, <2>3 DEF Thing, Default
  <2>4. CASE kind = "chat"
    BY <1>2, <2>4 DEF Thing, Default
  <2>5. CASE kind = "ship"
    BY <2>5 DEF Thing
  <2> QED BY <1>1, <2>1, <2>2, <2>3, <2>4, <2>5 DEF Kinds
<1> QED BY <1>1, <1>3 DEF WholeIInv

(* The copy of a grid gets the position of the grid that was sent, and keeps   *)
(* its own ids.                                                                *)
LEMMA GridReceived ==
  ASSUME WholeIInv, kind = "grid", Receive
  PROVE  copy' = [copy EXCEPT !.gridPos = wire.of.gridPos] /\ Thing(kind, copy)'
<1>1. wire # <<>> /\ WholeMessage /\ Thing(kind, copy)
  BY DEF WholeIInv, Receive
<1>2. PICK o : o = wire.of
  OBVIOUS
<1>3. o \in [ids : Seq(Nat), gridPos : Nat] /\ copy \in [ids : Seq(Nat), gridPos : Nat]
  BY <1>1, <1>2 DEF WholeMessage, Thing
<1>4. PICK s \in Seq(Nat), p \in Nat : o = [ids |-> s, gridPos |-> p] /\ p = o.gridPos
  BY <1>3
<1>5. wire.body = PackGrid(o)
  BY <1>1, <1>2 DEF WholeMessage, Packed
<1>6. copy' = Unpacked(kind, wire.body, copy).obj
  <2>1. wire.how # "update"
    BY <1>1 DEF WholeIInv
  <2> QED BY <2>1 DEF Receive
<1>7. Unpacked(kind, wire.body, copy) = UnpackGrid(PackGrid(o), copy)
  BY <1>5 DEF Unpacked
<1>8. UnpackGrid(PackGrid([ids |-> s, gridPos |-> p]), copy).obj = [copy EXCEPT !.gridPos = p]
  BY <1>3, GridRead
<1>9. copy' = [copy EXCEPT !.gridPos = p]
  BY <1>4, <1>6, <1>7, <1>8
<1>10. kind' = "grid" /\ [copy EXCEPT !.gridPos = p] \in [ids : Seq(Nat), gridPos : Nat]
  BY <1>3 DEF Receive
<1>11. Thing(kind', copy')
  BY <1>9, <1>10 DEF Thing
<1> QED BY <1>2, <1>4, <1>9, <1>11

(* The inductive invariant of what is sent whole.                              *)
LEMMA WholeStep == WholeIInv /\ [NextCodec]_codecVars => WholeIInv'
<1> SUFFICES ASSUME WholeIInv, [NextCodec]_codecVars PROVE WholeIInv'
  OBVIOUS
<1>1. CASE UNCHANGED codecVars
  BY <1>1 DEF codecVars, WholeIInv, WholeMessage
<1>2. ASSUME NEW o, Thing(kind, o), Changed(o) PROVE WholeIInv'
  BY <1>2 DEF Changed, WholeIInv, WholeMessage
<1>3. ASSUME NEW o, kind = "ship", Changed(o) PROVE WholeIInv'
  <2>1. Thing(kind, o)
    BY <1>3 DEF Thing
  <2> QED BY <1>2, <1>3, <2>1
<1>4. ASSUME NEW m, Sent(m), m.how = "whole" <=> kind # "ship", Thing(kind, owned'),
             kind # "ship" => Thing(kind, m.of) /\ m.body = Packed(kind, m.of)
      PROVE  WholeIInv'
  BY <1>4 DEF Sent, WholeIInv, WholeMessage
<1>5. ASSUME NEW o \in Objects(kind), Change(o) PROVE WholeIInv'
  <2>1. Thing(kind, o)
    BY ObjectsAreThings DEF WholeIInv
  <2> QED BY <1>2, <1>5, <2>1 DEF Change
<1>6. ASSUME NEW part, NEW fields, NEW t, NEW v, Set(part, fields, t, v) PROVE WholeIInv'
  BY <1>3, <1>6 DEF Set
<1>7. ASSUME NEW v, SetThrottle(v) \/ Slide(v) \/ Turn(v) \/ CopyTurns(v) PROVE WholeIInv'
  <2>1. CASE SetThrottle(v)
    BY <1>6, <2>1 DEF SetThrottle
  <2>2. CASE Slide(v)
    BY <1>3, <2>2 DEF Slide
  <2>3. CASE Turn(v)
    BY <1>3, <2>3 DEF Turn
  <2>4. CASE CopyTurns(v)
    BY <2>4 DEF CopyTurns, WholeIInv, WholeMessage, Thing
  <2> QED BY <1>7, <2>1, <2>2, <2>3, <2>4
<1>8. CASE Post
  <2>1. kind = "ship" /\ \E b : Sent([how |-> "post", body |-> b])
    BY <1>8 DEF Post
  <2>2. PICK b : Sent([how |-> "post", body |-> b])
    BY <2>1
  <2>3. PICK m : m = [how |-> "post", body |-> b]
    OBVIOUS
  <2>4. m.how = "post" /\ Sent(m)
    BY <2>2, <2>3
  <2>5. Thing(kind, owned')
    BY <2>1 DEF Thing
  <2> QED BY <1>4, <2>1, <2>4, <2>5
<1>9. ASSUME NEW v, Update(v) PROVE WholeIInv'
  <2>1. kind = "ship" /\ \E b : Sent([how |-> "update", body |-> b])
    BY <1>9 DEF Update
  <2>2. PICK b : Sent([how |-> "update", body |-> b])
    BY <2>1
  <2>3. PICK m : m = [how |-> "update", body |-> b]
    OBVIOUS
  <2>4. m.how = "update" /\ Sent(m)
    BY <2>2, <2>3
  <2>5. Thing(kind, owned')
    BY <2>1 DEF Thing
  <2> QED BY <1>4, <2>1, <2>4, <2>5
<1>10. CASE Send
  <2>1. kind # "ship" /\ Sent([how |-> "whole", body |-> Packed(kind, owned), of |-> owned]) /\ Thing(kind, owned)
    BY <1>10 DEF Send, WholeIInv
  <2>4. Thing(kind, owned')
    BY <1>10, <2>1 DEF Send
  <2>2. PICK m : m = [how |-> "whole", body |-> Packed(kind, owned), of |-> owned]
    OBVIOUS
  <2>3. m.how = "whole" /\ m.body = Packed(kind, owned) /\ m.of = owned /\ Sent(m)
    BY <2>1, <2>2
  <2> QED BY <1>4, <2>1, <2>3, <2>4
<1>11. CASE Receive
  <2>1. kind' = kind /\ owned' = owned /\ wire' = <<>>
    BY <1>11 DEF Receive
  <2>2. kind = "grid" => Thing(kind, copy)'
    BY <1>11, GridReceived
  <2> QED BY <2>1, <2>2 DEF WholeIInv
<1>12. CASE PostPast
  BY <1>12 DEF PostPast, WholeIInv, WholeMessage, Thing
<1> QED BY <1>1, <1>5, <1>6, <1>7, <1>8, <1>9, <1>10, <1>11, <1>12 DEF NextCodec

(* What a step that takes a message that was sent whole makes of the copy.     *)
LEMMA WholeReceived ==
  ASSUME WholeIInv, Receive, wire.how = "whole", NEW o, o = wire.of
  PROVE  CASE kind = "grid" -> copy' = [copy EXCEPT !.gridPos = o.gridPos]
           [] kind = "chat" -> Len(o.str) >= 2 => copy'.str = SubSeq(o.str, 1, LastPacked(o.str) + 1)
           [] kind = "nav" -> copy' = IF o.state \in {None, ALIGN} THEN copy ELSE o
           [] kind = "pipe" -> ~garbled' /\ copy' = o
                                 <=> \A i \in 1 .. Len(o.stages) - 1 : o.stages[i].class = 1
<1>1. wire # <<>> /\ kind # "ship" /\ Thing(kind, o) /\ wire.body = Packed(kind, o)
  BY DEF WholeIInv, Receive, WholeMessage
<1>2. PICK r : r = Unpacked(kind, Packed(kind, o), copy) /\ copy' = r.obj /\ garbled' = ~r.ok
  BY <1>1 DEF Receive
<1>3. CASE kind = "grid"
  BY <1>3, GridReceived
<1>4. CASE kind = "chat"
  <2>1. PICK s \in Seq(Nat) : o = [str |-> s] /\ s = o.str
    BY <1>1, <1>4 DEF Thing
  <2>2. r = UnpackChat(PackChat(o))
    BY <1>2, <1>4 DEF Unpacked, Packed
  <2>3. Len(s) >= 2 => UnpackChat(PackChat([str |-> s])).obj.str = SubSeq(s, 1, LastPacked(s) + 1)
    BY ChatRead
  <2>4. Len(o.str) >= 2 => copy'.str = SubSeq(o.str, 1, LastPacked(o.str) + 1)
    BY <1>2, <2>1, <2>2, <2>3
  <2> QED BY <1>4, <2>4
<1>5. CASE kind = "nav"
  <2>1. o \in [state : TravelStates, target : Nat] /\ (o.state # ALIGN => o.target = 0)
    BY <1>1, <1>5 DEF Thing
  <2>2. r = UnpackNav(PackNav(o), copy)
    BY <1>2, <1>5 DEF Unpacked, Packed
  <2>3. UnpackNav(PackNav(o), copy).obj = IF o.state \in {None, ALIGN} THEN copy ELSE o
    BY <2>1, NavRead
  <2>4. copy' = IF o.state \in {None, ALIGN} THEN copy ELSE o
    BY <1>2, <2>2, <2>3
  <2> QED BY <1>5, <2>4
<1>6. CASE kind = "pipe"
  <2>1. PICK s \in Seq(Payloads) : o = [stages |-> s] /\ s = o.stages
    BY <1>1, <1>6 DEF Thing
  <2>2. r = UnpackPipe(PackPipe([stages |-> s]))
    BY <1>2, <1>6, <2>1 DEF Unpacked, Packed
  <2>3. PipeArrives(r, s)
    BY <2>2, PipeRead
  <2>4. ~garbled' /\ copy' = o <=> \A i \in 1 .. Len(o.stages) - 1 : o.stages[i].class = 1
    BY <1>2, <2>1, <2>3 DEF PipeArrives
  <2> QED BY <1>6, <2>4
<1>7. kind \in {"grid", "chat", "nav", "pipe"}
  BY <1>1 DEF WholeIInv, Kinds
<1> QED BY <1>3, <1>4, <1>5, <1>6, <1>7

(* Messages in bodies: what arrives of the objects that are sent whole, for    *)
(* every value, any number of stages, ids and characters.                      *)
THEOREM WholeObjectsArrive == SpecCodec => Arrives
<1>1. WholeIInv /\ [NextCodec]_codecVars
        => (wire # <<>> /\ wire' = <<>> /\ wire.how = "whole" =>
              LET o == wire.of
              IN  CASE kind = "grid" -> copy' = [copy EXCEPT !.gridPos = o.gridPos]
                    [] kind = "chat" -> Len(o.str) >= 2 =>
                                          copy'.str = SubSeq(o.str, 1, LastPacked(o.str) + 1)
                    [] kind = "nav" -> copy' = IF o.state \in {None, ALIGN} THEN copy ELSE o
                    [] kind = "pipe" -> ~garbled' /\ copy' = o
                          <=> \A i \in 1 .. Len(o.stages) - 1 : o.stages[i].class = 1)
  <2> SUFFICES ASSUME WholeIInv, [NextCodec]_codecVars, wire # <<>>, wire' = <<>>, wire.how = "whole"
               PROVE  LET o == wire.of
                      IN  CASE kind = "grid" -> copy' = [copy EXCEPT !.gridPos = o.gridPos]
                            [] kind = "chat" -> Len(o.str) >= 2 =>
                                                  copy'.str = SubSeq(o.str, 1, LastPacked(o.str) + 1)
                            [] kind = "nav" -> copy' = IF o.state \in {None, ALIGN} THEN copy ELSE o
                            [] kind = "pipe" -> ~garbled' /\ copy' = o
                                  <=> \A i \in 1 .. Len(o.stages) - 1 : o.stages[i].class = 1
    OBVIOUS
  <2>1. Receive
    <3>1. (\E m : Sent(m)) => wire = <<>>
      BY DEF Sent
    <3>2. UNCHANGED wire => FALSE
      OBVIOUS
    <3>3. Post \/ (\E v : Update(v)) \/ Send => \E m : Sent(m)
      BY DEF Post, Update, Send
    <3>4. \A o : ~Changed(o)
      BY <3>2 DEF Changed
    <3> QED BY <3>1, <3>2, <3>3, <3>4
        DEF NextCodec, codecVars, Change, Set, SetThrottle, Slide, Turn, CopyTurns, PostPast
  <2>2. PICK o : o = wire.of
    OBVIOUS
  <2> QED BY <2>1, <2>2, WholeReceived
<1>2. SpecCodec => []WholeIInv
  BY WholeInitially, WholeStep, PTL DEF SpecCodec
<1> QED BY <1>1, <1>2, PTL DEF SpecCodec, Arrives

-----------------------------------------------------------------------------
(* The geometry.                                                               *)

Vectors == [x : Int, y : Int]
Rectangles == [pos : Vectors, size : [x : Nat, y : Nat]]

(* Two closed intervals that have a number in common have a lower end in it.   *)
LEMMA IntervalsTouch ==
  ASSUME NEW a \in Int, NEW m \in Nat, NEW b \in Int, NEW n \in Nat
  PROVE  (\E k \in {a, b} : a <= k /\ k <= a + m /\ b <= k /\ k <= b + n) <=> a <= b + n /\ b <= a + m
  OBVIOUS

(* Two open intervals overlap when the closed ones touch although either is    *)
(* moved by half a unit.                                                       *)
LEMMA IntervalsOverlap ==
  ASSUME NEW a \in Int, NEW m \in Nat, NEW b \in Int, NEW n \in Nat
  PROVE  a < b + n /\ b < a + m
           <=> \A d \in {-1, 1} : 2 * a + d <= 2 * b + 2 * n /\ 2 * b <= 2 * a + d + 2 * m
  OBVIOUS

(* Rectangles touch when their sides do.                                       *)
LEMMA TouchesSides ==
  ASSUME NEW r \in Rectangles, NEW q \in Rectangles
  PROVE  Touch(r, q) <=> /\ r.pos.x <= q.pos.x + q.size.x /\ q.pos.x <= r.pos.x + r.size.x
                         /\ r.pos.y <= q.pos.y + q.size.y /\ q.pos.y <= r.pos.y + r.size.y
<1>1. PICK a \in Int, b \in Int : a = r.pos.x /\ b = r.pos.y
  BY DEF Rectangles, Vectors
<1>2. PICK m \in Nat, n \in Nat : m = r.size.x /\ n = r.size.y
  BY DEF Rectangles
<1>3. PICK c \in Int, d \in Int : c = q.pos.x /\ d = q.pos.y
  BY DEF Rectangles, Vectors
<1>4. PICK u \in Nat, v \in Nat : u = q.size.x /\ v = q.size.y
  BY DEF Rectangles
<1>5. Touch(r, q) <=> /\ \E k \in {a, c} : a <= k /\ k <= a + m /\ c <= k /\ k <= c + u
                      /\ \E k \in {b, d} : b <= k /\ k <= b + n /\ d <= k /\ k <= d + v
  BY <1>1, <1>2, <1>3, <1>4 DEF Touch, containsPoint, V
<1>6. (\E k \in {a, c} : a <= k /\ k <= a + m /\ c <= k /\ k <= c + u) <=> a <= c + u /\ c <= a + m
  BY IntervalsTouch
<1>7. (\E k \in {b, d} : b <= k /\ k <= b + n /\ d <= k /\ k <= d + v) <=> b <= d + v /\ d <= b + n
  BY IntervalsTouch
<1> QED BY <1>1, <1>2, <1>3, <1>4, <1>5, <1>6, <1>7

(* Rectangles overlap when they touch although one is moved by half a unit.    *)
LEMMA OverlapsAgree ==
  ASSUME NEW a \in Rectangles, NEW o \in Rectangles, NEW off \in Vectors,
         NEW r, r = Doubled([a EXCEPT !.pos = Plus(@, off)]), NEW q, q = Doubled(o)
  PROVE  overlaps(a, o, off) <=> \A dx, dy \in {-1, 1} : Touch([r EXCEPT !.pos = Plus(@, V(dx, dy))], q)
<1>1. PICK ax \in Int, ay \in Int : ax = a.pos.x + off.x /\ ay = a.pos.y + off.y
  BY DEF Rectangles, Vectors
<1>2. PICK aw \in Nat, ah \in Nat : aw = a.size.x /\ ah = a.size.y
  BY DEF Rectangles
<1>3. PICK ox \in Int, oy \in Int : ox = o.pos.x /\ oy = o.pos.y
  BY DEF Rectangles, Vectors
<1>4. PICK ow \in Nat, oh \in Nat : ow = o.size.x /\ oh = o.size.y
  BY DEF Rectangles
<1>5. overlaps(a, o, off) <=> (ax < ox + ow /\ ox < ax + aw) /\ (ay < oy + oh /\ oy < ay + ah)
  BY <1>1, <1>2, <1>3, <1>4 DEF overlaps
<1>6. PICK b : b = [a EXCEPT !.pos = Plus(@, off)]
  OBVIOUS
<1>7. b.pos.x = ax /\ b.pos.y = ay /\ b.size.x = aw /\ b.size.y = ah
  BY <1>1, <1>2, <1>6 DEF Plus, V, Rectangles
<1>8. r = [pos |-> V(2 * ax, 2 * ay), size |-> V(2 * aw, 2 * ah)]
  <2>1. r = [pos |-> V(ax + ax, ay + ay), size |-> V(aw + aw, ah + ah)]
    BY <1>6, <1>7 DEF Doubled, Rect, Plus
  <2> QED BY <2>1
<1>9. q = [pos |-> V(2 * ox, 2 * oy), size |-> V(2 * ow, 2 * oh)]
  <2>1. q = [pos |-> V(ox + ox, oy + oy), size |-> V(ow + ow, oh + oh)]
    BY <1>3, <1>4 DEF Doubled, Rect, Plus
  <2> QED BY <2>1
<1>10. ASSUME NEW dx \in {-1, 1}, NEW dy \in {-1, 1}
       PROVE  Touch([r EXCEPT !.pos = Plus(@, V(dx, dy))], q)
                <=> /\ 2 * ax + dx <= 2 * ox + 2 * ow /\ 2 * ox <= 2 * ax + dx + 2 * aw
                    /\ 2 * ay + dy <= 2 * oy + 2 * oh /\ 2 * oy <= 2 * ay + dy + 2 * ah
  <2>1. PICK m : m = [r EXCEPT !.pos = Plus(@, V(dx, dy))]
    OBVIOUS
  <2>2. m = [pos |-> V(2 * ax + dx, 2 * ay + dy), size |-> V(2 * aw, 2 * ah)]
    BY <1>8, <2>1 DEF Plus, V
  <2>3. m \in Rectangles /\ q \in Rectangles
    BY <1>9, <2>2 DEF Rectangles, Vectors, V
  <2>4. Touch(m, q) <=> /\ m.pos.x <= q.pos.x + q.size.x /\ q.pos.x <= m.pos.x + m.size.x
                        /\ m.pos.y <= q.pos.y + q.size.y /\ q.pos.y <= m.pos.y + m.size.y
    BY <2>3, TouchesSides
  <2>5. /\ m.pos.x = 2 * ax + dx /\ m.pos.y = 2 * ay + dy /\ m.size.x = 2 * aw /\ m.size.y = 2 * ah
        /\ q.pos.x = 2 * ox /\ q.pos.y = 2 * oy /\ q.size.x = 2 * ow /\ q.size.y = 2 * oh
    BY <1>9, <2>2 DEF V
  <2>6. Touch(m, q) <=> /\ 2 * ax + dx <= 2 * ox + 2 * ow /\ 2 * ox <= 2 * ax + dx + 2 * aw
                        /\ 2 * ay + dy <= 2 * oy + 2 * oh /\ 2 * oy <= 2 * ay + dy + 2 * ah
    BY <2>4, <2>5
  <2> QED BY <2>1, <2>6
<1>11. ax < ox + ow /\ ox < ax + aw
         <=> \A d \in {-1, 1} : 2 * ax + d <= 2 * ox + 2 * ow /\ 2 * ox <= 2 * ax + d + 2 * aw
  BY IntervalsOverlap
<1>12. ay < oy + oh /\ oy < ay + ah
         <=> \A d \in {-1, 1} : 2 * ay + d <= 2 * oy + 2 * oh /\ 2 * oy <= 2 * ay + d + 2 * ah
  BY IntervalsOverlap
<1> HIDE DEF Touch
<1> QED BY <1>5, <1>10, <1>11, <1>12

(* The two products of the parameters by which lines meet.                     *)
Crossing(a, b, c, d, n, m, e) ==
  /\ n = cross(Minus(c, a), Minus(d, c)) /\ m = cross(Minus(c, a), Minus(b, a))
  /\ e = cross(Minus(b, a), Minus(d, c))
Sided(a, b, c, d, n, m, e) ==
  /\ Crossing(a, b, c, d, n, m, e)
  /\ Side(c, a, b) = m /\ Side(d, a, b) = m - e
  /\ Side(a, c, d) = -n /\ Side(b, c, d) = e - n

(* The sides that the ends of two lines are on, as cross products of whole     *)
(* numbers.                                                                    *)
LEMMA SidesCross ==
  ASSUME NEW a \in Vectors, NEW b \in Vectors, NEW c \in Vectors, NEW d \in Vectors
  PROVE  \E n, m, e \in Int : Sided(a, b, c, d, n, m, e)
<1>1. PICK ax \in Int, ay \in Int : ax = a.x /\ ay = a.y
  BY DEF Vectors
<1>2. PICK bx \in Int, by \in Int : bx = b.x /\ by = b.y
  BY DEF Vectors
<1>3. PICK cx \in Int, cy \in Int : cx = c.x /\ cy = c.y
  BY DEF Vectors
<1>4. PICK dx \in Int, dy \in Int : dx = d.x /\ dy = d.y
  BY DEF Vectors
<1>5. PICK n \in Int : n = (cx - ax) * (dy - cy) - (cy - ay) * (dx - cx)
  OBVIOUS
<1>6. PICK m \in Int : m = (cx - ax) * (by - ay) - (cy - ay) * (bx - ax)
  OBVIOUS
<1>7. PICK e \in Int : e = (bx - ax) * (dy - cy) - (by - ay) * (dx - cx)
  OBVIOUS
<1>8. Crossing(a, b, c, d, n, m, e)
  BY <1>1, <1>2, <1>3, <1>4, <1>5, <1>6, <1>7 DEF Crossing, cross, Minus, V
<1>9. Side(c, a, b) = m
  <2>1. Side(c, a, b) = (by - ay) * cx + (ax - bx) * cy + bx * ay - ax * by
    BY <1>1, <1>2, <1>3 DEF Side
  <2> QED BY <1>6, <2>1
<1>10. Side(d, a, b) = m - e
  <2>1. Side(d, a, b) = (by - ay) * dx + (ax - bx) * dy + bx * ay - ax * by
    BY <1>1, <1>2, <1>4 DEF Side
  <2> QED BY <1>6, <1>7, <2>1
<1>11. Side(a, c, d) = -n
  <2>1. Side(a, c, d) = (dy - cy) * ax + (cx - dx) * ay + dx * cy - cx * dy
    BY <1>1, <1>3, <1>4 DEF Side
  <2> QED BY <1>5, <2>1
<1>12. Side(b, c, d) = e - n
  <2>1. Side(b, c, d) = (dy - cy) * bx + (cx - dx) * by + dx * cy - cx * dy
    BY <1>2, <1>3, <1>4 DEF Side
  <2> QED BY <1>5, <1>7, <2>1
<1>13. Sided(a, b, c, d, n, m, e)
  BY <1>8, <1>9, <1>10, <1>11, <1>12 DEF Sided
<1> QED BY <1>13

(* Lines that are not in one line intersect exactly when they meet.            *)
LEMMA LinesAgree ==
  ASSUME NEW a \in Vectors, NEW b \in Vectors, NEW c \in Vectors, NEW d \in Vectors,
         cross(Minus(b, a), Minus(d, c)) # 0
  PROVE  DoVecsIntersect(a, b, c, d) <=> Meet(a, b, c, d)
<1>1. PICK n, m, e \in Int : Sided(a, b, c, d, n, m, e)
  BY SidesCross
<1>2. e # 0 /\ (Meet(a, b, c, d) <=> Between01(n, e) /\ Between01(m, e))
  BY <1>1 DEF Sided, Crossing, Meet
<1>3. DoVecsIntersect(a, b, c, d) <=> ~OneSide(m, m - e) /\ ~OneSide(-n, e - n)
  BY <1>1 DEF Sided, DoVecsIntersect
<1>4. ~OneSide(m, m - e) <=> Between01(m, e)
  BY <1>2 DEF OneSide, Between01
<1>5. ~OneSide(-n, e - n) <=> Between01(n, e)
  BY <1>2 DEF OneSide, Between01
<1> QED BY <1>2, <1>3, <1>4, <1>5

(* The rectangle of two points.                                                *)
LEMMA RectangleAgrees ==
  ASSUME NEW a \in Vectors, NEW b \in Vectors, NEW r, r = MakeRectangle(a, b)
  PROVE  /\ containsPoint(r, a) /\ containsPoint(r, b)
         /\ \A q \in Rectangles : containsPoint(q, a) /\ containsPoint(q, b)
              => containsPoint(q, r.pos) /\ containsPoint(q, Plus(r.pos, r.size))
<1>1. PICK ax \in Int, ay \in Int : ax = a.x /\ ay = a.y
  BY DEF Vectors
<1>2. PICK bx \in Int, by \in Int : bx = b.x /\ by = b.y
  BY DEF Vectors
<1>3. PICK lx \in Int, hx \in Int : lx = Lo(ax, bx) /\ hx = Hi(ax, bx)
  BY DEF Lo, Hi
<1>4. PICK ly \in Int, hy \in Int : ly = Lo(ay, by) /\ hy = Hi(ay, by)
  BY DEF Lo, Hi
<1>5. r.pos.x = lx /\ r.pos.y = ly /\ r.size.x = hx - lx /\ r.size.y = hy - ly
  BY <1>1, <1>2, <1>3, <1>4 DEF MakeRectangle, Rect, Minus, V
<1>6. lx <= ax /\ ax <= hx /\ lx <= bx /\ bx <= hx /\ lx \in {ax, bx} /\ hx \in {ax, bx}
  BY <1>3 DEF Lo, Hi
<1>7. ly <= ay /\ ay <= hy /\ ly <= by /\ by <= hy /\ ly \in {ay, by} /\ hy \in {ay, by}
  BY <1>4 DEF Lo, Hi
<1>8. containsPoint(r, a) /\ containsPoint(r, b)
  BY <1>1, <1>2, <1>5, <1>6, <1>7 DEF containsPoint
<1>9. ASSUME NEW q \in Rectangles, containsPoint(q, a), containsPoint(q, b)
      PROVE  containsPoint(q, r.pos) /\ containsPoint(q, Plus(r.pos, r.size))
  <2>1. PICK s : s = Plus(r.pos, r.size)
    OBVIOUS
  <2>2. s.x = hx /\ s.y = hy
    BY <1>5, <2>1 DEF Plus, V
  <2>3. PICK qx \in Int, qy \in Int : qx = q.pos.x /\ qy = q.pos.y
    BY DEF Rectangles, Vectors
  <2>4. PICK qw \in Nat, qh \in Nat : qw = q.size.x /\ qh = q.size.y
    BY DEF Rectangles
  <2>5. /\ qx <= ax /\ ax <= qx + qw /\ qy <= ay /\ ay <= qy + qh
        /\ qx <= bx /\ bx <= qx + qw /\ qy <= by /\ by <= qy + qh
    BY <1>1, <1>2, <1>9, <2>3, <2>4 DEF containsPoint
  <2>6. containsPoint(q, r.pos)
    BY <1>5, <1>6, <1>7, <2>3, <2>4, <2>5 DEF containsPoint
  <2>7. containsPoint(q, s)
    BY <1>6, <1>7, <2>2, <2>3, <2>4, <2>5 DEF containsPoint
  <2> QED BY <2>1, <2>6, <2>7
<1> QED BY <1>8, <1>9

(* Turning a point by the matrix of a rotation.                                *)
LEMMA TurnIs ==
  ASSUME NEW t, t.c \in Int, t.s \in Int, NEW p \in Vectors
  PROVE  Turned(SetRotationMatTo(t), p) = V(t.c * p.x - t.s * p.y, t.s * p.x + t.c * p.y)
<1>1. PICK m : m = SetRotationMatTo(t)
  OBVIOUS
<1>2. m = [y \in 0 .. 1 |-> [x \in 0 .. 1 |-> IF x = y THEN t.c ELSE IF x = 1 THEN -t.s ELSE t.s]]
  BY <1>1 DEF SetRotationMatTo, Matrix2
<1>3. 0 \in 0 .. 1 /\ 1 \in 0 .. 1 /\ 0 # 1
  OBVIOUS
<1>4. PT(m, 0, 0) = t.c /\ PT(m, 1, 0) = -t.s /\ PT(m, 0, 1) = t.s /\ PT(m, 1, 1) = t.c
  BY <1>2, <1>3 DEF PT
<1>5. PICK c \in Int, s \in Int, x \in Int, y \in Int : c = t.c /\ s = t.s /\ x = p.x /\ y = p.y
  BY DEF Vectors
<1>6. c * x + (-s) * y = c * x - s * y
  BY <1>5
<1> QED BY <1>1, <1>4, <1>5, <1>6 DEF Turned

(* Both ways to turn a point agree, and keep distances and sides.              *)
LEMMA TurnsAgree ==
  ASSUME NEW a \in Vectors, NEW b \in Vectors, NEW e \in Vectors, NEW t \in Turns,
         NEW p, p = Rot(a, e, t), NEW q, q = Rot(b, e, t), NEW f, f = Fifths(e)
  PROVE  /\ p = Plus(f, Turned(SetRotationMatTo(t), Minus(a, e)))
         /\ dot(Minus(p, q), Minus(p, q)) = 25 * dot(Minus(a, b), Minus(a, b))
         /\ cross(Minus(p, f), Minus(q, f)) = 25 * cross(Minus(a, e), Minus(b, e))
<1>1. PICK ax \in Int, ay \in Int, bx \in Int, by \in Int :
        ax = a.x - e.x /\ ay = a.y - e.y /\ bx = b.x - e.x /\ by = b.y - e.y
  BY DEF Vectors
<1>2. PICK ex \in Int, ey \in Int : ex = e.x /\ ey = e.y
  BY DEF Vectors
<1>3. PICK tc \in Int, ts \in Int :
        tc = t.c /\ ts = t.s /\ <<tc, ts>> \in {<<5, 0>>, <<0, 5>>, <<3, 4>>, <<-4, 3>>}
  BY DEF Turns
<1>4. p.x = tc * ax - ts * ay + 5 * ex /\ p.y = ts * ax + tc * ay + 5 * ey
  BY <1>1, <1>2, <1>3 DEF Rot, V
<1>5. q.x = tc * bx - ts * by + 5 * ex /\ q.y = ts * bx + tc * by + 5 * ey
  BY <1>1, <1>2, <1>3 DEF Rot, V
<1>6. f.x = 5 * ex /\ f.y = 5 * ey
  BY <1>2 DEF Fifths, V
<1>7. p = Plus(f, Turned(SetRotationMatTo(t), Minus(a, e)))
  <2>1. PICK m \in Vectors : m = Minus(a, e) /\ m.x = ax /\ m.y = ay
    <3>1. Minus(a, e) = [x |-> ax, y |-> ay]
      BY <1>1 DEF Minus, V
    <3> QED BY <3>1 DEF Vectors
  <2>2. Turned(SetRotationMatTo(t), m) = V(tc * ax - ts * ay, ts * ax + tc * ay)
    BY <1>3, <2>1, TurnIs
  <2>3. PICK w : w = V(tc * ax - ts * ay, ts * ax + tc * ay)
    OBVIOUS
  <2>4. w.x = tc * ax - ts * ay /\ w.y = ts * ax + tc * ay
    BY <2>3 DEF V
  <2>5. Plus(f, w) = V(5 * ex + (tc * ax - ts * ay), 5 * ey + (ts * ax + tc * ay))
    BY <1>6, <2>4 DEF Plus
  <2>6. p = V(tc * ax - ts * ay + 5 * ex, ts * ax + tc * ay + 5 * ey)
    BY <1>1, <1>2, <1>3 DEF Rot
  <2>7. /\ 5 * ex + (tc * ax - ts * ay) = tc * ax - ts * ay + 5 * ex
        /\ 5 * ey + (ts * ax + tc * ay) = ts * ax + tc * ay + 5 * ey
    OBVIOUS
  <2> QED BY <2>1, <2>2, <2>3, <2>5, <2>6, <2>7
<1>8. dot(Minus(p, q), Minus(p, q)) = 25 * dot(Minus(a, b), Minus(a, b))
  <2>1. PICK dx \in Int, dy \in Int : dx = ax - bx /\ dy = ay - by
    OBVIOUS
  <2>2. PICK u \in Int, v \in Int : u = p.x - q.x /\ v = p.y - q.y
    BY <1>4, <1>5
  <2>3. u = tc * dx - ts * dy /\ v = ts * dx + tc * dy
    BY <1>4, <1>5, <2>1, <2>2
  <2>4. u * u + v * v = 25 * (dx * dx + dy * dy)
    <3>1. CASE tc = 5 /\ ts = 0
      <4>1. u = 5 * dx - 0 * dy /\ v = 0 * dx + 5 * dy
        BY <3>1, <2>3
      <4> QED BY <4>1
    <3>2. CASE tc = 0 /\ ts = 5
      <4>1. u = 0 * dx - 5 * dy /\ v = 5 * dx + 0 * dy
        BY <3>2, <2>3
      <4> QED BY <4>1
    <3>3. CASE tc = 3 /\ ts = 4
      <4>1. u = 3 * dx - 4 * dy /\ v = 4 * dx + 3 * dy
        BY <3>3, <2>3
      <4> QED BY <4>1
    <3>4. CASE tc = -4 /\ ts = 3
      <4>1. u = -4 * dx - 3 * dy /\ v = 3 * dx + -4 * dy
        BY <3>4, <2>3
      <4> QED BY <4>1
    <3> QED BY <1>3, <3>1, <3>2, <3>3, <3>4
  <2>5. dot(Minus(p, q), Minus(p, q)) = u * u + v * v
    BY <2>2 DEF dot, Minus, V
  <2>6. dx = a.x - b.x /\ dy = a.y - b.y
    BY <1>1, <2>1 DEF Vectors
  <2>7. dot(Minus(a, b), Minus(a, b)) = dx * dx + dy * dy
    BY <2>6 DEF dot, Minus, V
  <2> QED BY <2>4, <2>5, <2>7
<1>9. cross(Minus(p, f), Minus(q, f)) = 25 * cross(Minus(a, e), Minus(b, e))
  <2>1. PICK u \in Int, v \in Int : u = p.x - f.x /\ v = p.y - f.y
    BY <1>4, <1>6
  <2>2. u = tc * ax - ts * ay /\ v = ts * ax + tc * ay
    BY <1>4, <1>6, <2>1
  <2>3. PICK w \in Int, z \in Int : w = q.x - f.x /\ z = q.y - f.y
    BY <1>5, <1>6
  <2>4. w = tc * bx - ts * by /\ z = ts * bx + tc * by
    BY <1>5, <1>6, <2>3
  <2>5. u * z - v * w = 25 * (ax * by - ay * bx)
    <3>1. CASE tc = 5 /\ ts = 0
      <4>1. u = 5 * ax - 0 * ay /\ v = 0 * ax + 5 * ay /\ w = 5 * bx - 0 * by /\ z = 0 * bx + 5 * by
        BY <3>1, <2>2, <2>4
      <4> QED BY <4>1
    <3>2. CASE tc = 0 /\ ts = 5
      <4>1. u = 0 * ax - 5 * ay /\ v = 5 * ax + 0 * ay /\ w = 0 * bx - 5 * by /\ z = 5 * bx + 0 * by
        BY <3>2, <2>2, <2>4
      <4> QED BY <4>1
    <3>3. CASE tc = 3 /\ ts = 4
      <4>1. u = 3 * ax - 4 * ay /\ v = 4 * ax + 3 * ay /\ w = 3 * bx - 4 * by /\ z = 4 * bx + 3 * by
        BY <3>3, <2>2, <2>4
      <4> QED BY <4>1
    <3>4. CASE tc = -4 /\ ts = 3
      <4>1. u = -4 * ax - 3 * ay /\ v = 3 * ax + -4 * ay /\ w = -4 * bx - 3 * by /\ z = 3 * bx + -4 * by
        BY <3>4, <2>2, <2>4
      <4> QED BY <4>1
    <3> QED BY <1>3, <3>1, <3>2, <3>3, <3>4
  <2>6. cross(Minus(p, f), Minus(q, f)) = u * z - v * w
    BY <2>1, <2>3 DEF cross, Minus, V
  <2>7. cross(Minus(a, e), Minus(b, e)) = ax * by - ay * bx
    BY <1>1 DEF cross, Minus, V
  <2> QED BY <2>5, <2>6, <2>7
<1> QED BY <1>7, <1>8, <1>9

(* The square around the body of a ship.                                       *)
LEMMA CoverageIs == coverage(verticies) = [centre2 |-> V(0, 0), square |-> V(200, 200)]
<1>1. PICK v : v = verticies
  OBVIOUS
<1>2. /\ DOMAIN v = 1 .. 4 /\ v[1] = V(0, 5) /\ v[2] = V(5, -5) /\ v[3] = V(0, -2) /\ v[4] = V(-5, -5)
      /\ 1 .. 4 = {1, 2, 3, 4}
  BY <1>1 DEF verticies
<1>3. Xs(v) = {0, 5, -5}
  BY <1>2 DEF Xs, V
<1>4. Ys(v) = {5, -5, -2}
  BY <1>2 DEF Ys, V
<1>5. PICK s : s = {0, 5, -5}
  OBVIOUS
<1>6. Least(s) = -5 /\ Most(s) = 5
  <2>1. PICK l : l = Least(s)
    OBVIOUS
  <2>2. PICK h : h = Most(s)
    OBVIOUS
  <2>3. -5 \in s /\ 5 \in s /\ (\A k \in s : -5 <= k) /\ (\A k \in s : k <= 5)
    BY <1>5
  <2>4. l \in s /\ \A k \in s : l <= k
    BY <2>1, <2>3 DEF Least
  <2>5. h \in s /\ \A k \in s : k <= h
    BY <2>2, <2>3 DEF Most
  <2> QED BY <1>5, <2>1, <2>2, <2>3, <2>4, <2>5
<1>7. PICK z : z = {5, -5, -2}
  OBVIOUS
<1>8. Least(z) = -5 /\ Most(z) = 5
  <2>1. PICK l : l = Least(z)
    OBVIOUS
  <2>2. PICK h : h = Most(z)
    OBVIOUS
  <2>3. -5 \in z /\ 5 \in z /\ (\A k \in z : -5 <= k) /\ (\A k \in z : k <= 5)
    BY <1>7
  <2>4. l \in z /\ \A k \in z : l <= k
    BY <2>1, <2>3 DEF Least
  <2>5. h \in z /\ \A k \in z : k <= h
    BY <2>2, <2>3 DEF Most
  <2> QED BY <1>7, <2>1, <2>2, <2>3, <2>4, <2>5
<1>9. Span(s) = 10 /\ Span(z) = 10
  BY <1>6, <1>8 DEF Span
<1> QED BY <1>1, <1>3, <1>4, <1>5, <1>6, <1>7, <1>8, <1>9 DEF coverage

(* A matrix by its nine entries, row by row.                                   *)
Has(m, r0, r1, r2) ==
  /\ PT(m, 0, 0) = r0[1] /\ PT(m, 1, 0) = r0[2] /\ PT(m, 2, 0) = r0[3]
  /\ PT(m, 0, 1) = r1[1] /\ PT(m, 1, 1) = r1[2] /\ PT(m, 2, 1) = r1[3]
  /\ PT(m, 0, 2) = r2[1] /\ PT(m, 1, 2) = r2[2] /\ PT(m, 2, 2) = r2[3]
Grids == [0 .. 2 -> [0 .. 2 -> Int]]

(* The entries of the inverse of a transformation.                             *)
Reflected(q, m, a, b, c, d, e, f) ==
  /\ Has(q, <<e, -b, b * f - c * e>>, <<-d, a, c * d - a * f>>, <<0, 0, a * e - b * d>>)
  /\ q \in Grids /\ getDeterminant_3D(m) = a * e - b * d

(* The cofactors of an affine matrix, its entries transposed and with their    *)
(* signs.                                                                      *)
LEMMA CofactorsAre ==
  ASSUME NEW a \in Int, NEW b \in Int, NEW c \in Int, NEW d \in Int, NEW e \in Int, NEW f \in Int,
         NEW m, Has(m, <<a, b, c>>, <<d, e, f>>, <<0, 0, 1>>)
  PROVE  Reflected(Cofactors(m), m, a, b, c, d, e, f)
<1>1. PICK q : q = Cofactors(m)
  OBVIOUS
<1> DEFINE Entry(y, x) == Determinant2(PT(m, (x + 1) % 3, (y + 1) % 3), PT(m, (x + 2) % 3, (y + 1) % 3),
                                       PT(m, (x + 1) % 3, (y + 2) % 3), PT(m, (x + 2) % 3, (y + 2) % 3))
<1>2. q = [y \in 0 .. 2 |-> [x \in 0 .. 2 |-> Entry(x, y)]]
  BY <1>1 DEF Cofactors, Matrix
<1>3. /\ (0 + 1) % 3 = 1 /\ (0 + 2) % 3 = 2 /\ (1 + 1) % 3 = 2 /\ (1 + 2) % 3 = 0
      /\ (2 + 1) % 3 = 0 /\ (2 + 2) % 3 = 1
  OBVIOUS
<1>4. /\ PT(m, 0, 0) = a /\ PT(m, 1, 0) = b /\ PT(m, 2, 0) = c
      /\ PT(m, 0, 1) = d /\ PT(m, 1, 1) = e /\ PT(m, 2, 1) = f
      /\ PT(m, 0, 2) = 0 /\ PT(m, 1, 2) = 0 /\ PT(m, 2, 2) = 1
  BY DEF Has
<1>5. /\ Entry(0, 0) = e /\ Entry(1, 0) = -b /\ Entry(2, 0) = b * f - c * e
  <2>1. Entry(0, 0) = e * 1 - f * 0
    BY <1>3, <1>4 DEF Determinant2
  <2>2. Entry(1, 0) = 0 * c - 1 * b
    BY <1>3, <1>4 DEF Determinant2
  <2>3. Entry(2, 0) = b * f - c * e
    BY <1>3, <1>4 DEF Determinant2
  <2> QED BY <2>1, <2>2, <2>3
<1>6. /\ Entry(0, 1) = -d /\ Entry(1, 1) = a /\ Entry(2, 1) = c * d - a * f
  <2>1. Entry(0, 1) = f * 0 - d * 1
    BY <1>3, <1>4 DEF Determinant2
  <2>2. Entry(1, 1) = 1 * a - 0 * c
    BY <1>3, <1>4 DEF Determinant2
  <2>3. Entry(2, 1) = c * d - a * f
    BY <1>3, <1>4 DEF Determinant2
  <2> QED BY <2>1, <2>2, <2>3
<1>7. /\ Entry(0, 2) = 0 /\ Entry(1, 2) = 0 /\ Entry(2, 2) = a * e - b * d
  <2>1. Entry(0, 2) = d * 0 - e * 0
    BY <1>3, <1>4 DEF Determinant2
  <2>2. Entry(1, 2) = 0 * b - 0 * a
    BY <1>3, <1>4 DEF Determinant2
  <2>3. Entry(2, 2) = a * e - b * d
    BY <1>3, <1>4 DEF Determinant2
  <2> QED BY <2>1, <2>2, <2>3
<1> HIDE DEF Entry
<1>8. Has(q, <<e, -b, b * f - c * e>>, <<-d, a, c * d - a * f>>, <<0, 0, a * e - b * d>>)
  <2>1. \A x, y \in 0 .. 2 : PT(q, x, y) = Entry(x, y)
    BY <1>2 DEF PT
  <2>2. 0 \in 0 .. 2 /\ 1 \in 0 .. 2 /\ 2 \in 0 .. 2
    OBVIOUS
  <2> QED BY <1>5, <1>6, <1>7, <2>1, <2>2 DEF Has
<1>9. q \in Grids
  <2>1. ASSUME NEW x \in 0 .. 2, NEW y \in 0 .. 2 PROVE Entry(x, y) \in Int
    <3>1. x \in {0, 1, 2} /\ y \in {0, 1, 2}
      OBVIOUS
    <3> QED BY <1>5, <1>6, <1>7, <3>1
  <2> QED BY <1>2, <2>1 DEF Grids
<1>10. getDeterminant_3D(m) = a * e * 1 + b * f * 0 + c * d * 0 - c * e * 0 - b * d * 1 - a * f * 0
  BY <1>4 DEF getDeterminant_3D
<1>11. getDeterminant_3D(m) = a * e - b * d
  BY <1>10
<1> QED BY <1>1, <1>8, <1>9, <1>11 DEF Reflected

(* A transformation and then its inverse leave everything in its place, but    *)
(* for the divisor.                                                            *)
Undone(m) ==
  /\ mul(Cofactors(m), m) = [y \in 0 .. 2 |-> [x \in 0 .. 2 |-> Divisor(m) * PT(identity, x, y)]]
  /\ \A p \in Vectors : applyTo(Cofactors(m), applyTo(m, p)) = V(Divisor(m) * p.x, Divisor(m) * p.y)

(* The inverse of an affine matrix with a determinant undoes it.               *)
LEMMA InverseAgrees ==
  ASSUME NEW a \in Int, NEW b \in Int, NEW c \in Int, NEW d \in Int, NEW e \in Int, NEW f \in Int,
         NEW m, Has(m, <<a, b, c>>, <<d, e, f>>, <<0, 0, 1>>), getDeterminant_3D(m) # 0
  PROVE  Undone(m)
<1>1. PICK q : q = Cofactors(m) /\ Reflected(q, m, a, b, c, d, e, f)
  BY CofactorsAre
<1>2. PICK n \in Int : n = a * e - b * d
  OBVIOUS
<1>3. Divisor(m) = n
  BY <1>1, <1>2 DEF Reflected, Divisor
<1>4. PICK g \in Int : g = b * f - c * e
  OBVIOUS
<1>5. PICK h \in Int : h = c * d - a * f
  OBVIOUS
<1>6. /\ PT(q, 0, 0) = e /\ PT(q, 1, 0) = -b /\ PT(q, 2, 0) = g
      /\ PT(q, 0, 1) = -d /\ PT(q, 1, 1) = a /\ PT(q, 2, 1) = h
      /\ PT(q, 0, 2) = 0 /\ PT(q, 1, 2) = 0 /\ PT(q, 2, 2) = n
  BY <1>1, <1>2, <1>4, <1>5 DEF Reflected, Has
<1>7. /\ PT(m, 0, 0) = a /\ PT(m, 1, 0) = b /\ PT(m, 2, 0) = c
      /\ PT(m, 0, 1) = d /\ PT(m, 1, 1) = e /\ PT(m, 2, 1) = f
      /\ PT(m, 0, 2) = 0 /\ PT(m, 1, 2) = 0 /\ PT(m, 2, 2) = 1
  BY DEF Has
<1>8. mul(q, m) = Matrix(LAMBDA x, y : Divisor(m) * PT(identity, x, y))
  <2> DEFINE Entry(x, y) == PT(q, 0, y) * PT(m, x, 0) + PT(q, 1, y) * PT(m, x, 1) + PT(q, 2, y) * PT(m, x, 2)
             Unit(x, y) == n * PT(identity, x, y)
  <2>1. mul(q, m) = [y \in 0 .. 2 |-> [x \in 0 .. 2 |-> Entry(x, y)]]
    BY DEF mul, Matrix
  <2>2. Matrix(LAMBDA x, y : Divisor(m) * PT(identity, x, y)) = [y \in 0 .. 2 |-> [x \in 0 .. 2 |-> Unit(x, y)]]
    BY <1>3 DEF Matrix
  <2>3. \A x, y \in 0 .. 2 : PT(identity, x, y) = IF x = y THEN 1 ELSE 0
    BY DEF identity, Matrix, PT
  <2>4. \A x, y \in 0 .. 2 : Unit(x, y) = IF x = y THEN n ELSE 0
    BY <2>3
  <2>5. Entry(0, 0) = n /\ Entry(1, 0) = 0 /\ Entry(2, 0) = 0
    <3>1. Entry(0, 0) = e * a + (-b) * d + g * 0
      BY <1>6, <1>7
    <3>2. Entry(1, 0) = e * b + (-b) * e + g * 0
      BY <1>6, <1>7
    <3>3. Entry(2, 0) = e * c + (-b) * f + g * 1
      BY <1>6, <1>7
    <3> QED BY <1>2, <1>4, <3>1, <3>2, <3>3
  <2>6. Entry(0, 1) = 0 /\ Entry(1, 1) = n /\ Entry(2, 1) = 0
    <3>1. Entry(0, 1) = (-d) * a + a * d + h * 0
      BY <1>6, <1>7
    <3>2. Entry(1, 1) = (-d) * b + a * e + h * 0
      BY <1>6, <1>7
    <3>3. Entry(2, 1) = (-d) * c + a * f + h * 1
      BY <1>6, <1>7
    <3> QED BY <1>2, <1>5, <3>1, <3>2, <3>3
  <2>7. Entry(0, 2) = 0 /\ Entry(1, 2) = 0 /\ Entry(2, 2) = n
    BY <1>6, <1>7
  <2> HIDE DEF Entry, Unit
  <2>8. ASSUME NEW x \in 0 .. 2, NEW y \in 0 .. 2 PROVE Entry(x, y) = Unit(x, y)
    <3>1. x \in {0, 1, 2} /\ y \in {0, 1, 2}
      OBVIOUS
    <3>2. CASE y = 0
      BY <2>4, <2>5, <3>1, <3>2
    <3>3. CASE y = 1
      BY <2>4, <2>6, <3>1, <3>3
    <3>4. CASE y = 2
      BY <2>4, <2>7, <3>1, <3>4
    <3> QED BY <3>1, <3>2, <3>3, <3>4
  <2> QED BY <2>1, <2>2, <2>8
<1>9. ASSUME NEW p \in Vectors PROVE applyTo(q, applyTo(m, p)) = V(Divisor(m) * p.x, Divisor(m) * p.y)
  <2>1. PICK x \in Int, y \in Int : x = p.x /\ y = p.y
    BY DEF Vectors
  <2>2. PICK u \in Int, v \in Int : u = a * x + b * y + c /\ v = d * x + e * y + f
    OBVIOUS
  <2>3. PICK w : w = applyTo(m, p)
    OBVIOUS
  <2>4. w.x = u /\ w.y = v
    BY <1>7, <2>1, <2>2, <2>3 DEF applyTo, V
  <2>5. applyTo(q, w) = V(e * u + (-b) * v + g, (-d) * u + a * v + h)
    BY <1>6, <2>4 DEF applyTo
  <2>6. e * u + (-b) * v + g = n * x
    BY <1>2, <1>4, <2>2
  <2>7. (-d) * u + a * v + h = n * y
    BY <1>2, <1>5, <2>2
  <2> QED BY <1>3, <2>1, <2>3, <2>5, <2>6, <2>7
<1>10. mul(q, m) = [y \in 0 .. 2 |-> [x \in 0 .. 2 |-> Divisor(m) * PT(identity, x, y)]]
  BY <1>8 DEF Matrix
<1> QED BY <1>1, <1>9, <1>10 DEF Undone

(* Where a point is as seen from the corners of a ship: the products of its     *)
(* edges, and whether it is on an edge or within the two triangles.            *)
Left(a, b, q) == cross(Minus(b, a), Minus(q, a))
Between(a, b, n) == (a <= n /\ n <= b) \/ (b <= n /\ n <= a)
OnSide(a, b, q) == Left(a, b, q) = 0 /\ Between(a.x, b.x, q.x) /\ Between(a.y, b.y, q.y)
OneSign(k, l, m) == (k >= 0 /\ l >= 0 /\ m >= 0) \/ (k <= 0 /\ l <= 0 /\ m <= 0)
InTriangles(w, q) ==
  \/ OneSign(Left(w[1], w[2], q), Left(w[2], w[3], q), Left(w[3], w[1], q))
  \/ OneSign(Left(w[1], w[3], q), Left(w[3], w[4], q), Left(w[4], w[1], q))
Near(q) == -35 <= q.x /\ q.x <= 35 /\ -35 <= q.y /\ q.y <= 35
OffEdges(w, q) == /\ ~OnSide(w[1], w[2], q) /\ ~OnSide(w[2], w[3], q)
                  /\ ~OnSide(w[3], w[4], q) /\ ~OnSide(w[4], w[1], q)

(* Which edges are passed on the way to the left.                              *)
Odd(a, b, c, d) == (a <=> b) <=> ~(c <=> d)
Seen(w, q) ==
  OffEdges(w, q) =>
    (InTriangles(w, q) <=> Near(q) /\ Odd(Crosses(q, w[4], w[1]), Crosses(q, w[1], w[2]),
                                         Crosses(q, w[2], w[3]), Crosses(q, w[3], w[4])))

EdgeIs(a, b, q) ==
  /\ Left(a, b, q) = (b.x - a.x) * (q.y - a.y) - (b.y - a.y) * (q.x - a.x) /\ Left(a, b, q) \in Int
  /\ Crosses(q, a, b) <=> /\ (a.y > q.y /\ ~(b.y > q.y)) \/ (~(a.y > q.y) /\ b.y > q.y)
                         /\ IF b.y > a.y THEN Left(a, b, q) > 0 ELSE Left(a, b, q) < 0

(* By the even-odd rule a ray from the point crosses an edge if its ends are   *)
(* above and below and the point is left of it.                                *)
LEMMA EdgeSeen ==
  ASSUME NEW a \in Vectors, NEW b \in Vectors, NEW q \in Vectors
  PROVE  EdgeIs(a, b, q)
<1>1. PICK ax \in Int, ay \in Int : a.x = ax /\ a.y = ay
  BY DEF Vectors
<1>2. PICK bx \in Int, by \in Int : b.x = bx /\ b.y = by
  BY DEF Vectors
<1>3. PICK x \in Int, y \in Int : q.x = x /\ q.y = y
  BY DEF Vectors
<1>4. Left(a, b, q) = (bx - ax) * (y - ay) - (by - ay) * (x - ax)
  BY <1>1, <1>2, <1>3 DEF Left, cross, Minus, V
<1>5. PICK l \in Int : l = Left(a, b, q)
  BY <1>4
<1>6. PICK e \in Int : e = (x - ax) * (by - ay) - (bx - ax) * (y - ay)
  OBVIOUS
<1>7. e = -l
  BY <1>4, <1>5, <1>6
<1>8. Crosses(q, a, b) <=> ((ay > y) # (by > y)) /\ (IF by - ay > 0 THEN e < 0 ELSE e > 0)
  BY <1>1, <1>2, <1>3, <1>6 DEF Crosses
<1>9. ((ay > y) # (by > y)) <=> (ay > y /\ ~(by > y)) \/ (~(ay > y) /\ by > y)
  OBVIOUS
<1>10. (IF by - ay > 0 THEN e < 0 ELSE e > 0) <=> IF by > ay THEN l > 0 ELSE l < 0
  BY <1>7
<1> QED BY <1>1, <1>2, <1>3, <1>4, <1>5, <1>8, <1>9, <1>10 DEF EdgeIs

(* A ship that is not turned. *)
LEMMA SeenAhead ==
  ASSUME NEW w, w[1] = V(0, 25), w[2] = V(25, -25), w[3] = V(0, -10), w[4] = V(-25, -25),
         NEW x \in Int, NEW y \in Int, NEW q, q = V(x, y)
  PROVE  Seen(w, q)
<1> SUFFICES ASSUME OffEdges(w, q)
             PROVE  InTriangles(w, q) <=> Near(q) /\ Odd(Crosses(q, w[4], w[1]), Crosses(q, w[1], w[2]),
                                                        Crosses(q, w[2], w[3]), Crosses(q, w[3], w[4]))
  BY DEF Seen
<1>1. /\ w[1] \in Vectors /\ w[1].x = 0 /\ w[1].y = 25
      /\ w[2] \in Vectors /\ w[2].x = 25 /\ w[2].y = -25
      /\ w[3] \in Vectors /\ w[3].x = 0 /\ w[3].y = -10
      /\ w[4] \in Vectors /\ w[4].x = -25 /\ w[4].y = -25
      /\ q \in Vectors /\ q.x = x /\ q.y = y
  BY DEF V, Vectors
<1>2. PICK l12 \in Int : l12 = 25 * (y - 25) + 50 * x
  <2>1. 25 * (y - 25) + 50 * x \in Int
    OBVIOUS
  <2> QED BY <2>1
<1>3. PICK l23 \in Int : l23 = -25 * (y + 25) - 15 * (x - 25)
  <2>1. -25 * (y + 25) - 15 * (x - 25) \in Int
    OBVIOUS
  <2> QED BY <2>1
<1>4. PICK l34 \in Int : l34 = -25 * (y + 10) + 15 * x
  <2>1. -25 * (y + 10) + 15 * x \in Int
    OBVIOUS
  <2> QED BY <2>1
<1>5. PICK l41 \in Int : l41 = 25 * (y + 25) - 50 * (x + 25)
  <2>1. 25 * (y + 25) - 50 * (x + 25) \in Int
    OBVIOUS
  <2> QED BY <2>1
<1>6. PICK l31 \in Int : l31 = -35 * x
  <2>1. -35 * x \in Int
    OBVIOUS
  <2> QED BY <2>1
<1>7. /\ Left(w[1], w[2], q) = l12 /\ ~(l12 = 0 /\ 0 <= x /\ x <= 25 /\ -25 <= y /\ y <= 25)
      /\ Crosses(q, w[1], w[2]) <=> (-25 <= y /\ y < 25 /\ l12 < 0)
  <2>1. EdgeIs(w[1], w[2], q)
    BY <1>1, EdgeSeen
  <2>2. Left(w[1], w[2], q) = l12
    BY <1>1, <1>2, <2>1 DEF EdgeIs
  <2>3. ~OnSide(w[1], w[2], q)
    BY DEF OffEdges
  <2>4. ~(l12 = 0 /\ 0 <= x /\ x <= 25 /\ -25 <= y /\ y <= 25)
    BY <1>1, <2>2, <2>3 DEF OnSide, Between
  <2>5. Crosses(q, w[1], w[2]) <=> (-25 <= y /\ y < 25 /\ l12 < 0)
    BY <1>1, <2>1, <2>2 DEF EdgeIs
  <2> QED BY <2>2, <2>4, <2>5
<1>8. /\ Left(w[2], w[3], q) = l23 /\ ~(l23 = 0 /\ 0 <= x /\ x <= 25 /\ -25 <= y /\ y <= -10)
      /\ Crosses(q, w[2], w[3]) <=> (-25 <= y /\ y < -10 /\ l23 > 0)
  <2>1. EdgeIs(w[2], w[3], q)
    BY <1>1, EdgeSeen
  <2>2. Left(w[2], w[3], q) = l23
    BY <1>1, <1>3, <2>1 DEF EdgeIs
  <2>3. ~OnSide(w[2], w[3], q)
    BY DEF OffEdges
  <2>4. ~(l23 = 0 /\ 0 <= x /\ x <= 25 /\ -25 <= y /\ y <= -10)
    BY <1>1, <2>2, <2>3 DEF OnSide, Between
  <2>5. Crosses(q, w[2], w[3]) <=> (-25 <= y /\ y < -10 /\ l23 > 0)
    BY <1>1, <2>1, <2>2 DEF EdgeIs
  <2> QED BY <2>2, <2>4, <2>5
<1>9. /\ Left(w[3], w[4], q) = l34 /\ ~(l34 = 0 /\ -25 <= x /\ x <= 0 /\ -25 <= y /\ y <= -10)
      /\ Crosses(q, w[3], w[4]) <=> (-25 <= y /\ y < -10 /\ l34 < 0)
  <2>1. EdgeIs(w[3], w[4], q)
    BY <1>1, EdgeSeen
  <2>2. Left(w[3], w[4], q) = l34
    BY <1>1, <1>4, <2>1 DEF EdgeIs
  <2>3. ~OnSide(w[3], w[4], q)
    BY DEF OffEdges
  <2>4. ~(l34 = 0 /\ -25 <= x /\ x <= 0 /\ -25 <= y /\ y <= -10)
    BY <1>1, <2>2, <2>3 DEF OnSide, Between
  <2>5. Crosses(q, w[3], w[4]) <=> (-25 <= y /\ y < -10 /\ l34 < 0)
    BY <1>1, <2>1, <2>2 DEF EdgeIs
  <2> QED BY <2>2, <2>4, <2>5
<1>10. /\ Left(w[4], w[1], q) = l41 /\ ~(l41 = 0 /\ -25 <= x /\ x <= 0 /\ -25 <= y /\ y <= 25)
       /\ Crosses(q, w[4], w[1]) <=> (-25 <= y /\ y < 25 /\ l41 > 0)
  <2>1. EdgeIs(w[4], w[1], q)
    BY <1>1, EdgeSeen
  <2>2. Left(w[4], w[1], q) = l41
    BY <1>1, <1>5, <2>1 DEF EdgeIs
  <2>3. ~OnSide(w[4], w[1], q)
    BY DEF OffEdges
  <2>4. ~(l41 = 0 /\ -25 <= x /\ x <= 0 /\ -25 <= y /\ y <= 25)
    BY <1>1, <2>2, <2>3 DEF OnSide, Between
  <2>5. Crosses(q, w[4], w[1]) <=> (-25 <= y /\ y < 25 /\ l41 > 0)
    BY <1>1, <2>1, <2>2 DEF EdgeIs
  <2> QED BY <2>2, <2>4, <2>5
<1>11. Left(w[3], w[1], q) = l31 /\ Left(w[1], w[3], q) = -l31
  <2>1. EdgeIs(w[3], w[1], q) /\ EdgeIs(w[1], w[3], q)
    BY <1>1, EdgeSeen
  <2>2. Left(w[3], w[1], q) = (0) * (y + 10) - (35) * x
    BY <1>1, <2>1 DEF EdgeIs
  <2>3. Left(w[1], w[3], q) = (0) * (y - 25) - (0 - 35) * x
    BY <1>1, <2>1 DEF EdgeIs
  <2> QED BY <1>6, <2>2, <2>3
<1>12. PICK c1 \in BOOLEAN : c1 <=> Crosses(q, w[4], w[1])
  OBVIOUS
<1>13. PICK c2 \in BOOLEAN : c2 <=> Crosses(q, w[1], w[2])
  OBVIOUS
<1>14. PICK c3 \in BOOLEAN : c3 <=> Crosses(q, w[2], w[3])
  OBVIOUS
<1>15. PICK c4 \in BOOLEAN : c4 <=> Crosses(q, w[3], w[4])
  OBVIOUS
<1>16. ~(l12 = 0 /\ 0 <= x /\ x <= 25 /\ -25 <= y /\ y <= 25)
  BY <1>7
<1>17. c2 <=> (-25 <= y /\ y < 25 /\ l12 < 0)
  BY <1>7, <1>13
<1>18. ~(l23 = 0 /\ 0 <= x /\ x <= 25 /\ -25 <= y /\ y <= -10)
  BY <1>8
<1>19. c3 <=> (-25 <= y /\ y < -10 /\ l23 > 0)
  BY <1>8, <1>14
<1>20. ~(l34 = 0 /\ -25 <= x /\ x <= 0 /\ -25 <= y /\ y <= -10)
  BY <1>9
<1>21. c4 <=> (-25 <= y /\ y < -10 /\ l34 < 0)
  BY <1>9, <1>15
<1>22. ~(l41 = 0 /\ -25 <= x /\ x <= 0 /\ -25 <= y /\ y <= 25)
  BY <1>10
<1>23. c1 <=> (-25 <= y /\ y < 25 /\ l41 > 0)
  BY <1>10, <1>12
<1>24. OneSign(l12, l23, l31) \/ OneSign(-l31, l34, l41)
        <=> (-35 <= x /\ x <= 35 /\ -35 <= y /\ y <= 35 /\ Odd(c1, c2, c3, c4))
  <2>1. CASE y < -25 \/ y >= 25
    BY <1>2, <1>3, <1>4, <1>5, <1>6, <1>16, <1>17, <1>18, <1>19, <1>20, <1>21, <1>22, <1>23, <2>1 DEF OneSign, Odd
  <2>2. CASE -25 <= y /\ y < -10
    BY <1>2, <1>3, <1>4, <1>5, <1>6, <1>16, <1>17, <1>18, <1>19, <1>20, <1>21, <1>22, <1>23, <2>2 DEF OneSign, Odd
  <2>3. CASE -10 <= y /\ y < 25
    BY <1>2, <1>3, <1>4, <1>5, <1>6, <1>16, <1>17, <1>18, <1>19, <1>20, <1>21, <1>22, <1>23, <2>3 DEF OneSign, Odd
  <2> QED BY <2>1, <2>2, <2>3
<1>25. InTriangles(w, q) <=> OneSign(l12, l23, l31) \/ OneSign(-l31, l34, l41)
  BY ONLY <1>7, <1>8, <1>9, <1>10, <1>11 DEF InTriangles
<1>26. Near(q) <=> (-35 <= x /\ x <= 35 /\ -35 <= y /\ y <= 35)
  BY <1>1 DEF Near
<1>27. Odd(Crosses(q, w[4], w[1]), Crosses(q, w[1], w[2]), Crosses(q, w[2], w[3]), Crosses(q, w[3], w[4]))
        <=> Odd(c1, c2, c3, c4)
  BY Zenon, <1>12, <1>13, <1>14, <1>15 DEF Odd
<1> QED BY Zenon, <1>24, <1>25, <1>26, <1>27

(* A ship that is turned by a quarter. *)
LEMMA SeenAcross ==
  ASSUME NEW w, w[1] = V(-25, 0), w[2] = V(25, 25), w[3] = V(10, 0), w[4] = V(25, -25),
         NEW x \in Int, NEW y \in Int, NEW q, q = V(x, y)
  PROVE  Seen(w, q)
<1> SUFFICES ASSUME OffEdges(w, q)
             PROVE  InTriangles(w, q) <=> Near(q) /\ Odd(Crosses(q, w[4], w[1]), Crosses(q, w[1], w[2]),
                                                        Crosses(q, w[2], w[3]), Crosses(q, w[3], w[4]))
  BY DEF Seen
<1>1. /\ w[1] \in Vectors /\ w[1].x = -25 /\ w[1].y = 0
      /\ w[2] \in Vectors /\ w[2].x = 25 /\ w[2].y = 25
      /\ w[3] \in Vectors /\ w[3].x = 10 /\ w[3].y = 0
      /\ w[4] \in Vectors /\ w[4].x = 25 /\ w[4].y = -25
      /\ q \in Vectors /\ q.x = x /\ q.y = y
  BY DEF V, Vectors
<1>2. PICK l12 \in Int : l12 = 50 * y - 25 * (x + 25)
  <2>1. 50 * y - 25 * (x + 25) \in Int
    OBVIOUS
  <2> QED BY <2>1
<1>3. PICK l23 \in Int : l23 = -15 * (y - 25) + 25 * (x - 25)
  <2>1. -15 * (y - 25) + 25 * (x - 25) \in Int
    OBVIOUS
  <2> QED BY <2>1
<1>4. PICK l34 \in Int : l34 = 15 * y + 25 * (x - 10)
  <2>1. 15 * y + 25 * (x - 10) \in Int
    OBVIOUS
  <2> QED BY <2>1
<1>5. PICK l41 \in Int : l41 = -50 * (y + 25) - 25 * (x - 25)
  <2>1. -50 * (y + 25) - 25 * (x - 25) \in Int
    OBVIOUS
  <2> QED BY <2>1
<1>6. PICK l31 \in Int : l31 = -35 * y
  <2>1. -35 * y \in Int
    OBVIOUS
  <2> QED BY <2>1
<1>7. /\ Left(w[1], w[2], q) = l12 /\ ~(l12 = 0 /\ -25 <= x /\ x <= 25 /\ 0 <= y /\ y <= 25)
      /\ Crosses(q, w[1], w[2]) <=> (0 <= y /\ y < 25 /\ l12 > 0)
  <2>1. EdgeIs(w[1], w[2], q)
    BY <1>1, EdgeSeen
  <2>2. Left(w[1], w[2], q) = l12
    BY <1>1, <1>2, <2>1 DEF EdgeIs
  <2>3. ~OnSide(w[1], w[2], q)
    BY DEF OffEdges
  <2>4. ~(l12 = 0 /\ -25 <= x /\ x <= 25 /\ 0 <= y /\ y <= 25)
    BY <1>1, <2>2, <2>3 DEF OnSide, Between
  <2>5. Crosses(q, w[1], w[2]) <=> (0 <= y /\ y < 25 /\ l12 > 0)
    BY <1>1, <2>1, <2>2 DEF EdgeIs
  <2> QED BY <2>2, <2>4, <2>5
<1>8. /\ Left(w[2], w[3], q) = l23 /\ ~(l23 = 0 /\ 10 <= x /\ x <= 25 /\ 0 <= y /\ y <= 25)
      /\ Crosses(q, w[2], w[3]) <=> (0 <= y /\ y < 25 /\ l23 < 0)
  <2>1. EdgeIs(w[2], w[3], q)
    BY <1>1, EdgeSeen
  <2>2. Left(w[2], w[3], q) = l23
    BY <1>1, <1>3, <2>1 DEF EdgeIs
  <2>3. ~OnSide(w[2], w[3], q)
    BY DEF OffEdges
  <2>4. ~(l23 = 0 /\ 10 <= x /\ x <= 25 /\ 0 <= y /\ y <= 25)
    BY <1>1, <2>2, <2>3 DEF OnSide, Between
  <2>5. Crosses(q, w[2], w[3]) <=> (0 <= y /\ y < 25 /\ l23 < 0)
    BY <1>1, <2>1, <2>2 DEF EdgeIs
  <2> QED BY <2>2, <2>4, <2>5
<1>9. /\ Left(w[3], w[4], q) = l34 /\ ~(l34 = 0 /\ 10 <= x /\ x <= 25 /\ -25 <= y /\ y <= 0)
      /\ Crosses(q, w[3], w[4]) <=> (-25 <= y /\ y < 0 /\ l34 < 0)
  <2>1. EdgeIs(w[3], w[4], q)
    BY <1>1, EdgeSeen
  <2>2. Left(w[3], w[4], q) = l34
    BY <1>1, <1>4, <2>1 DEF EdgeIs
  <2>3. ~OnSide(w[3], w[4], q)
    BY DEF OffEdges
  <2>4. ~(l34 = 0 /\ 10 <= x /\ x <= 25 /\ -25 <= y /\ y <= 0)
    BY <1>1, <2>2, <2>3 DEF OnSide, Between
  <2>5. Crosses(q, w[3], w[4]) <=> (-25 <= y /\ y < 0 /\ l34 < 0)
    BY <1>1, <2>1, <2>2 DEF EdgeIs
  <2> QED BY <2>2, <2>4, <2>5
<1>10. /\ Left(w[4], w[1], q) = l41 /\ ~(l41 = 0 /\ -25 <= x /\ x <= 25 /\ -25 <= y /\ y <= 0)
       /\ Crosses(q, w[4], w[1]) <=> (-25 <= y /\ y < 0 /\ l41 > 0)
  <2>1. EdgeIs(w[4], w[1], q)
    BY <1>1, EdgeSeen
  <2>2. Left(w[4], w[1], q) = l41
    BY <1>1, <1>5, <2>1 DEF EdgeIs
  <2>3. ~OnSide(w[4], w[1], q)
    BY DEF OffEdges
  <2>4. ~(l41 = 0 /\ -25 <= x /\ x <= 25 /\ -25 <= y /\ y <= 0)
    BY <1>1, <2>2, <2>3 DEF OnSide, Between
  <2>5. Crosses(q, w[4], w[1]) <=> (-25 <= y /\ y < 0 /\ l41 > 0)
    BY <1>1, <2>1, <2>2 DEF EdgeIs
  <2> QED BY <2>2, <2>4, <2>5
<1>11. Left(w[3], w[1], q) = l31 /\ Left(w[1], w[3], q) = -l31
  <2>1. EdgeIs(w[3], w[1], q) /\ EdgeIs(w[1], w[3], q)
    BY <1>1, EdgeSeen
  <2>2. Left(w[3], w[1], q) = (0 - 35) * y - (0) * (x - 10)
    BY <1>1, <2>1 DEF EdgeIs
  <2>3. Left(w[1], w[3], q) = (35) * y - (0) * (x + 25)
    BY <1>1, <2>1 DEF EdgeIs
  <2> QED BY <1>6, <2>2, <2>3
<1>12. PICK c1 \in BOOLEAN : c1 <=> Crosses(q, w[4], w[1])
  OBVIOUS
<1>13. PICK c2 \in BOOLEAN : c2 <=> Crosses(q, w[1], w[2])
  OBVIOUS
<1>14. PICK c3 \in BOOLEAN : c3 <=> Crosses(q, w[2], w[3])
  OBVIOUS
<1>15. PICK c4 \in BOOLEAN : c4 <=> Crosses(q, w[3], w[4])
  OBVIOUS
<1>16. ~(l12 = 0 /\ -25 <= x /\ x <= 25 /\ 0 <= y /\ y <= 25)
  BY <1>7
<1>17. c2 <=> (0 <= y /\ y < 25 /\ l12 > 0)
  BY <1>7, <1>13
<1>18. ~(l23 = 0 /\ 10 <= x /\ x <= 25 /\ 0 <= y /\ y <= 25)
  BY <1>8
<1>19. c3 <=> (0 <= y /\ y < 25 /\ l23 < 0)
  BY <1>8, <1>14
<1>20. ~(l34 = 0 /\ 10 <= x /\ x <= 25 /\ -25 <= y /\ y <= 0)
  BY <1>9
<1>21. c4 <=> (-25 <= y /\ y < 0 /\ l34 < 0)
  BY <1>9, <1>15
<1>22. ~(l41 = 0 /\ -25 <= x /\ x <= 25 /\ -25 <= y /\ y <= 0)
  BY <1>10
<1>23. c1 <=> (-25 <= y /\ y < 0 /\ l41 > 0)
  BY <1>10, <1>12
<1>24. OneSign(l12, l23, l31) \/ OneSign(-l31, l34, l41)
        <=> (-35 <= x /\ x <= 35 /\ -35 <= y /\ y <= 35 /\ Odd(c1, c2, c3, c4))
  <2>1. CASE y < -25 \/ y >= 25
    BY <1>2, <1>3, <1>4, <1>5, <1>6, <1>16, <1>17, <1>18, <1>19, <1>20, <1>21, <1>22, <1>23, <2>1 DEF OneSign, Odd
  <2>2. CASE -25 <= y /\ y < 0
    BY <1>2, <1>3, <1>4, <1>5, <1>6, <1>16, <1>17, <1>18, <1>19, <1>20, <1>21, <1>22, <1>23, <2>2 DEF OneSign, Odd
  <2>3. CASE 0 <= y /\ y < 25
    BY <1>2, <1>3, <1>4, <1>5, <1>6, <1>16, <1>17, <1>18, <1>19, <1>20, <1>21, <1>22, <1>23, <2>3 DEF OneSign, Odd
  <2> QED BY <2>1, <2>2, <2>3
<1>25. InTriangles(w, q) <=> OneSign(l12, l23, l31) \/ OneSign(-l31, l34, l41)
  BY ONLY <1>7, <1>8, <1>9, <1>10, <1>11 DEF InTriangles
<1>26. Near(q) <=> (-35 <= x /\ x <= 35 /\ -35 <= y /\ y <= 35)
  BY <1>1 DEF Near
<1>27. Odd(Crosses(q, w[4], w[1]), Crosses(q, w[1], w[2]), Crosses(q, w[2], w[3]), Crosses(q, w[3], w[4]))
        <=> Odd(c1, c2, c3, c4)
  BY Zenon, <1>12, <1>13, <1>14, <1>15 DEF Odd
<1> QED BY Zenon, <1>24, <1>25, <1>26, <1>27

(* A ship that is turned by less than a quarter. *)
LEMMA SeenSteep ==
  ASSUME NEW w, w[1] = V(-20, 15), w[2] = V(35, 5), w[3] = V(8, -6), w[4] = V(5, -35),
         NEW x \in Int, NEW y \in Int, NEW q, q = V(x, y)
  PROVE  Seen(w, q)
<1> SUFFICES ASSUME OffEdges(w, q)
             PROVE  InTriangles(w, q) <=> Near(q) /\ Odd(Crosses(q, w[4], w[1]), Crosses(q, w[1], w[2]),
                                                        Crosses(q, w[2], w[3]), Crosses(q, w[3], w[4]))
  BY DEF Seen
<1>1. /\ w[1] \in Vectors /\ w[1].x = -20 /\ w[1].y = 15
      /\ w[2] \in Vectors /\ w[2].x = 35 /\ w[2].y = 5
      /\ w[3] \in Vectors /\ w[3].x = 8 /\ w[3].y = -6
      /\ w[4] \in Vectors /\ w[4].x = 5 /\ w[4].y = -35
      /\ q \in Vectors /\ q.x = x /\ q.y = y
  BY DEF V, Vectors
<1>2. PICK l12 \in Int : l12 = 55 * (y - 15) + 10 * (x + 20)
  <2>1. 55 * (y - 15) + 10 * (x + 20) \in Int
    OBVIOUS
  <2> QED BY <2>1
<1>3. PICK l23 \in Int : l23 = -27 * (y - 5) + 11 * (x - 35)
  <2>1. -27 * (y - 5) + 11 * (x - 35) \in Int
    OBVIOUS
  <2> QED BY <2>1
<1>4. PICK l34 \in Int : l34 = -3 * (y + 6) + 29 * (x - 8)
  <2>1. -3 * (y + 6) + 29 * (x - 8) \in Int
    OBVIOUS
  <2> QED BY <2>1
<1>5. PICK l41 \in Int : l41 = -25 * (y + 35) - 50 * (x - 5)
  <2>1. -25 * (y + 35) - 50 * (x - 5) \in Int
    OBVIOUS
  <2> QED BY <2>1
<1>6. PICK l31 \in Int : l31 = -28 * (y + 6) - 21 * (x - 8)
  <2>1. -28 * (y + 6) - 21 * (x - 8) \in Int
    OBVIOUS
  <2> QED BY <2>1
<1>7. /\ Left(w[1], w[2], q) = l12 /\ ~(l12 = 0 /\ -20 <= x /\ x <= 35 /\ 5 <= y /\ y <= 15)
      /\ Crosses(q, w[1], w[2]) <=> (5 <= y /\ y < 15 /\ l12 < 0)
  <2>1. EdgeIs(w[1], w[2], q)
    BY <1>1, EdgeSeen
  <2>2. Left(w[1], w[2], q) = l12
    BY <1>1, <1>2, <2>1 DEF EdgeIs
  <2>3. ~OnSide(w[1], w[2], q)
    BY DEF OffEdges
  <2>4. ~(l12 = 0 /\ -20 <= x /\ x <= 35 /\ 5 <= y /\ y <= 15)
    BY <1>1, <2>2, <2>3 DEF OnSide, Between
  <2>5. Crosses(q, w[1], w[2]) <=> (5 <= y /\ y < 15 /\ l12 < 0)
    BY <1>1, <2>1, <2>2 DEF EdgeIs
  <2> QED BY <2>2, <2>4, <2>5
<1>8. /\ Left(w[2], w[3], q) = l23 /\ ~(l23 = 0 /\ 8 <= x /\ x <= 35 /\ -6 <= y /\ y <= 5)
      /\ Crosses(q, w[2], w[3]) <=> (-6 <= y /\ y < 5 /\ l23 < 0)
  <2>1. EdgeIs(w[2], w[3], q)
    BY <1>1, EdgeSeen
  <2>2. Left(w[2], w[3], q) = l23
    BY <1>1, <1>3, <2>1 DEF EdgeIs
  <2>3. ~OnSide(w[2], w[3], q)
    BY DEF OffEdges
  <2>4. ~(l23 = 0 /\ 8 <= x /\ x <= 35 /\ -6 <= y /\ y <= 5)
    BY <1>1, <2>2, <2>3 DEF OnSide, Between
  <2>5. Crosses(q, w[2], w[3]) <=> (-6 <= y /\ y < 5 /\ l23 < 0)
    BY <1>1, <2>1, <2>2 DEF EdgeIs
  <2> QED BY <2>2, <2>4, <2>5
<1>9. /\ Left(w[3], w[4], q) = l34 /\ ~(l34 = 0 /\ 5 <= x /\ x <= 8 /\ -35 <= y /\ y <= -6)
      /\ Crosses(q, w[3], w[4]) <=> (-35 <= y /\ y < -6 /\ l34 < 0)
  <2>1. EdgeIs(w[3], w[4], q)
    BY <1>1, EdgeSeen
  <2>2. Left(w[3], w[4], q) = l34
    BY <1>1, <1>4, <2>1 DEF EdgeIs
  <2>3. ~OnSide(w[3], w[4], q)
    BY DEF OffEdges
  <2>4. ~(l34 = 0 /\ 5 <= x /\ x <= 8 /\ -35 <= y /\ y <= -6)
    BY <1>1, <2>2, <2>3 DEF OnSide, Between
  <2>5. Crosses(q, w[3], w[4]) <=> (-35 <= y /\ y < -6 /\ l34 < 0)
    BY <1>1, <2>1, <2>2 DEF EdgeIs
  <2> QED BY <2>2, <2>4, <2>5
<1>10. /\ Left(w[4], w[1], q) = l41 /\ ~(l41 = 0 /\ -20 <= x /\ x <= 5 /\ -35 <= y /\ y <= 15)
       /\ Crosses(q, w[4], w[1]) <=> (-35 <= y /\ y < 15 /\ l41 > 0)
  <2>1. EdgeIs(w[4], w[1], q)
    BY <1>1, EdgeSeen
  <2>2. Left(w[4], w[1], q) = l41
    BY <1>1, <1>5, <2>1 DEF EdgeIs
  <2>3. ~OnSide(w[4], w[1], q)
    BY DEF OffEdges
  <2>4. ~(l41 = 0 /\ -20 <= x /\ x <= 5 /\ -35 <= y /\ y <= 15)
    BY <1>1, <2>2, <2>3 DEF OnSide, Between
  <2>5. Crosses(q, w[4], w[1]) <=> (-35 <= y /\ y < 15 /\ l41 > 0)
    BY <1>1, <2>1, <2>2 DEF EdgeIs
  <2> QED BY <2>2, <2>4, <2>5
<1>11. Left(w[3], w[1], q) = l31 /\ Left(w[1], w[3], q) = -l31
  <2>1. EdgeIs(w[3], w[1], q) /\ EdgeIs(w[1], w[3], q)
    BY <1>1, EdgeSeen
  <2>2. Left(w[3], w[1], q) = (0 - 28) * (y + 6) - (21) * (x - 8)
    BY <1>1, <2>1 DEF EdgeIs
  <2>3. Left(w[1], w[3], q) = (28) * (y - 15) - (0 - 21) * (x + 20)
    BY <1>1, <2>1 DEF EdgeIs
  <2> QED BY <1>6, <2>2, <2>3
<1>12. PICK c1 \in BOOLEAN : c1 <=> Crosses(q, w[4], w[1])
  OBVIOUS
<1>13. PICK c2 \in BOOLEAN : c2 <=> Crosses(q, w[1], w[2])
  OBVIOUS
<1>14. PICK c3 \in BOOLEAN : c3 <=> Crosses(q, w[2], w[3])
  OBVIOUS
<1>15. PICK c4 \in BOOLEAN : c4 <=> Crosses(q, w[3], w[4])
  OBVIOUS
<1>16. ~(l12 = 0 /\ -20 <= x /\ x <= 35 /\ 5 <= y /\ y <= 15)
  BY <1>7
<1>17. c2 <=> (5 <= y /\ y < 15 /\ l12 < 0)
  BY <1>7, <1>13
<1>18. ~(l23 = 0 /\ 8 <= x /\ x <= 35 /\ -6 <= y /\ y <= 5)
  BY <1>8
<1>19. c3 <=> (-6 <= y /\ y < 5 /\ l23 < 0)
  BY <1>8, <1>14
<1>20. ~(l34 = 0 /\ 5 <= x /\ x <= 8 /\ -35 <= y /\ y <= -6)
  BY <1>9
<1>21. c4 <=> (-35 <= y /\ y < -6 /\ l34 < 0)
  BY <1>9, <1>15
<1>22. ~(l41 = 0 /\ -20 <= x /\ x <= 5 /\ -35 <= y /\ y <= 15)
  BY <1>10
<1>23. c1 <=> (-35 <= y /\ y < 15 /\ l41 > 0)
  BY <1>10, <1>12
<1>24. OneSign(l12, l23, l31) \/ OneSign(-l31, l34, l41)
        <=> (-35 <= x /\ x <= 35 /\ -35 <= y /\ y <= 35 /\ Odd(c1, c2, c3, c4))
  <2>1. CASE y < -35 \/ y >= 15
    BY <1>2, <1>3, <1>4, <1>5, <1>6, <1>16, <1>17, <1>18, <1>19, <1>20, <1>21, <1>22, <1>23, <2>1 DEF OneSign, Odd
  <2>2. CASE -35 <= y /\ y < -6
    BY <1>2, <1>3, <1>4, <1>5, <1>6, <1>16, <1>17, <1>18, <1>19, <1>20, <1>21, <1>22, <1>23, <2>2 DEF OneSign, Odd
  <2>3. CASE -6 <= y /\ y < 5
    BY <1>2, <1>3, <1>4, <1>5, <1>6, <1>16, <1>17, <1>18, <1>19, <1>20, <1>21, <1>22, <1>23, <2>3 DEF OneSign, Odd
  <2>4. CASE 5 <= y /\ y < 15
    BY <1>2, <1>3, <1>4, <1>5, <1>6, <1>16, <1>17, <1>18, <1>19, <1>20, <1>21, <1>22, <1>23, <2>4 DEF OneSign, Odd
  <2> QED BY <2>1, <2>2, <2>3, <2>4
<1>25. InTriangles(w, q) <=> OneSign(l12, l23, l31) \/ OneSign(-l31, l34, l41)
  BY ONLY <1>7, <1>8, <1>9, <1>10, <1>11 DEF InTriangles
<1>26. Near(q) <=> (-35 <= x /\ x <= 35 /\ -35 <= y /\ y <= 35)
  BY <1>1 DEF Near
<1>27. Odd(Crosses(q, w[4], w[1]), Crosses(q, w[1], w[2]), Crosses(q, w[2], w[3]), Crosses(q, w[3], w[4]))
        <=> Odd(c1, c2, c3, c4)
  BY Zenon, <1>12, <1>13, <1>14, <1>15 DEF Odd
<1> QED BY Zenon, <1>24, <1>25, <1>26, <1>27

(* A ship that is turned by more than a quarter. *)
LEMMA SeenFlat ==
  ASSUME NEW w, w[1] = V(-15, -20), w[2] = V(-5, 35), w[3] = V(6, 8), w[4] = V(35, 5),
         NEW x \in Int, NEW y \in Int, NEW q, q = V(x, y)
  PROVE  Seen(w, q)
<1> SUFFICES ASSUME OffEdges(w, q)
             PROVE  InTriangles(w, q) <=> Near(q) /\ Odd(Crosses(q, w[4], w[1]), Crosses(q, w[1], w[2]),
                                                        Crosses(q, w[2], w[3]), Crosses(q, w[3], w[4]))
  BY DEF Seen
<1>1. /\ w[1] \in Vectors /\ w[1].x = -15 /\ w[1].y = -20
      /\ w[2] \in Vectors /\ w[2].x = -5 /\ w[2].y = 35
      /\ w[3] \in Vectors /\ w[3].x = 6 /\ w[3].y = 8
      /\ w[4] \in Vectors /\ w[4].x = 35 /\ w[4].y = 5
      /\ q \in Vectors /\ q.x = x /\ q.y = y
  BY DEF V, Vectors
<1>2. PICK l12 \in Int : l12 = 10 * (y + 20) - 55 * (x + 15)
  <2>1. 10 * (y + 20) - 55 * (x + 15) \in Int
    OBVIOUS
  <2> QED BY <2>1
<1>3. PICK l23 \in Int : l23 = 11 * (y - 35) + 27 * (x + 5)
  <2>1. 11 * (y - 35) + 27 * (x + 5) \in Int
    OBVIOUS
  <2> QED BY <2>1
<1>4. PICK l34 \in Int : l34 = 29 * (y - 8) + 3 * (x - 6)
  <2>1. 29 * (y - 8) + 3 * (x - 6) \in Int
    OBVIOUS
  <2> QED BY <2>1
<1>5. PICK l41 \in Int : l41 = -50 * (y - 5) + 25 * (x - 35)
  <2>1. -50 * (y - 5) + 25 * (x - 35) \in Int
    OBVIOUS
  <2> QED BY <2>1
<1>6. PICK l31 \in Int : l31 = -21 * (y - 8) + 28 * (x - 6)
  <2>1. -21 * (y - 8) + 28 * (x - 6) \in Int
    OBVIOUS
  <2> QED BY <2>1
<1>7. /\ Left(w[1], w[2], q) = l12 /\ ~(l12 = 0 /\ -15 <= x /\ x <= -5 /\ -20 <= y /\ y <= 35)
      /\ Crosses(q, w[1], w[2]) <=> (-20 <= y /\ y < 35 /\ l12 > 0)
  <2>1. EdgeIs(w[1], w[2], q)
    BY <1>1, EdgeSeen
  <2>2. Left(w[1], w[2], q) = l12
    BY <1>1, <1>2, <2>1 DEF EdgeIs
  <2>3. ~OnSide(w[1], w[2], q)
    BY DEF OffEdges
  <2>4. ~(l12 = 0 /\ -15 <= x /\ x <= -5 /\ -20 <= y /\ y <= 35)
    BY <1>1, <2>2, <2>3 DEF OnSide, Between
  <2>5. Crosses(q, w[1], w[2]) <=> (-20 <= y /\ y < 35 /\ l12 > 0)
    BY <1>1, <2>1, <2>2 DEF EdgeIs
  <2> QED BY <2>2, <2>4, <2>5
<1>8. /\ Left(w[2], w[3], q) = l23 /\ ~(l23 = 0 /\ -5 <= x /\ x <= 6 /\ 8 <= y /\ y <= 35)
      /\ Crosses(q, w[2], w[3]) <=> (8 <= y /\ y < 35 /\ l23 < 0)
  <2>1. EdgeIs(w[2], w[3], q)
    BY <1>1, EdgeSeen
  <2>2. Left(w[2], w[3], q) = l23
    BY <1>1, <1>3, <2>1 DEF EdgeIs
  <2>3. ~OnSide(w[2], w[3], q)
    BY DEF OffEdges
  <2>4. ~(l23 = 0 /\ -5 <= x /\ x <= 6 /\ 8 <= y /\ y <= 35)
    BY <1>1, <2>2, <2>3 DEF OnSide, Between
  <2>5. Crosses(q, w[2], w[3]) <=> (8 <= y /\ y < 35 /\ l23 < 0)
    BY <1>1, <2>1, <2>2 DEF EdgeIs
  <2> QED BY <2>2, <2>4, <2>5
<1>9. /\ Left(w[3], w[4], q) = l34 /\ ~(l34 = 0 /\ 6 <= x /\ x <= 35 /\ 5 <= y /\ y <= 8)
      /\ Crosses(q, w[3], w[4]) <=> (5 <= y /\ y < 8 /\ l34 < 0)
  <2>1. EdgeIs(w[3], w[4], q)
    BY <1>1, EdgeSeen
  <2>2. Left(w[3], w[4], q) = l34
    BY <1>1, <1>4, <2>1 DEF EdgeIs
  <2>3. ~OnSide(w[3], w[4], q)
    BY DEF OffEdges
  <2>4. ~(l34 = 0 /\ 6 <= x /\ x <= 35 /\ 5 <= y /\ y <= 8)
    BY <1>1, <2>2, <2>3 DEF OnSide, Between
  <2>5. Crosses(q, w[3], w[4]) <=> (5 <= y /\ y < 8 /\ l34 < 0)
    BY <1>1, <2>1, <2>2 DEF EdgeIs
  <2> QED BY <2>2, <2>4, <2>5
<1>10. /\ Left(w[4], w[1], q) = l41 /\ ~(l41 = 0 /\ -15 <= x /\ x <= 35 /\ -20 <= y /\ y <= 5)
       /\ Crosses(q, w[4], w[1]) <=> (-20 <= y /\ y < 5 /\ l41 < 0)
  <2>1. EdgeIs(w[4], w[1], q)
    BY <1>1, EdgeSeen
  <2>2. Left(w[4], w[1], q) = l41
    BY <1>1, <1>5, <2>1 DEF EdgeIs
  <2>3. ~OnSide(w[4], w[1], q)
    BY DEF OffEdges
  <2>4. ~(l41 = 0 /\ -15 <= x /\ x <= 35 /\ -20 <= y /\ y <= 5)
    BY <1>1, <2>2, <2>3 DEF OnSide, Between
  <2>5. Crosses(q, w[4], w[1]) <=> (-20 <= y /\ y < 5 /\ l41 < 0)
    BY <1>1, <2>1, <2>2 DEF EdgeIs
  <2> QED BY <2>2, <2>4, <2>5
<1>11. Left(w[3], w[1], q) = l31 /\ Left(w[1], w[3], q) = -l31
  <2>1. EdgeIs(w[3], w[1], q) /\ EdgeIs(w[1], w[3], q)
    BY <1>1, EdgeSeen
  <2>2. Left(w[3], w[1], q) = (0 - 21) * (y - 8) - (0 - 28) * (x - 6)
    BY <1>1, <2>1 DEF EdgeIs
  <2>3. Left(w[1], w[3], q) = (21) * (y + 20) - (28) * (x + 15)
    BY <1>1, <2>1 DEF EdgeIs
  <2> QED BY <1>6, <2>2, <2>3
<1>12. PICK c1 \in BOOLEAN : c1 <=> Crosses(q, w[4], w[1])
  OBVIOUS
<1>13. PICK c2 \in BOOLEAN : c2 <=> Crosses(q, w[1], w[2])
  OBVIOUS
<1>14. PICK c3 \in BOOLEAN : c3 <=> Crosses(q, w[2], w[3])
  OBVIOUS
<1>15. PICK c4 \in BOOLEAN : c4 <=> Crosses(q, w[3], w[4])
  OBVIOUS
<1>16. ~(l12 = 0 /\ -15 <= x /\ x <= -5 /\ -20 <= y /\ y <= 35)
  BY <1>7
<1>17. c2 <=> (-20 <= y /\ y < 35 /\ l12 > 0)
  BY <1>7, <1>13
<1>18. ~(l23 = 0 /\ -5 <= x /\ x <= 6 /\ 8 <= y /\ y <= 35)
  BY <1>8
<1>19. c3 <=> (8 <= y /\ y < 35 /\ l23 < 0)
  BY <1>8, <1>14
<1>20. ~(l34 = 0 /\ 6 <= x /\ x <= 35 /\ 5 <= y /\ y <= 8)
  BY <1>9
<1>21. c4 <=> (5 <= y /\ y < 8 /\ l34 < 0)
  BY <1>9, <1>15
<1>22. ~(l41 = 0 /\ -15 <= x /\ x <= 35 /\ -20 <= y /\ y <= 5)
  BY <1>10
<1>23. c1 <=> (-20 <= y /\ y < 5 /\ l41 < 0)
  BY <1>10, <1>12
<1>24. OneSign(l12, l23, l31) \/ OneSign(-l31, l34, l41)
        <=> (-35 <= x /\ x <= 35 /\ -35 <= y /\ y <= 35 /\ Odd(c1, c2, c3, c4))
  <2>1. CASE y < -20 \/ y >= 35
    BY <1>2, <1>3, <1>4, <1>5, <1>6, <1>16, <1>17, <1>18, <1>19, <1>20, <1>21, <1>22, <1>23, <2>1 DEF OneSign, Odd
  <2>2. CASE -20 <= y /\ y < 5
    BY <1>2, <1>3, <1>4, <1>5, <1>6, <1>16, <1>17, <1>18, <1>19, <1>20, <1>21, <1>22, <1>23, <2>2 DEF OneSign, Odd
  <2>3. CASE 5 <= y /\ y < 8
    BY <1>2, <1>3, <1>4, <1>5, <1>6, <1>16, <1>17, <1>18, <1>19, <1>20, <1>21, <1>22, <1>23, <2>3 DEF OneSign, Odd
  <2>4. CASE 8 <= y /\ y < 35
    BY <1>2, <1>3, <1>4, <1>5, <1>6, <1>16, <1>17, <1>18, <1>19, <1>20, <1>21, <1>22, <1>23, <2>4 DEF OneSign, Odd
  <2> QED BY <2>1, <2>2, <2>3, <2>4
<1>25. InTriangles(w, q) <=> OneSign(l12, l23, l31) \/ OneSign(-l31, l34, l41)
  BY ONLY <1>7, <1>8, <1>9, <1>10, <1>11 DEF InTriangles
<1>26. Near(q) <=> (-35 <= x /\ x <= 35 /\ -35 <= y /\ y <= 35)
  BY <1>1 DEF Near
<1>27. Odd(Crosses(q, w[4], w[1]), Crosses(q, w[1], w[2]), Crosses(q, w[2], w[3]), Crosses(q, w[3], w[4]))
        <=> Odd(c1, c2, c3, c4)
  BY Zenon, <1>12, <1>13, <1>14, <1>15 DEF Odd
<1> QED BY Zenon, <1>24, <1>25, <1>26, <1>27

(* The same from where the ship is.                                            *)
MovedLeft(a, b, s, p) ==
  /\ cross(Minus(Plus(s, b), Plus(s, a)), Minus(p, Plus(s, a))) = Left(a, b, Minus(p, s))
  /\ OnSide(a, b, Minus(p, s)) => dot(Minus(Plus(s, a), p), Minus(Plus(s, b), p)) <= 0

(* A point stays left of an edge when both are moved together.                 *)
LEMMA LeftMoves ==
  ASSUME NEW a \in Vectors, NEW b \in Vectors, NEW s \in Vectors, NEW p \in Vectors
  PROVE  MovedLeft(a, b, s, p)
<1>1. PICK ax \in Int, ay \in Int : a = V(ax, ay)
  BY DEF Vectors, V
<1>2. PICK bx \in Int, by \in Int : b = V(bx, by)
  BY DEF Vectors, V
<1>3. PICK sx \in Int, sy \in Int : s = V(sx, sy)
  BY DEF Vectors, V
<1>4. PICK px \in Int, py \in Int : p = V(px, py)
  BY DEF Vectors, V
<1>5. PICK x \in Int : x = px - sx
  OBVIOUS
<1>6. PICK y \in Int : y = py - sy
  OBVIOUS
<1>7. Minus(p, s) = V(x, y)
  BY <1>3, <1>4, <1>5, <1>6 DEF Minus, V
<1>8. Minus(Plus(s, b), Plus(s, a)) = V(bx - ax, by - ay)
  <2>1. (sx + bx) - (sx + ax) = bx - ax /\ (sy + by) - (sy + ay) = by - ay
    OBVIOUS
  <2> QED BY <1>1, <1>2, <1>3, <2>1 DEF Minus, Plus, V
<1>9. Minus(p, Plus(s, a)) = V(x - ax, y - ay)
  <2>1. px - (sx + ax) = x - ax /\ py - (sy + ay) = y - ay
    BY <1>5, <1>6
  <2> QED BY <1>1, <1>3, <1>4, <2>1 DEF Minus, Plus, V
<1>10. Minus(b, a) = V(bx - ax, by - ay) /\ Minus(V(x, y), a) = V(x - ax, y - ay)
  BY <1>1, <1>2 DEF Minus, V
<1>11. cross(Minus(Plus(s, b), Plus(s, a)), Minus(p, Plus(s, a))) = Left(a, b, Minus(p, s))
  BY <1>7, <1>8, <1>9, <1>10 DEF Left
<1>12. PICK m \in Int, n \in Int : m = ax - x /\ n = bx - x
  OBVIOUS
<1>13. PICK k \in Int, l \in Int : k = ay - y /\ l = by - y
  OBVIOUS
<1>14. dot(Minus(Plus(s, a), p), Minus(Plus(s, b), p)) = m * n + k * l
  <2>1. (sx + ax) - px = m /\ (sy + ay) - py = k /\ (sx + bx) - px = n /\ (sy + by) - py = l
    BY <1>5, <1>6, <1>12, <1>13
  <2>2. Minus(Plus(s, a), p) = V(m, k) /\ Minus(Plus(s, b), p) = V(n, l)
    BY <1>1, <1>2, <1>3, <1>4, <2>1 DEF Minus, Plus, V
  <2> QED BY <2>2 DEF dot, V
<1>15. ASSUME NEW i \in Int, NEW j \in Int, (i <= 0 /\ j >= 0) \/ (i >= 0 /\ j <= 0)
       PROVE  i * j <= 0
  BY <1>15
<1>16. ASSUME OnSide(a, b, Minus(p, s)) PROVE m * n + k * l <= 0
  <2>1. Between(ax, bx, x) /\ Between(ay, by, y)
    BY <1>1, <1>2, <1>7, <1>16 DEF OnSide, V
  <2>2. (m <= 0 /\ n >= 0) \/ (m >= 0 /\ n <= 0)
    BY <1>12, <2>1 DEF Between
  <2>3. (k <= 0 /\ l >= 0) \/ (k >= 0 /\ l <= 0)
    BY <1>13, <2>1 DEF Between
  <2>4. m * n <= 0
    BY <1>15, <2>2
  <2>5. k * l <= 0
    BY <1>15, <2>3
  <2>6. PICK g \in Int, h \in Int : g = m * n /\ h = k * l
    OBVIOUS
  <2> QED BY <2>4, <2>5, <2>6
<1> QED BY <1>11, <1>14, <1>16 DEF MovedLeft

(* Three products have one sign when none of them is of the other.             *)
LEMMA InsideIs ==
  ASSUME NEW p, NEW a, NEW b, NEW c, NEW k \in Int, NEW l \in Int, NEW m \in Int,
         k = cross(Minus(b, a), Minus(p, a)), l = cross(Minus(c, b), Minus(p, b)),
         m = cross(Minus(a, c), Minus(p, c))
  PROVE  Inside(p, a, b, c) <=> OneSign(k, l, m)
<1>1. Inside(p, a, b, c) <=> (\A n \in {k, l, m} : n >= 0) \/ (\A n \in {k, l, m} : n <= 0)
  BY DEF Inside
<1> QED BY <1>1 DEF OneSign

(* Going round the body edge by edge.                                          *)
LEMMA PolyIs ==
  ASSUME NEW q, NEW mat, NEW w,
         w = [i \in DOMAIN verticies |-> Turned(mat, verticies[i])]
  PROVE  IsPointInPoly(verticies, q, mat)
           <=> Odd(Crosses(q, w[4], w[1]), Crosses(q, w[1], w[2]), Crosses(q, w[2], w[3]), Crosses(q, w[3], w[4]))
<1>1. DOMAIN verticies = 1 .. 4 /\ Len(verticies) = 4
  BY DEF verticies
<1> DEFINE C(i) == Crosses(q, IF i = 1 THEN w[4] ELSE w[i - 1], w[i])
<1>2. PICK h : h = [i \in 0 .. 4 |->
                      IF i = 0 THEN FALSE ELSE IF i = 1 THEN C(1) ELSE IF i = 2 THEN C(1) # C(2)
                      ELSE IF i = 3 THEN (C(1) # C(2)) # C(3) ELSE ((C(1) # C(2)) # C(3)) # C(4)]
  OBVIOUS
<1>3. PICK c1 \in BOOLEAN : c1 = C(1)
  BY DEF Crosses
<1>4. PICK c2 \in BOOLEAN : c2 = C(2)
  BY DEF Crosses
<1>5. PICK c3 \in BOOLEAN : c3 = C(3)
  BY DEF Crosses
<1>6. PICK c4 \in BOOLEAN : c4 = C(4)
  BY DEF Crosses
<1> HIDE DEF C
<1>7. h = [i \in 0 .. 4 |->
            IF i = 0 THEN FALSE ELSE IF i = 1 THEN c1 ELSE IF i = 2 THEN c1 # c2
            ELSE IF i = 3 THEN (c1 # c2) # c3 ELSE ((c1 # c2) # c3) # c4]
  BY <1>2, <1>3, <1>4, <1>5, <1>6
<1>8. h = [i \in 0 .. 4 |-> IF i = 0 THEN FALSE ELSE h[i - 1] # C(i)]
  <2>1. h[0] = FALSE
    BY <1>7
  <2>2. h[1] = c1
    BY <1>7
  <2>3. h[2] = (c1 # c2)
    BY <1>7
  <2>4. h[3] = ((c1 # c2) # c3)
    BY <1>7
  <2>5. h[4] = (((c1 # c2) # c3) # c4)
    BY <1>7
  <2>6. ASSUME NEW i \in 0 .. 4 PROVE h[i] = IF i = 0 THEN FALSE ELSE h[i - 1] # C(i)
    <3>1. CASE i = 0
      BY <2>1, <3>1
    <3>2. CASE i = 1
      <4>1. i # 0 /\ i - 1 = 0
        BY <3>2
      <4>2. c1 = (FALSE # c1)
        OBVIOUS
      <4>3. h[i - 1] = FALSE
        BY <2>1, <4>1
      <4>4. h[i] = (h[i - 1] # C(i))
        BY <1>3, <2>2, <3>2, <4>2, <4>3
      <4> QED BY <4>1, <4>4
    <3>3. CASE i = 2
      <4>1. i # 0 /\ i - 1 = 1
        BY <3>3
      <4> QED BY <1>4, <2>2, <2>3, <3>3, <4>1
    <3>4. CASE i = 3
      <4>1. i # 0 /\ i - 1 = 2
        BY <3>4
      <4> QED BY <1>5, <2>3, <2>4, <3>4, <4>1
    <3>5. CASE i = 4
      <4>1. i # 0 /\ i - 1 = 3
        BY <3>5
      <4> QED BY <1>6, <2>4, <2>5, <3>5, <4>1
    <3>6. i = 0 \/ i = 1 \/ i = 2 \/ i = 3 \/ i = 4
      OBVIOUS
    <3> QED BY ONLY <3>1, <3>2, <3>3, <3>4, <3>5, <3>6
  <2>7. h = [i \in 0 .. 4 |-> h[i]]
    BY <1>7
  <2> QED BY <2>6, <2>7
<1>9. PICK g : g = CHOOSE e : e = [i \in 0 .. 4 |-> IF i = 0 THEN FALSE ELSE e[i - 1] # C(i)]
  OBVIOUS
<1>10. g = [i \in 0 .. 4 |-> IF i = 0 THEN FALSE ELSE g[i - 1] # C(i)]
  BY <1>8, <1>9
<1>11. g[0] = FALSE
  BY <1>10
<1>12. g[1] = (g[0] # C(1))
  <2>1. 1 \in 0 .. 4 /\ 1 # 0 /\ 1 - 1 = 0
    OBVIOUS
  <2>2. g[1] = IF 1 = 0 THEN FALSE ELSE g[1 - 1] # C(1)
    BY ONLY <1>10, <2>1
  <2> QED BY ONLY <2>1, <2>2
<1>13. g[2] = (g[1] # C(2))
  BY <1>10
<1>14. g[3] = (g[2] # C(3))
  BY <1>10
<1>15. g[4] = (g[3] # C(4))
  BY <1>10
<1>16. IsPointInPoly(verticies, q, mat) = g[4]
  BY <1>1, <1>9 DEF IsPointInPoly, C
<1>17. g[4] <=> Odd(c1, c2, c3, c4)
  BY <1>3, <1>4, <1>5, <1>6, <1>11, <1>12, <1>13, <1>14, <1>15 DEF Odd
<1>18. C(1) = Crosses(q, w[4], w[1]) /\ C(2) = Crosses(q, w[1], w[2]) /\ C(3) = Crosses(q, w[2], w[3])
       /\ C(4) = Crosses(q, w[3], w[4])
  BY DEF C
<1> QED BY <1>3, <1>4, <1>5, <1>6, <1>16, <1>17, <1>18

(* The square that is looked at first.                                         *)
LEMMA CoversIs ==
  ASSUME NEW q \in Vectors
  PROVE  Covers(coverage(verticies), q) <=> Near(q)
<1>1. PICK x \in Int, y \in Int : q.x = x /\ q.y = y
  BY DEF Vectors
<1>2. ASSUME NEW n \in Int PROVE Square(2 * n - 5 * 0) <= 25 * 200 <=> (-35 <= n /\ n <= 35)
  <2>1. Square(2 * n - 5 * 0) = 4 * (n * n)
    BY DEF Square
  <2>2. PICK s \in Int : s = n * n
    OBVIOUS
  <2>3. 4 * s <= 25 * 200 <=> s <= 1250
    OBVIOUS
  <2>4. CASE n > 35
    <3>1. n * n >= 36 * n
      BY <2>4
    <3> QED BY <2>1, <2>2, <2>3, <2>4, <3>1
  <2>5. CASE n < -35
    <3>1. n * n >= (-36) * n
      BY <2>5
    <3> QED BY <2>1, <2>2, <2>3, <2>5, <3>1
  <2>6. CASE 0 <= n /\ n <= 35
    <3>1. n * n <= 35 * n
      BY <2>6
    <3> QED BY <2>1, <2>2, <2>3, <2>6, <3>1
  <2>7. CASE -35 <= n /\ n <= 0
    <3>1. n * n <= (-35) * n
      BY <2>7
    <3> QED BY <2>1, <2>2, <2>3, <2>7, <3>1
  <2> QED BY <2>4, <2>5, <2>6, <2>7
<1>3. /\ coverage(verticies).centre2.x = 0 /\ coverage(verticies).centre2.y = 0
      /\ coverage(verticies).square.x = 200 /\ coverage(verticies).square.y = 200
  BY CoverageIs DEF V
<1>4. Covers(coverage(verticies), q) <=> Square(2 * x - 5 * 0) <= 25 * 200 /\ Square(2 * y - 5 * 0) <= 25 * 200
  BY <1>1, <1>3 DEF Covers
<1>5. Square(2 * x - 5 * 0) <= 25 * 200 <=> (-35 <= x /\ x <= 35)
  BY <1>2
<1>6. Square(2 * y - 5 * 0) <= 25 * 200 <=> (-35 <= y /\ y <= 35)
  BY <1>2
<1> QED BY <1>1, <1>4, <1>5, <1>6 DEF Near

(* The corners of a ship seen from where it is.                                *)
LEMMA ShipSeen ==
  ASSUME NEW t \in Turns, NEW w, w = [i \in DOMAIN verticies |-> Turned(SetRotationMatTo(t), verticies[i])],
         NEW q \in Vectors
  PROVE  Seen(w, q) /\ \A i \in 1 .. 4 : w[i] \in Vectors
<1>1. PICK x \in Int, y \in Int : q = V(x, y)
  BY DEF Vectors, V
<1>2. PICK c : c = t.c
  OBVIOUS
<1>3. PICK s : s = t.s
  OBVIOUS
<1>4. (c = 5 /\ s = 0) \/ (c = 0 /\ s = 5) \/ (c = 3 /\ s = 4) \/ (c = -4 /\ s = 3)
  BY <1>2, <1>3 DEF Turns
<1>5. t.c \in Int /\ t.s \in Int
  BY <1>2, <1>3, <1>4
<1>6. ASSUME NEW a \in Int, NEW b \in Int PROVE Turned(SetRotationMatTo(t), V(a, b)) = V(c * a - s * b, s * a + c * b)
  <2>1. V(a, b) \in Vectors /\ V(a, b).x = a /\ V(a, b).y = b
    BY DEF V, Vectors
  <2> QED BY <1>2, <1>3, <1>5, <2>1, TurnIs
<1>7. DOMAIN verticies = 1 .. 4 /\ verticies[1] = V(0, 5) /\ verticies[2] = V(5, -5)
      /\ verticies[3] = V(0, -2) /\ verticies[4] = V(-5, -5)
  BY DEF verticies
<1>8. w[1] = V(c * 0 - s * 5, s * 0 + c * 5)
  BY <1>6, <1>7
<1>9. w[2] = V(c * 5 - s * (-5), s * 5 + c * (-5))
  BY <1>6, <1>7
<1>10. w[3] = V(c * 0 - s * (-2), s * 0 + c * (-2))
  BY <1>6, <1>7
<1>11. w[4] = V(c * (-5) - s * (-5), s * (-5) + c * (-5))
  BY <1>6, <1>7
<1>12. CASE c = 5 /\ s = 0
  <2>1. w[1] = V(0, 25)
    BY <1>8, <1>12
  <2>2. w[2] = V(25, -25)
    BY <1>9, <1>12
  <2>3. w[3] = V(0, -10)
    BY <1>10, <1>12
  <2>4. w[4] = V(-25, -25)
    BY <1>11, <1>12
  <2>5. Seen(w, q)
    BY <1>1, <2>1, <2>2, <2>3, <2>4, SeenAhead
  <2>6. w[1] \in Vectors /\ w[2] \in Vectors /\ w[3] \in Vectors /\ w[4] \in Vectors
    BY <2>1, <2>2, <2>3, <2>4 DEF V, Vectors
  <2> QED BY <2>5, <2>6
<1>13. CASE c = 0 /\ s = 5
  <2>1. w[1] = V(-25, 0)
    BY <1>8, <1>13
  <2>2. w[2] = V(25, 25)
    BY <1>9, <1>13
  <2>3. w[3] = V(10, 0)
    BY <1>10, <1>13
  <2>4. w[4] = V(25, -25)
    BY <1>11, <1>13
  <2>5. Seen(w, q)
    BY <1>1, <2>1, <2>2, <2>3, <2>4, SeenAcross
  <2>6. w[1] \in Vectors /\ w[2] \in Vectors /\ w[3] \in Vectors /\ w[4] \in Vectors
    BY <2>1, <2>2, <2>3, <2>4 DEF V, Vectors
  <2> QED BY <2>5, <2>6
<1>14. CASE c = 3 /\ s = 4
  <2>1. w[1] = V(-20, 15)
    BY <1>8, <1>14
  <2>2. w[2] = V(35, 5)
    BY <1>9, <1>14
  <2>3. w[3] = V(8, -6)
    BY <1>10, <1>14
  <2>4. w[4] = V(5, -35)
    BY <1>11, <1>14
  <2>5. Seen(w, q)
    BY <1>1, <2>1, <2>2, <2>3, <2>4, SeenSteep
  <2>6. w[1] \in Vectors /\ w[2] \in Vectors /\ w[3] \in Vectors /\ w[4] \in Vectors
    BY <2>1, <2>2, <2>3, <2>4 DEF V, Vectors
  <2> QED BY <2>5, <2>6
<1>15. CASE c = -4 /\ s = 3
  <2>1. w[1] = V(-15, -20)
    BY <1>8, <1>15
  <2>2. w[2] = V(-5, 35)
    BY <1>9, <1>15
  <2>3. w[3] = V(6, 8)
    BY <1>10, <1>15
  <2>4. w[4] = V(35, 5)
    BY <1>11, <1>15
  <2>5. Seen(w, q)
    BY <1>1, <2>1, <2>2, <2>3, <2>4, SeenFlat
  <2>6. w[1] \in Vectors /\ w[2] \in Vectors /\ w[3] \in Vectors /\ w[4] \in Vectors
    BY <2>1, <2>2, <2>3, <2>4 DEF V, Vectors
  <2> QED BY <2>5, <2>6
<1> QED BY <1>4, <1>12, <1>13, <1>14, <1>15

(* A point off the edges hits an object when its two triangles have the point. *)
LEMMA HitAgrees ==
  ASSUME NEW o, o.position \in Vectors, o.rotation \in Turns, NEW p \in Vectors, ~OnEdge(o, Fifths(p))
  PROVE  Hit(o, p) <=> InShip(o, Fifths(p))
<1>1. PICK s \in Vectors : s = Fifths(o.position)
  <2>1. PICK c \in Int, d \in Int : o.position.x = c /\ o.position.y = d
    BY DEF Vectors
  <2>2. Fifths(o.position) = V(5 * c, 5 * d)
    BY <2>1 DEF Fifths
  <2> QED BY <2>2 DEF V, Vectors
<1>2. PICK P \in Vectors : P = Fifths(p)
  BY DEF Fifths, V, Vectors
<1>3. PICK q \in Vectors : q = Minus(P, s)
  <2>1. PICK a \in Int, b \in Int : P.x = a /\ P.y = b
    BY DEF Vectors
  <2>2. PICK c \in Int, d \in Int : s.x = c /\ s.y = d
    BY DEF Vectors
  <2>3. Minus(P, s) = V(a - c, b - d)
    BY <2>1, <2>2 DEF Minus
  <2> QED BY <2>3 DEF V, Vectors
<1>4. Fifths(Minus(p, o.position)) = q
  <2>1. PICK a \in Int, b \in Int : p = V(a, b)
    BY DEF V, Vectors
  <2>2. PICK c \in Int, d \in Int : o.position = V(c, d)
    BY DEF V, Vectors
  <2>3. 5 * (a - c) = 5 * a - 5 * c /\ 5 * (b - d) = 5 * b - 5 * d
    OBVIOUS
  <2> QED BY <1>1, <1>2, <1>3, <2>1, <2>2, <2>3 DEF Fifths, Minus, V
<1>5. PICK w : w = [i \in DOMAIN verticies |-> Turned(SetRotationMatTo(o.rotation), verticies[i])]
  OBVIOUS
<1>6. Seen(w, q) /\ \A i \in 1 .. 4 : w[i] \in Vectors
  BY <1>5, ShipSeen
<1>7. w[1] \in Vectors /\ w[2] \in Vectors /\ w[3] \in Vectors /\ w[4] \in Vectors
  BY <1>6
<1>8. \A i \in 1 .. 4 : Corner(o, i) = Plus(s, w[i])
  <2>1. DOMAIN verticies = 1 .. 4
    BY DEF verticies
  <2> QED BY <1>1, <1>5, <2>1 DEF Corner
<1>9. /\ Corner(o, 1) = Plus(s, w[1]) /\ Corner(o, 2) = Plus(s, w[2])
      /\ Corner(o, 3) = Plus(s, w[3]) /\ Corner(o, 4) = Plus(s, w[4])
  BY <1>8
<1>10. MovedLeft(w[1], w[2], s, P) /\ MovedLeft(w[2], w[3], s, P)
  BY <1>7, LeftMoves
<1>11. MovedLeft(w[3], w[4], s, P) /\ MovedLeft(w[4], w[1], s, P)
  BY <1>7, LeftMoves
<1>12. MovedLeft(w[3], w[1], s, P) /\ MovedLeft(w[1], w[3], s, P)
  BY <1>7, LeftMoves
<1>13. OffEdges(w, q)
  <2>1. ASSUME NEW i \in 1 .. 4, NEW j, j = (i % 4) + 1, MovedLeft(w[i], w[j], s, P), j \in 1 .. 4 PROVE ~OnSide(w[i], w[j], q)
    <3>1. SUFFICES ASSUME OnSide(w[i], w[j], q) PROVE FALSE
      OBVIOUS
    <3>2. cross(Minus(Plus(s, w[j]), Plus(s, w[i])), Minus(P, Plus(s, w[i]))) = 0
      BY <1>3, <2>1, <3>1 DEF MovedLeft, OnSide
    <3>3. dot(Minus(Plus(s, w[i]), P), Minus(Plus(s, w[j]), P)) <= 0
      BY <1>3, <2>1, <3>1 DEF MovedLeft
    <3> QED BY <1>2, <1>8, <2>1, <3>2, <3>3 DEF OnEdge
  <2>2. 2 = (1 % 4) + 1 /\ 3 = (2 % 4) + 1 /\ 4 = (3 % 4) + 1 /\ 1 = (4 % 4) + 1
    OBVIOUS
  <2>3. ~OnSide(w[1], w[2], q)
    BY <1>10, <2>1, <2>2
  <2>4. ~OnSide(w[2], w[3], q)
    BY <1>10, <2>1, <2>2
  <2>5. ~OnSide(w[3], w[4], q)
    BY <1>11, <2>1, <2>2
  <2>6. ~OnSide(w[4], w[1], q)
    BY <1>11, <2>1, <2>2
  <2> QED BY <2>3, <2>4, <2>5, <2>6 DEF OffEdges
<1>14. ASSUME NEW a \in Vectors, NEW b \in Vectors PROVE Left(a, b, q) \in Int
  BY <1>14 DEF Left, cross, Minus, V, Vectors
<1>15. ASSUME NEW a \in Vectors, NEW b \in Vectors, NEW c \in Vectors,
              MovedLeft(a, b, s, P), MovedLeft(b, c, s, P), MovedLeft(c, a, s, P)
       PROVE  Inside(P, Plus(s, a), Plus(s, b), Plus(s, c))
                <=> OneSign(Left(a, b, q), Left(b, c, q), Left(c, a, q))
  <2>1. PICK k \in Int : k = Left(a, b, q)
    BY <1>14
  <2>2. PICK l \in Int : l = Left(b, c, q)
    BY <1>14
  <2>3. PICK m \in Int : m = Left(c, a, q)
    BY <1>14
  <2>4. k = cross(Minus(Plus(s, b), Plus(s, a)), Minus(P, Plus(s, a)))
    BY <1>3, <1>15, <2>1 DEF MovedLeft
  <2>5. l = cross(Minus(Plus(s, c), Plus(s, b)), Minus(P, Plus(s, b)))
    BY <1>3, <1>15, <2>2 DEF MovedLeft
  <2>6. m = cross(Minus(Plus(s, a), Plus(s, c)), Minus(P, Plus(s, c)))
    BY <1>3, <1>15, <2>3 DEF MovedLeft
  <2>7. Inside(P, Plus(s, a), Plus(s, b), Plus(s, c)) <=> OneSign(k, l, m)
    BY <2>4, <2>5, <2>6, InsideIs
  <2> QED BY <2>1, <2>2, <2>3, <2>7
<1>16. Inside(P, Plus(s, w[1]), Plus(s, w[2]), Plus(s, w[3]))
         <=> OneSign(Left(w[1], w[2], q), Left(w[2], w[3], q), Left(w[3], w[1], q))
  BY <1>7, <1>10, <1>12, <1>15
<1>17. Inside(P, Plus(s, w[1]), Plus(s, w[3]), Plus(s, w[4]))
         <=> OneSign(Left(w[1], w[3], q), Left(w[3], w[4], q), Left(w[4], w[1], q))
  BY <1>7, <1>11, <1>12, <1>15
<1>18. InShip(o, P) <=> InTriangles(w, q)
  BY <1>9, <1>16, <1>17 DEF InShip, InTriangles
<1>19. Hit(o, p) <=> Covers(coverage(verticies), q) /\ IsPointInPoly(verticies, q, SetRotationMatTo(o.rotation))
  BY <1>4 DEF Hit
<1>20. Covers(coverage(verticies), q) <=> Near(q)
  BY CoversIs
<1>21. IsPointInPoly(verticies, q, SetRotationMatTo(o.rotation))
         <=> Odd(Crosses(q, w[4], w[1]), Crosses(q, w[1], w[2]), Crosses(q, w[2], w[3]), Crosses(q, w[3], w[4]))
  BY <1>5, PolyIs
<1>22. InTriangles(w, q)
         <=> (Near(q) /\ Odd(Crosses(q, w[4], w[1]), Crosses(q, w[1], w[2]), Crosses(q, w[2], w[3]), Crosses(q, w[3], w[4])))
  BY <1>6, <1>13 DEF Seen
<1> QED BY <1>2, <1>18, <1>19, <1>20, <1>21, <1>22

(* What is hit first.                                                          *)
LEMMA ClickAgrees ==
  ASSUME NEW g, NEW n \in Nat, DOMAIN g = 1 .. n, NEW p \in Vectors,
         \A i \in DOMAIN g : g[i].position \in Vectors /\ g[i].rotation \in Turns,
         \A i \in DOMAIN g : ~OnEdge(g[i], Fifths(p)),
         NEW ships, ships = {i \in DOMAIN g : InShip(g[i], Fifths(p))}
  PROVE  ObjectAt(g, p) = IF ships = {} THEN 0 ELSE Least(ships)
<1>1. \A i \in DOMAIN g : Hit(g[i], p) <=> InShip(g[i], Fifths(p))
  BY HitAgrees
<1>2. {i \in DOMAIN g : Hit(g[i], p)} = ships
  BY <1>1
<1> QED BY <1>2 DEF ObjectAt

(* What can be asked of the geometry.                                          *)
AskedRects(s) == \E a, o \in Rectangles, off \in Vectors : s = [of |-> "rects", a |-> a, o |-> o, off |-> off]
AskedLines(s) == \E a, b, c, d \in Vectors : s = [of |-> "lines", a |-> a, b |-> b, c |-> c, d |-> d]
AskedMatrix(s) == \E a, b, c, d, e, f \in Int : \E m : /\ s = [of |-> "matrix", m |-> m]
                                                       /\ Has(m, <<a, b, c>>, <<d, e, f>>, <<0, 0, 1>>)
ShipsTurned == [position : Vectors, rotation : Turns]
AskedClick(s) == \E at \in Vectors, o, q \in ShipsTurned : s = [of |-> "click", at |-> at, grid |-> <<o, q>>]
GeometryIInv == \/ sample = [of |-> "nothing"] \/ AskedRects(sample) \/ AskedLines(sample)
                \/ AskedMatrix(sample) \/ AskedClick(sample)

(* The points and the rectangles that are asked for have whole coordinates.    *)
LEMMA RectsTyped == Points \subseteq Vectors /\ Rects \subseteq Rectangles
<1>1. ASSUME NEW a, NEW b, a \in Int, b \in Int PROVE V(a, b) \in Vectors
  BY <1>1 DEF V, Vectors
<1>2. Points \subseteq Vectors
  <2>1. Coords \subseteq Int
    BY GeometryAssumption
  <2> QED BY <1>1, <2>1 DEF Points
<1>3. Rects \subseteq Rectangles
  <2>1. Sizes \subseteq Nat
    BY GeometryAssumption
  <2>2. {V(a, b) : a, b \in Sizes} \subseteq [x : Nat, y : Nat]
    BY <2>1 DEF V
  <2>3. ASSUME NEW r \in Rects PROVE r \in Rectangles
    <3>1. PICK p \in Points, z \in {V(a, b) : a, b \in Sizes} : r = Rect(p, z)
      BY DEF Rects
    <3>2. p \in Vectors /\ z \in [x : Nat, y : Nat]
      BY <1>2, <2>2
    <3> QED BY <3>1, <3>2 DEF Rect, Rectangles
  <2> QED BY <2>3
<1> QED BY <1>2, <1>3

(* Every sample is one of these questions.                                     *)
LEMMA SamplesAsked == SpecGeometry => []GeometryIInv
<1>1. InitGeometry => GeometryIInv
  BY DEF InitGeometry, GeometryIInv
<1>3. Points \subseteq Vectors /\ Rects \subseteq Rectangles
  BY RectsTyped
<1>5. Spots \subseteq Vectors
  BY GeometryAssumption DEF Vectors
<1>6. TakeRects => AskedRects(sample')
  BY <1>3, <1>5 DEF TakeRects, AskedRects
<1>7. TakeLines => AskedLines(sample')
  BY <1>3 DEF TakeLines, AskedLines
<1>8. TakeMatrix => AskedMatrix(sample')
  <2> SUFFICES ASSUME TakeMatrix PROVE AskedMatrix(sample')
    OBVIOUS
  <2>1. PICK a, b, c, d, e, f \in Entries :
          sample' = [of |-> "matrix",
                     m |-> [y \in 0 .. 2 |-> [x \in 0 .. 2 |->
                              <<<<a, b, c>>, <<d, e, f>>, <<0, 0, 1>>>>[y + 1][x + 1]]]]
    BY DEF TakeMatrix
  <2>2. PICK m : m = [y \in 0 .. 2 |-> [x \in 0 .. 2 |-> <<<<a, b, c>>, <<d, e, f>>, <<0, 0, 1>>>>[y + 1][x + 1]]]
    OBVIOUS
  <2>3. Has(m, <<a, b, c>>, <<d, e, f>>, <<0, 0, 1>>)
    <3>1. PICK w : w = <<<<a, b, c>>, <<d, e, f>>, <<0, 0, 1>>>>
      OBVIOUS
    <3>2. w[1] = <<a, b, c>> /\ w[2] = <<d, e, f>> /\ w[3] = <<0, 0, 1>>
      BY <3>1
    <3>3. \A x, y \in 0 .. 2 : PT(m, x, y) = w[y + 1][x + 1]
      BY <2>2, <3>1 DEF PT
    <3>4. PT(m, 0, 0) = w[1][1] /\ PT(m, 1, 0) = w[1][2] /\ PT(m, 2, 0) = w[1][3]
      BY <3>3
    <3>5. PT(m, 0, 1) = w[2][1] /\ PT(m, 1, 1) = w[2][2] /\ PT(m, 2, 1) = w[2][3]
      BY <3>3
    <3>6. PT(m, 0, 2) = w[3][1] /\ PT(m, 1, 2) = w[3][2] /\ PT(m, 2, 2) = w[3][3]
      BY <3>3
    <3> QED BY <3>2, <3>4, <3>5, <3>6 DEF Has
  <2>4. a \in Int /\ b \in Int /\ c \in Int /\ d \in Int /\ e \in Int /\ f \in Int
    BY GeometryAssumption
  <2>5. sample' = [of |-> "matrix", m |-> m]
    BY <2>1, <2>2
  <2> QED BY <2>3, <2>4, <2>5 DEF AskedMatrix
<1>9. TakeClick => AskedClick(sample')
  <2> SUFFICES ASSUME TakeClick PROVE AskedClick(sample')
    OBVIOUS
  <2>1. PICK s \in Spots, t \in Turns, u \in Turns, x \in Clicks, y \in Clicks :
          sample' = [of |-> "click", at |-> V(x, y),
                     grid |-> <<[position |-> V(0, 0), rotation |-> t], [position |-> s, rotation |-> u]>>]
    BY DEF TakeClick
  <2>2. x \in Int /\ y \in Int /\ s \in Vectors
    BY <1>5, GeometryAssumption
  <2>3. V(x, y) \in Vectors /\ V(0, 0) \in Vectors
    BY <2>2 DEF V, Vectors
  <2>4. [position |-> V(0, 0), rotation |-> t] \in ShipsTurned /\ [position |-> s, rotation |-> u] \in ShipsTurned
    BY <2>2, <2>3 DEF ShipsTurned
  <2> QED BY <2>1, <2>3, <2>4 DEF AskedClick
<1>10. GeometryIInv /\ [NextGeometry]_geometryVars => GeometryIInv'
  <2> SUFFICES ASSUME GeometryIInv, [NextGeometry]_geometryVars PROVE GeometryIInv'
    OBVIOUS
  <2>1. CASE NextGeometry
    BY <1>6, <1>7, <1>8, <1>9, <2>1 DEF NextGeometry, GeometryIInv
  <2>2. CASE UNCHANGED geometryVars
    BY <2>2 DEF geometryVars, GeometryIInv
  <2> QED BY <2>1, <2>2
<1> QED BY <1>1, <1>10, PTL DEF SpecGeometry

(* The least place of some is one of them.                                     *)
LEMMA LeastPlace ==
  ASSUME NEW n \in Nat, NEW T \in SUBSET (1 .. n), T # {}
  PROVE  Least(T) \in T
<1>1. T \in SUBSET Nat
  OBVIOUS
<1>2. \E i \in T : \A m \in T : i <= m
  BY <1>1, LeastNumber
<1> QED BY <1>2 DEF Least

(* Whatever is asked, the answer is that of the reference definition.          *)
LEMMA RectsAnswered == AskedRects(sample) => GeometryAgrees
<1> SUFFICES ASSUME AskedRects(sample) PROVE GeometryAgrees
  OBVIOUS
<1>1. PICK a \in Rectangles, o \in Rectangles, off \in Vectors : sample = [of |-> "rects", a |-> a, o |-> o, off |-> off]
  BY DEF AskedRects
<1>2. sample.of = "rects" /\ sample.a = a /\ sample.o = o /\ sample.off = off
  BY <1>1
<1>3. GeometryTypeOK
  BY <1>2 DEF GeometryTypeOK
<1>4. OverlapIsArea
  BY <1>2, OverlapsAgree DEF OverlapIsArea
<1>6. LinesMeet /\ RectangleSpans /\ TurnsKeepShape /\ InverseUndoes /\ ClickFinds
  BY <1>2 DEF LinesMeet, RectangleSpans, TurnsKeepShape, InverseUndoes, ClickFinds
<1> QED BY <1>3, <1>4, <1>6 DEF GeometryAgrees

(* Two lines: the library and the reference agree.                             *)
LEMMA LinesAnswered == AskedLines(sample) => GeometryAgrees
<1> SUFFICES ASSUME AskedLines(sample) PROVE GeometryAgrees
  OBVIOUS
<1>1. PICK a \in Vectors, b \in Vectors, c \in Vectors, d \in Vectors :
        sample = [of |-> "lines", a |-> a, b |-> b, c |-> c, d |-> d]
  BY DEF AskedLines
<1>2. sample.of = "lines" /\ sample.a = a /\ sample.b = b /\ sample.c = c /\ sample.d = d
  BY <1>1
<1>3. GeometryTypeOK
  BY <1>2 DEF GeometryTypeOK
<1>4. LinesMeet
  BY <1>2, LinesAgree DEF LinesMeet
<1>6. RectangleSpans
  <2>1. Rects \subseteq Rectangles
    BY RectsTyped
  <2> QED BY <1>2, <2>1, RectangleAgrees DEF RectangleSpans
<1>7. TurnsKeepShape
  BY <1>2, TurnsAgree DEF TurnsKeepShape
<1>8. OverlapIsArea /\ InverseUndoes /\ ClickFinds
  BY <1>2 DEF OverlapIsArea, InverseUndoes, ClickFinds
<1> QED BY <1>3, <1>4, <1>6, <1>7, <1>8 DEF GeometryAgrees

(* A matrix: the library and the reference agree.                              *)
LEMMA MatrixAnswered == AskedMatrix(sample) => GeometryAgrees
<1> SUFFICES ASSUME AskedMatrix(sample) PROVE GeometryAgrees
  OBVIOUS
<1>0. PICK a \in Int, b \in Int, c \in Int, d \in Int, e \in Int, f \in Int :
        \E m : sample = [of |-> "matrix", m |-> m] /\ Has(m, <<a, b, c>>, <<d, e, f>>, <<0, 0, 1>>)
  BY DEF AskedMatrix
<1>1. PICK m : sample = [of |-> "matrix", m |-> m] /\ Has(m, <<a, b, c>>, <<d, e, f>>, <<0, 0, 1>>)
  BY <1>0
<1>2. sample.of = "matrix" /\ sample.m = m
  BY <1>1
<1>3. getDeterminant_3D(m) \in Int
  <2>1. Reflected(Cofactors(m), m, a, b, c, d, e, f)
    BY <1>1, CofactorsAre
  <2> QED BY <2>1 DEF Reflected
<1>4. GeometryTypeOK
  BY <1>2, <1>3 DEF GeometryTypeOK
<1>5. InverseUndoes
  <2>1. CASE getDeterminant_3D(m) = 0
    BY <1>2, <2>1 DEF InverseUndoes, Divisor
  <2>2. CASE getDeterminant_3D(m) # 0
    <3>1. Undone(m)
      BY <1>1, <2>2, InverseAgrees
    <3>2. Points \subseteq Vectors
      BY RectsTyped
    <3>3. \A p \in Points : applyTo(Cofactors(m), applyTo(m, p)) = V(Divisor(m) * p.x, Divisor(m) * p.y)
      BY <3>1, <3>2 DEF Undone
    <3>4. PICK s : s = sample.m
      OBVIOUS
    <3>5. s = m
      BY <1>2, <3>4
    <3> QED BY <1>2, <2>2, <3>1, <3>3, <3>4, <3>5 DEF InverseUndoes, Undone, Matrix
  <2> QED BY <2>1, <2>2
<1>6. OverlapIsArea /\ LinesMeet /\ RectangleSpans /\ TurnsKeepShape /\ ClickFinds
  BY <1>2 DEF OverlapIsArea, LinesMeet, RectangleSpans, TurnsKeepShape, ClickFinds
<1> QED BY <1>4, <1>5, <1>6 DEF GeometryAgrees

(* A click on a ship: the library and the reference agree.                     *)
LEMMA ClickAnswered == AskedClick(sample) => GeometryAgrees
<1> SUFFICES ASSUME AskedClick(sample) PROVE GeometryAgrees
  OBVIOUS
<1>1. PICK at \in Vectors, o \in ShipsTurned, q \in ShipsTurned : sample = [of |-> "click", at |-> at, grid |-> <<o, q>>]
  BY DEF AskedClick
<1>2. PICK g : g = <<o, q>>
  OBVIOUS
<1>3. sample.of = "click" /\ sample.at = at /\ sample.grid = g
  BY <1>1, <1>2
<1>4. DOMAIN g = 1 .. 2 /\ Len(g) = 2 /\ \A i \in DOMAIN g : g[i].position \in Vectors /\ g[i].rotation \in Turns
  <2>1. g[1] = o /\ g[2] = q /\ DOMAIN g = 1 .. 2 /\ Len(g) = 2
    BY <1>2
  <2>2. \A i \in 1 .. 2 : i = 1 \/ i = 2
    OBVIOUS
  <2> QED BY <2>1, <2>2 DEF ShipsTurned
<1>5. ObjectAt(g, at) \in 0 .. 2
  <2>1. PICK hits : hits = {i \in DOMAIN g : Hit(g[i], at)}
    OBVIOUS
  <2>2. hits \in SUBSET (1 .. 2)
    BY <1>4, <2>1
  <2>3. hits # {} => Least(hits) \in 1 .. 2
    BY <2>2, LeastPlace
  <2> QED BY <2>1, <2>3 DEF ObjectAt
<1>6. GeometryTypeOK
  BY <1>3, <1>4, <1>5 DEF GeometryTypeOK
<1>7. ClickFinds
  <2>1. ASSUME \A i \in DOMAIN g : ~OnEdge(g[i], Fifths(at)),
               NEW ships, ships = {i \in DOMAIN g : InShip(g[i], Fifths(at))}
        PROVE  ObjectAt(g, at) = IF ships = {} THEN 0 ELSE Least(ships)
    BY <1>4, <2>1, ClickAgrees
  <2> QED BY <1>3, <2>1 DEF ClickFinds
<1>8. OverlapIsArea /\ LinesMeet /\ RectangleSpans /\ TurnsKeepShape /\ InverseUndoes
  BY <1>3 DEF OverlapIsArea, LinesMeet, RectangleSpans, TurnsKeepShape, InverseUndoes
<1> QED BY <1>6, <1>7, <1>8 DEF GeometryAgrees

(* What the geometry answers is right.                                         *)
THEOREM GeometryIsRight == SpecGeometry => []GeometryAgrees
<1>1. sample = [of |-> "nothing"] => GeometryAgrees
  <2> SUFFICES ASSUME sample = [of |-> "nothing"] PROVE GeometryAgrees
    OBVIOUS
  <2>1. sample.of = "nothing"
    OBVIOUS
  <2> QED BY <2>1 DEF GeometryAgrees, GeometryTypeOK, OverlapIsArea, LinesMeet, RectangleSpans,
               TurnsKeepShape, InverseUndoes, ClickFinds
<1>2. GeometryIInv => GeometryAgrees
  BY <1>1, RectsAnswered, LinesAnswered, MatrixAnswered, ClickAnswered DEF GeometryIInv
<1> QED BY <1>2, SamplesAsked, PTL

-----------------------------------------------------------------------------
(* The curves.                                                                 *)

(* The greatest common divisor up to a second argument of n.                   *)
Halves(h, n) ==
  /\ h \in [0 .. n -> [Nat -> Nat]]
  /\ \A b \in 0 .. n : h[b] = [a \in Nat |-> IF b = 0 THEN a ELSE h[a % b][b]]

(* Two functions that follow the algorithm of Euclid agree where both are      *)
(* defined.                                                                    *)
LEMMA HalvesOnce ==
  ASSUME NEW n \in Nat, NEW m \in Nat, NEW h, Halves(h, n), NEW k, Halves(k, m),
         NEW b \in Nat, b <= n, b <= m
  PROVE  h[b] = k[b]
<1> DEFINE Bad == {c \in 0 .. n : c <= m /\ h[c] # k[c]}
<1> SUFFICES ASSUME Bad # {} PROVE FALSE
  OBVIOUS
<1>1. Bad \in SUBSET Nat
  OBVIOUS
<1>2. PICK c \in Bad : \A d \in Bad : c <= d
  <2> HIDE DEF Bad
  <2> QED BY <1>1, LeastNumber
<1>3. c \in 0 .. n /\ c \in 0 .. m /\ c \in Nat
  BY <1>2
<1>4. ASSUME NEW a \in Nat, c # 0 PROVE h[a % c] = k[a % c]
  <2>1. a % c \in Nat /\ a % c < c
    BY <1>3, <1>4
  <2> QED BY <1>2, <1>3, <2>1
<1>5. h[c] = [a \in Nat |-> IF c = 0 THEN a ELSE h[a % c][c]]
  BY <1>3 DEF Halves
<1>6. k[c] = [a \in Nat |-> IF c = 0 THEN a ELSE k[a % c][c]]
  BY <1>3 DEF Halves
<1>7. \A a \in Nat : (IF c = 0 THEN a ELSE h[a % c][c]) = (IF c = 0 THEN a ELSE k[a % c][c])
  BY <1>4
<1>8. h[c] = k[c]
  BY <1>5, <1>6, <1>7
<1> QED BY <1>2, <1>8

(* There is a function that follows the algorithm of Euclid up to any number.  *)
LEMMA HalvesExist ==
  ASSUME NEW n \in Nat
  PROVE  \E h : Halves(h, n)
<1> DEFINE T == {m \in 0 .. n : \E h : Halves(h, m)}
<1>1. 0 \in T
  <2>1. PICK h : h = [b \in 0 .. 0 |-> [a \in Nat |-> a]]
    OBVIOUS
  <2>2. \A b \in 0 .. 0 : b = 0
    OBVIOUS
  <2>3. Halves(h, 0)
    BY <2>1, <2>2 DEF Halves
  <2> QED BY <2>3
<1>2. ASSUME NEW m \in 1 .. n, m - 1 \in T PROVE m \in T
  <2>1. PICK h : Halves(h, m - 1)
    BY <1>2
  <2>2. PICK g : g = [b \in 0 .. m |-> IF b = m THEN [a \in Nat |-> h[a % m][m]] ELSE h[b]]
    OBVIOUS
  <2>3. \A a \in Nat : a % m \in 0 .. m - 1
    OBVIOUS
  <2>4. \A b \in 0 .. m - 1 : g[b] = h[b] /\ h[b] \in [Nat -> Nat]
    BY <2>1, <2>2 DEF Halves
  <2>5. g[m] = [a \in Nat |-> h[a % m][m]]
    <3>1. m \in 0 .. m
      OBVIOUS
    <3> QED BY ONLY <2>2, <3>1
  <2>6. g[m] \in [Nat -> Nat]
    <3>1. ASSUME NEW a \in Nat PROVE h[a % m][m] \in Nat
      <4>1. PICK c \in 0 .. m - 1 : c = a % m
        BY <2>3
      <4>2. h[c] \in [Nat -> Nat] /\ m \in Nat
        BY <2>4
      <4>3. h[c][m] \in Nat
        BY ONLY <4>2
      <4> QED BY <4>1, <4>3
    <3> QED BY <2>5, <3>1
  <2>7. g \in [0 .. m -> [Nat -> Nat]]
    <3>1. \A b \in 0 .. m : b = m \/ b \in 0 .. m - 1
      OBVIOUS
    <3>2. \A b \in 0 .. m : g[b] \in [Nat -> Nat]
      BY <2>4, <2>6, <3>1
    <3> QED BY <2>2, <3>2
  <2>8. ASSUME NEW b \in 0 .. m PROVE g[b] = [a \in Nat |-> IF b = 0 THEN a ELSE g[a % b][b]]
    <3>1. CASE b = m
      <4>1. \A a \in Nat : g[a % m] = h[a % m]
        BY <2>3, <2>4
      <4>2. [a \in Nat |-> IF m = 0 THEN a ELSE g[a % m][m]] = [a \in Nat |-> h[a % m][m]]
        BY <4>1
      <4> QED BY <2>5, <3>1, <4>2
    <3>2. CASE b # m
      <4>1. b \in 0 .. m - 1
        BY <3>2
      <4>2. h[b] = [a \in Nat |-> IF b = 0 THEN a ELSE h[a % b][b]]
        BY <2>1, <4>1 DEF Halves
      <4>3. ASSUME NEW a \in Nat, b # 0 PROVE g[a % b] = h[a % b]
        <5>1. a % b \in 0 .. m - 1
          BY <4>1, <4>3
        <5> QED BY <2>4, <5>1
      <4>4. \A a \in Nat : (IF b = 0 THEN a ELSE g[a % b][b]) = (IF b = 0 THEN a ELSE h[a % b][b])
        BY <4>3
      <4> QED BY <2>4, <4>1, <4>2, <4>4
    <3> QED BY <3>1, <3>2
  <2>9. Halves(g, m)
    BY <2>7, <2>8 DEF Halves
  <2> QED BY <2>9
<1>3. \A m \in 0 .. n : m \in T
  <2> HIDE DEF T
  <2> QED BY <1>1, <1>2, Throughout
<1> QED BY <1>3

(* The recursive function gcd therefore exists, and follows the algorithm.     *)
LEMMA GcdIs == gcd = [b \in Nat |-> [a \in Nat |-> IF b = 0 THEN a ELSE gcd[a % b][b]]]
<1> DEFINE H(b) == CHOOSE h : Halves(h, b)
<1>1. \A b \in Nat : Halves(H(b), b)
  BY HalvesExist
<1>2. PICK g : g = [b \in Nat |-> H(b)[b]]
  OBVIOUS
<1> HIDE DEF H
<1>3. ASSUME NEW b \in Nat PROVE g[b] = [a \in Nat |-> IF b = 0 THEN a ELSE g[a % b][b]]
  <2>1. PICK h : h = H(b)
    OBVIOUS
  <2>2. Halves(h, b)
    BY <1>1, <2>1
  <2>3. b \in 0 .. b
    OBVIOUS
  <2>4. h[b] = [a \in Nat |-> IF b = 0 THEN a ELSE h[a % b][b]]
    BY <2>2, <2>3 DEF Halves
  <2>5. ASSUME NEW c \in Nat, c <= b PROVE g[c] = h[c]
    <3>1. Halves(H(c), c)
      BY <1>1
    <3>2. H(c)[c] = h[c]
      BY <2>2, <2>5, <3>1, HalvesOnce
    <3> QED BY <1>2, <3>2
  <2>6. ASSUME NEW a \in Nat, b # 0 PROVE g[a % b] = h[a % b]
    <3>1. a % b \in Nat /\ a % b <= b
      BY <2>6
    <3> QED BY <2>5, <3>1
  <2>7. \A a \in Nat : (IF b = 0 THEN a ELSE g[a % b][b]) = (IF b = 0 THEN a ELSE h[a % b][b])
    BY <2>6
  <2>8. g[b] = h[b]
    BY <2>5
  <2> QED BY <2>4, <2>7, <2>8
<1>4. g = [b \in Nat |-> [a \in Nat |-> IF b = 0 THEN a ELSE g[a % b][b]]]
  BY <1>2, <1>3
<1> QED BY <1>4 DEF gcd

(* It divides both.                                                            *)
CommonDivisor(g, a, b) ==
  /\ g \in Nat /\ (a # 0 \/ b # 0 => g > 0)
  /\ \E u, v \in Nat : a = g * u /\ b = g * v

(* What the algorithm of Euclid finds divides both numbers.                    *)
LEMMA GcdDivides ==
  ASSUME NEW a \in Nat, NEW b \in Nat
  PROVE  CommonDivisor(gcd[b][a], a, b)
<1> DEFINE Bad == {c \in Nat : \E e \in Nat : ~CommonDivisor(gcd[c][e], e, c)}
<1> SUFFICES ASSUME Bad # {} PROVE FALSE
  OBVIOUS
<1>1. PICK c \in Bad : \A d \in Bad : c <= d
  <2>1. Bad \in SUBSET Nat
    OBVIOUS
  <2> HIDE DEF Bad
  <2> QED BY <2>1, LeastNumber
<1>2. PICK e \in Nat : ~CommonDivisor(gcd[c][e], e, c)
  OBVIOUS
<1>3. c \in Nat
  OBVIOUS
<1>4. gcd[c] = [n \in Nat |-> IF c = 0 THEN n ELSE gcd[n % c][c]]
  BY <1>3, GcdIs
<1>5. gcd[c][e] = IF c = 0 THEN e ELSE gcd[e % c][c]
  BY <1>4
<1>6. CASE c = 0
  <2>1. gcd[c][e] = e
    BY <1>5, <1>6
  <2>2. 1 \in Nat /\ 0 \in Nat /\ e = e * 1 /\ c = e * 0
    BY <1>6
  <2>3. CommonDivisor(e, e, c)
    BY <1>6, <2>2 DEF CommonDivisor
  <2> QED BY <1>2, <2>1, <2>3
<1>7. CASE c # 0
  <2>1. PICK m \in Nat : m = e % c
    BY <1>3, <1>7
  <2>2. m < c
    BY <1>3, <1>7, <2>1
  <2>3. PICK k \in Nat : e = c * k + m
    <3>1. e \div c \in Nat /\ e = c * (e \div c) + m
      BY <1>3, <1>7, <2>1
    <3> QED BY <3>1
  <2>4. CommonDivisor(gcd[m][c], c, m)
    BY <1>1, <1>3, <2>2
  <2>5. PICK g \in Nat : g = gcd[m][c] /\ g > 0
    BY <1>7, <2>4 DEF CommonDivisor
  <2>6. PICK u \in Nat, v \in Nat : c = g * u /\ m = g * v
    BY <2>4, <2>5 DEF CommonDivisor
  <2>7. PICK w \in Nat : w = u * k + v
    OBVIOUS
  <2>8. e = g * w
    <3>1. g * (u * k + v) = (g * u) * k + g * v
      OBVIOUS
    <3> QED BY <2>3, <2>6, <2>7, <3>1
  <2>9. CommonDivisor(g, e, c)
    BY <2>5, <2>6, <2>8 DEF CommonDivisor
  <2>10. gcd[c][e] = g
    BY <1>5, <1>7, <2>1, <2>5
  <2> QED BY <1>2, <2>9, <2>10
<1> QED BY <1>6, <1>7

(* A fraction in lowest terms is the fraction.                                 *)
Lowest(r, a, b) ==
  \E g \in Nat \ {0}, n \in Int, d \in Nat : r = [n |-> n, d |-> d] /\ a = g * n /\ b = g * d

(* A fraction in its lowest terms has the same value.                          *)
LEMMA FIs ==
  ASSUME NEW a \in Int, NEW b \in Nat
  PROVE  Lowest(F(a, b), a, b)
<1>1. CASE a = 0 /\ b = 0
  <2>1. Factor(a, b) = 1
    BY <1>1 DEF Factor
  <2>2. F(a, b) = [n |-> 0, d |-> 0]
    BY <1>1, <2>1 DEF F, Reduced
  <2> QED BY <1>1, <2>2 DEF Lowest
<1>2. CASE ~(a = 0 /\ b = 0)
  <2>1. PICK m \in Nat : m = IF a < 0 THEN -a ELSE a
    OBVIOUS
  <2>2. Factor(a, b) = gcd[b][m]
    BY <1>2, <2>1 DEF Factor
  <2>3. CommonDivisor(gcd[b][m], m, b)
    BY GcdDivides
  <2>4. PICK g \in Nat \ {0} : g = gcd[b][m]
    BY <1>2, <2>1, <2>3 DEF CommonDivisor
  <2>5. PICK u \in Nat, v \in Nat : m = g * u /\ b = g * v
    BY <2>3, <2>4 DEF CommonDivisor
  <2>6. PICK n \in Int : n = IF a < 0 THEN -u ELSE u
    OBVIOUS
  <2>7. a = g * n
    <3>1. g * (-u) = -(g * u)
      OBVIOUS
    <3> QED BY <2>1, <2>5, <2>6, <3>1
  <2>8. ASSUME NEW k \in Int PROVE (g * k) \div g = k
    OBVIOUS
  <2>9. F(a, b) = [n |-> n, d |-> v]
    <3>1. a \div g = n
      BY <2>7, <2>8
    <3>2. b \div g = v
      BY <2>5, <2>8
    <3> QED BY <2>2, <2>4, <3>1, <3>2 DEF F, Reduced
  <2> QED BY <2>4, <2>5, <2>7, <2>9 DEF Lowest
<1> QED BY <1>1, <1>2

(* It has the sign of the fraction, and is as large.                           *)
Numbers == [n : Int, d : Nat]
InOrder(r, a, b) ==
  /\ r \in Numbers /\ (r.d = 0 <=> b = 0)
  /\ (r.n = 0 <=> a = 0) /\ (r.n > 0 <=> a > 0) /\ (r.n < r.d <=> a < b)

(* So a fraction in lowest terms has the sign of the one it was made of, and   *)
(* is less than one when that is.                                              *)
LEMMA FOrders ==
  ASSUME NEW a \in Int, NEW b \in Nat, NEW r, r = F(a, b)
  PROVE  InOrder(r, a, b)
<1>1. Lowest(r, a, b)
  BY FIs
<1>2. PICK g \in Nat \ {0}, n \in Int, d \in Nat : r = [n |-> n, d |-> d] /\ a = g * n /\ b = g * d
  BY <1>1 DEF Lowest
<1>3. r \in Numbers /\ r.n = n /\ r.d = d
  BY <1>2 DEF Numbers
<1>4. ASSUME NEW i \in Int, NEW j \in Int, i > j PROVE g * i > g * j
  <2>1. PICK k \in Nat \ {0} : k = i - j
    BY <1>4
  <2>2. g * i = g * j + g * k
    BY <2>1
  <2>3. g * k > 0
    OBVIOUS
  <2> QED BY <2>2, <2>3
<1>5. g * 0 = 0
  OBVIOUS
<1>6. d = 0 <=> b = 0
  <2>1. d > 0 => g * d > g * 0
    BY <1>4
  <2> QED BY <1>2, <1>5, <2>1
<1>7. (n > 0 <=> a > 0) /\ (n = 0 <=> a = 0)
  <2>1. n > 0 => g * n > g * 0
    BY <1>4
  <2>2. 0 > n => g * 0 > g * n
    BY <1>4
  <2> QED BY <1>2, <1>5, <2>1, <2>2
<1>8. n < d <=> a < b
  <2>1. d > n => g * d > g * n
    BY <1>4
  <2>2. n > d => g * n > g * d
    BY <1>4
  <2>3. n < d \/ n = d \/ n > d
    OBVIOUS
  <2> QED BY <1>2, <2>1, <2>2, <2>3
<1> QED BY <1>3, <1>6, <1>7, <1>8 DEF InOrder

(* A fraction of something.                                                    *)
LEMMA FWithin ==
  ASSUME NEW a \in Nat, NEW b \in Nat, a <= b, b > 0
  PROVE  F(a, b) \in Numbers /\ Within01(F(a, b))
<1>1. PICK r : r = F(a, b)
  OBVIOUS
<1>2. InOrder(r, a, b) /\ InOrder(r, a, b)
  BY <1>1, FOrders
<1>3. r \in Numbers /\ r.d > 0
  BY <1>2 DEF InOrder, Numbers
<1>4. r.n >= 0
  <2>1. r.n = 0 \/ r.n > 0
    BY <1>2 DEF InOrder
  <2> QED BY <1>3, <2>1 DEF Numbers
<1>5. r.n <= r.d
  <2>1. PICK g \in Nat \ {0}, n \in Int, d \in Nat : r = [n |-> n, d |-> d] /\ a = g * n /\ b = g * d
    <3>1. Lowest(r, a, b)
      BY <1>1, FIs
    <3> QED BY <3>1 DEF Lowest
  <2>2. SUFFICES ASSUME n > d PROVE FALSE
    BY <2>1
  <2>3. PICK k \in Nat \ {0} : k = n - d
    BY <2>2
  <2>4. g * n = g * d + g * k
    BY <2>3
  <2>5. g * k > 0
    OBVIOUS
  <2> QED BY <2>1, <2>4, <2>5
<1> QED BY <1>1, <1>3, <1>4, <1>5 DEF Within01

(* Any fraction is a number, whatever the sign of its parts.                   *)
LEMMA FTyped ==
  ASSUME NEW a \in Int, NEW b \in Int
  PROVE  F(a, b) \in Numbers
<1>1. CASE b >= 0
  BY <1>1, FOrders DEF InOrder
<1>2. CASE b < 0
  <2>1. PICK c \in Int, d \in Nat : c = -a /\ d = -b
    BY <1>2
  <2>2. F(a, b) = F(c, d)
    BY <1>2, <2>1 DEF F
  <2> QED BY <2>2, FOrders DEF InOrder
<1> QED BY <1>1, <1>2

(* What a curve gives for a number between 0 and 1.                            *)
Gives(e, c) ==
  /\ e \in Numbers
  /\ Normal(c) => Within01(e) \/ (c.class = "bezier" /\ ~IsNumber(e))

(* The terms of a Bezier curve have the sign of its weights.                   *)
LEMMA BernsteinIs ==
  ASSUME NEW r \in Numbers, Within01(r), NEW k \in 0 .. 3
  PROVE  Bernstein(k, r) \in Nat
<1>1. PICK n \in Nat, p \in Nat : n = r.n /\ p = r.d - r.n
  BY DEF Numbers, Within01
<1>2. ASSUME NEW b \in Nat, NEW j \in 0 .. 4 PROVE Power(b, j) \in Nat
  <2>1. j = 0 \/ j = 1 \/ j = 2 \/ j = 3 \/ j = 4
    OBVIOUS
  <2>2. b * b \in Nat /\ b * b * b \in Nat /\ b * b * b * b \in Nat
    OBVIOUS
  <2> QED BY <2>1, <2>2 DEF Power
<1>3. PICK x \in Nat : x = Power(p, 4 - k)
  BY <1>2
<1>4. PICK y \in Nat : y = Power(n, k)
  BY <1>2
<1>5. PICK z \in Nat : z = btkvw[k + 1]
  <2>1. k = 0 \/ k = 1 \/ k = 2 \/ k = 3
    OBVIOUS
  <2> QED BY <2>1 DEF btkvw
<1>6. Bernstein(k, r) = z * x * y
  BY <1>1, <1>3, <1>4, <1>5 DEF Bernstein
<1> QED BY <1>6

(* A term times a point is no more than the term times the unit.               *)
LEMMA TermIs ==
  ASSUME NEW w \in Nat, NEW u \in Nat \ {0}, NEW p \in 0 .. u
  PROVE  w * p \in Nat /\ w * p <= u * w /\ (w = 0 => w * p = 0)
<1>1. PICK q \in Nat : q = u - p
  OBVIOUS
<1>2. u * w = w * p + w * q
  BY <1>1
<1>3. w * q >= 0 /\ w * p \in Nat
  OBVIOUS
<1> QED BY <1>2, <1>3

(* A Bezier curve of normal points, none of weight below zero, is normal.      *)
LEMMA BezierGives ==
  ASSUME NEW c \in Curves4, c.class = "bezier", NEW r \in Numbers, Within01(r)
  PROVE  Gives(Bezier(c, r), c)
<1>1. /\ c.points \in [0 .. 3 -> Int] /\ c.weights \in [0 .. 3 -> Int] /\ c.unit \in Nat \ {0}
  BY DEF Curves4
<1>2. PICK u \in Nat \ {0} : u = c.unit
  BY <1>1
<1>3. PICK b : b = [k \in 0 .. 3 |-> Bernstein(k, r)]
  OBVIOUS
<1>4. \A k \in 0 .. 3 : b[k] \in Nat /\ b[k] = Bernstein(k, r)
  BY <1>3, BernsteinIs
<1>5. PICK w : w = [k \in 0 .. 3 |-> b[k] * c.weights[k]]
  OBVIOUS
<1>6. \A k \in 0 .. 3 : w[k] \in Int /\ w[k] = Bernstein(k, r) * c.weights[k]
  <2>1. \A k \in 0 .. 3 : b[k] \in Int /\ c.weights[k] \in Int
    BY <1>1, <1>4
  <2> QED BY <1>4, <1>5, <2>1
<1>7. PICK v : v = [k \in 0 .. 3 |-> w[k] * c.points[k]]
  OBVIOUS
<1>8. \A k \in 0 .. 3 : v[k] \in Int /\ v[k] = w[k] * c.points[k]
  <2>1. \A k \in 0 .. 3 : w[k] \in Int /\ c.points[k] \in Int
    BY <1>1, <1>6
  <2> QED BY <1>7, <2>1
<1>9. PICK x \in Int : x = v[0] + v[1] + v[2] + v[3]
  BY <1>8
<1>10. PICK y \in Int : y = w[0] + w[1] + w[2] + w[3]
  BY <1>6
<1>11. Bezier(c, r) = F(x, u * y)
  <2>1. /\ w[0] = Bernstein(0, r) * c.weights[0] /\ w[1] = Bernstein(1, r) * c.weights[1]
        /\ w[2] = Bernstein(2, r) * c.weights[2] /\ w[3] = Bernstein(3, r) * c.weights[3]
    BY <1>6
  <2>2. /\ v[0] = w[0] * c.points[0] /\ v[1] = w[1] * c.points[1]
        /\ v[2] = w[2] * c.points[2] /\ v[3] = w[3] * c.points[3]
    BY <1>8
  <2> QED BY <1>2, <1>9, <1>10, <2>1, <2>2 DEF Bezier
<1>12. F(x, u * y) \in Numbers
  BY FTyped
<1>13. ASSUME Normal(c) PROVE Within01(F(x, u * y)) \/ ~IsNumber(F(x, u * y))
  <2>1. ASSUME NEW k \in 0 .. 3
        PROVE  w[k] \in Nat /\ v[k] \in Nat /\ v[k] <= u * w[k] /\ (w[k] = 0 => v[k] = 0)
    <3>1. c.points[k] \in 0 .. u /\ c.weights[k] \in Nat
      BY <1>1, <1>2, <1>13 DEF Normal
    <3>2. PICK t \in Nat : t = c.weights[k]
      BY <3>1
    <3>3. PICK a \in Nat : a = b[k]
      BY <1>4
    <3>4. PICK m \in Nat : m = w[k]
      <4>1. w[k] = a * t
        BY <1>5, <3>2, <3>3
      <4> QED BY <4>1
    <3>5. PICK p \in 0 .. u : p = c.points[k]
      BY <3>1
    <3>6. v[k] = m * p
      BY <1>8, <3>4, <3>5
    <3> QED BY <3>4, <3>6, TermIs
  <2>2. PICK w0 \in Nat, w1 \in Nat, w2 \in Nat, w3 \in Nat : w0 = w[0] /\ w1 = w[1] /\ w2 = w[2] /\ w3 = w[3]
    BY <2>1
  <2>3. PICK v0 \in Nat, v1 \in Nat, v2 \in Nat, v3 \in Nat : v0 = v[0] /\ v1 = v[1] /\ v2 = v[2] /\ v3 = v[3]
    BY <2>1
  <2>4. v0 <= u * w0 /\ v1 <= u * w1 /\ v2 <= u * w2 /\ v3 <= u * w3
    BY <2>1, <2>2, <2>3
  <2>5. (w0 = 0 => v0 = 0) /\ (w1 = 0 => v1 = 0) /\ (w2 = 0 => v2 = 0) /\ (w3 = 0 => v3 = 0)
    BY <2>1, <2>2, <2>3
  <2>6. x = v0 + v1 + v2 + v3 /\ y = w0 + w1 + w2 + w3
    BY <1>9, <1>10, <2>2, <2>3
  <2>7. PICK z \in Nat : z = u * y
    BY <2>6
  <2>8. x \in Nat /\ x <= z
    <3>1. u * (w0 + w1 + w2 + w3) = u * w0 + u * w1 + u * w2 + u * w3
      OBVIOUS
    <3> QED BY <2>4, <2>6, <2>7, <3>1
  <2>9. CASE z > 0
    BY <2>7, <2>8, <2>9, FWithin
  <2>10. CASE z = 0
    <3>1. x = 0
      BY <2>8, <2>10
    <3>2. InOrder(F(x, z), x, z)
      BY <2>8, FOrders
    <3> QED BY <2>7, <2>10, <3>1, <3>2 DEF InOrder, IsNumber
  <2> QED BY <2>9, <2>10
<1> QED BY <1>11, <1>12, <1>13 DEF Gives

(* A part of a whole number of parts, cut to whole ones.                       *)
LEMMA PartsCut ==
  ASSUME NEW n \in Nat, NEW d \in Nat \ {0}, n <= d, NEW a \in Nat \ {0}, NEW b \in Nat \ {0},
         NEW q, q = (n * a) \div (d * b)
  PROVE  q \in Nat /\ q * b <= a
<1>1. PICK t \in Nat : t = n * a
  OBVIOUS
<1>2. PICK w \in Nat \ {0} : w = d * b
  <2>1. d * b > 0
    OBVIOUS
  <2> QED BY <2>1
<1>3. q = t \div w
  BY <1>1, <1>2
<1>4. q \in Int /\ q * w <= t /\ t < q * w + w
  BY <1>3
<1>5. q >= 0
  <2>1. SUFFICES ASSUME q <= -1 PROVE FALSE
    BY <1>4
  <2>2. PICK j \in Nat : j = -1 - q
    BY <1>4, <2>1
  <2>3. q * w = -w - j * w /\ j * w >= 0
    BY <1>4, <2>2
  <2> QED BY <1>4, <2>3
<1>6. t <= d * a
  <2>1. PICK k \in Nat : k = d - n
    OBVIOUS
  <2>2. d * a = n * a + k * a
    BY <2>1
  <2>3. k * a >= 0
    OBVIOUS
  <2> QED BY <1>1, <2>2, <2>3
<1>7. q * b <= a
  <2>1. SUFFICES ASSUME q * b > a PROVE FALSE
    BY <1>4
  <2>2. PICK m \in Int : m = q * b
    BY <1>4
  <2>3. PICK k \in Nat \ {0} : k = m - a
    BY <2>1, <2>2
  <2>4. q * w = d * m
    BY <1>2, <1>4, <2>2
  <2>5. d * m = d * a + d * k /\ d * k > 0
    BY <2>3
  <2> QED BY <1>4, <1>6, <2>4, <2>5
<1> QED BY <1>4, <1>5, <1>7

(* Every curve gives a number or none for one between 0 and 1, and a normal    *)
(* one gives one that lies there too.                                          *)
LEMMA CurveGives ==
  ASSUME NEW c \in Curves4, NEW r \in Numbers, Within01(r)
  PROVE  Gives(evaluate(c, r), c)
<1>1. CASE c.class = "linear"
  <2>1. evaluate(c, r) = r
    BY <1>1 DEF evaluate
  <2> QED BY <2>1 DEF Gives
<1>2. CASE c.class = "const"
  <2>1. c.value \in Fractions
    BY <1>2 DEF Curves4
  <2>2. PICK a \in Int, b \in Nat \ {0} : a = c.value.n /\ b = c.value.d
    BY <2>1 DEF Fractions
  <2>3. evaluate(c, r) = F(a, b)
    BY <1>2, <2>2 DEF evaluate
  <2>4. Normal(c) => a \in Nat /\ a <= b
    BY <1>2, <2>2 DEF Normal
  <2> QED BY <2>3, <2>4, FTyped, FWithin DEF Gives
<1>3. CASE c.class = "step"
  <2>1. c.numSteps \in [n : Nat \ {0}, d : Nat \ {0}]
    BY <1>3 DEF Curves4
  <2>2. PICK a \in Nat \ {0}, b \in Nat \ {0} : a = c.numSteps.n /\ b = c.numSteps.d
    BY <2>1
  <2>3. PICK n \in Nat, d \in Nat \ {0} : n = r.n /\ d = r.d /\ n <= d
    BY DEF Numbers, Within01
  <2>4. PICK q : q = (n * a) \div (d * b)
    OBVIOUS
  <2>5. q \in Nat /\ q * b <= a
    BY <2>3, <2>4, PartsCut
  <2>6. PICK v \in Nat : v = q * b /\ v <= a
    BY <2>5
  <2>7. Steps(c, r) * c.numSteps.d = v
    BY <2>2, <2>3, <2>4, <2>6 DEF Steps
  <2>8. PICK i \in Nat : i = (IF c.stepUp THEN a - v ELSE v) /\ i <= a
    BY <2>6
  <2>9. Stepped(c, r) = F(i, a)
    BY <2>2, <2>7, <2>8 DEF Stepped
  <2>10. evaluate(c, r) = F(i, a)
    BY <1>3, <2>9 DEF evaluate
  <2> QED BY <2>8, <2>10, FWithin DEF Gives
<1>4. CASE c.class = "bezier"
  <2>1. evaluate(c, r) = Bezier(c, r)
    BY <1>4 DEF evaluate
  <2> QED BY <1>4, <2>1, BezierGives
<1>5. c.class \in {"linear", "const", "step", "bezier"}
  BY DEF Curves4
<1> QED BY <1>1, <1>2, <1>3, <1>4, <1>5

(* What comes between the bounds.                                              *)
LEMMA ClampIs ==
  ASSUME NEW r \in Numbers
  PROVE  Clamp(r) \in Numbers /\ Within01(Clamp(r))
<1>1. PICK z : z = F(0, 1)
  OBVIOUS
<1>2. PICK o : o = F(1, 1)
  OBVIOUS
<1>3. PICK g \in Nat \ {0}, n \in Int, d \in Nat : z = [n |-> n, d |-> d] /\ 0 = g * n /\ 1 = g * d
  <2>1. Lowest(z, 0, 1)
    BY <1>1, FIs
  <2> QED BY <2>1 DEF Lowest
<1>4. InOrder(z, 0, 1)
  BY <1>1, FOrders
<1>5. PICK h \in Nat \ {0}, i \in Int, j \in Nat : o = [n |-> i, d |-> j] /\ 1 = h * i /\ 1 = h * j
  <2>1. Lowest(o, 1, 1)
    BY <1>2, FIs
  <2> QED BY <2>1 DEF Lowest
<1>6. ASSUME NEW k \in Nat, NEW l \in Nat \ {0}, 1 = l * k PROVE k = 1
  <2>1. k # 0
    BY <1>6
  <2>2. k >= 2 => l * k >= 2 * l
    OBVIOUS
  <2> QED BY <1>6, <2>1, <2>2
<1>7. InOrder(o, 1, 1)
  BY <1>2, FOrders
<1>8. z.n = 0 /\ z.d = 1
  BY <1>3, <1>4, <1>6 DEF InOrder
<1>9. o.n = 1 /\ o.d = 1
  <2>1. i > 0
    BY <1>5, <1>7 DEF InOrder
  <2> QED BY <1>5, <1>6, <2>1
<1>10. PICK a \in Int, b \in Nat : r.n = a /\ r.d = b
  BY DEF Numbers
<1>11. PICK q : q = stdMin(r, o)
  OBVIOUS
<1>12. q = IF b < a THEN o ELSE r
  <2>1. Below(o, r) <=> 1 * b < a * 1
    BY <1>9, <1>10, Z3 DEF Below
  <2> QED BY <1>11, <2>1 DEF stdMin
<1>13. q \in Numbers /\ q.n <= q.d
  <2>1. b < a => q = o
    BY <1>12
  <2>2. ~(b < a) => q = r
    BY <1>12
  <2> QED BY <1>7, <1>9, <1>10, <2>1, <2>2 DEF InOrder
<1>14. PICK s \in Int, t \in Nat : q.n = s /\ q.d = t
  BY <1>13 DEF Numbers
<1>15. Clamp(r) = IF s > 0 THEN q ELSE z
  <2>1. Below(z, q) <=> 0 * t < s * 1
    BY <1>8, <1>14 DEF Below
  <2>2. Clamp(r) = stdMax(z, q)
    BY <1>1, <1>2, <1>11 DEF Clamp
  <2> QED BY <2>1, <2>2 DEF stdMax
<1>16. CASE s > 0
  <2>1. Clamp(r) = q /\ t > 0 /\ s <= t
    BY <1>13, <1>14, <1>15, <1>16
  <2> QED BY <1>13, <1>14, <1>16, <2>1 DEF Within01
<1>17. CASE ~(s > 0)
  <2>1. Clamp(r) = z
    BY <1>15, <1>17
  <2> QED BY <1>4, <1>8, <2>1 DEF Within01, InOrder
<1> QED BY <1>16, <1>17

(* One stage after the other.                                                  *)
LEMMA PassedIs ==
  ASSUME NEW s, NEW t, NEW r
  PROVE  /\ passthough(<<s>>, r) = evaluate(s, Clamp(r))
         /\ passthough(<<s, t>>, r) = evaluate(t, Clamp(evaluate(s, Clamp(r))))
<1>1. passthough(<<s>>, r) = evaluate(s, Clamp(r))
  <2> DEFINE St(i, v) == evaluate(<<s>>[i], Clamp(v))
  <2>1. PICK h : h = [i \in 0 .. 1 |-> IF i = 0 THEN r ELSE St(1, r)]
    OBVIOUS
  <2> HIDE DEF St
  <2>2. h[0] = r /\ h[1] = St(1, r)
    BY <2>1
  <2>3. \A i \in 0 .. 1 : h[i] = IF i = 0 THEN r ELSE St(i, h[i - 1])
    <3>1. \A i \in 0 .. 1 : i = 0 \/ i = 1
      OBVIOUS
    <3>2. 1 - 1 = 0
      OBVIOUS
    <3> QED BY <2>2, <3>1, <3>2
  <2>4. h = [i \in 0 .. 1 |-> IF i = 0 THEN r ELSE St(i, h[i - 1])]
    BY <2>1, <2>3
  <2>5. PICK g : g = CHOOSE e : e = [i \in 0 .. 1 |-> IF i = 0 THEN r ELSE St(i, e[i - 1])]
    OBVIOUS
  <2>6. g = [i \in 0 .. 1 |-> IF i = 0 THEN r ELSE St(i, g[i - 1])]
    BY <2>4, <2>5
  <2>7. g[0] = r /\ g[1] = St(1, g[1 - 1])
    BY <2>6
  <2>8. Len(<<s>>) = 1 /\ 1 - 1 = 0
    OBVIOUS
  <2>9. passthough(<<s>>, r) = g[1]
    BY <2>5, <2>8 DEF passthough, St
  <2> QED BY <2>7, <2>8, <2>9 DEF St
<1>2. passthough(<<s, t>>, r) = evaluate(t, Clamp(evaluate(s, Clamp(r))))
  <2> DEFINE St(i, v) == evaluate(<<s, t>>[i], Clamp(v))
  <2>1. PICK h : h = [i \in 0 .. 2 |-> IF i = 0 THEN r ELSE IF i = 1 THEN St(1, r) ELSE St(2, St(1, r))]
    OBVIOUS
  <2> HIDE DEF St
  <2>2. h[0] = r /\ h[1] = St(1, r) /\ h[2] = St(2, St(1, r))
    BY <2>1
  <2>3. \A i \in 0 .. 2 : h[i] = IF i = 0 THEN r ELSE St(i, h[i - 1])
    <3>1. \A i \in 0 .. 2 : i = 0 \/ i = 1 \/ i = 2
      OBVIOUS
    <3>2. 1 - 1 = 0 /\ 2 - 1 = 1
      OBVIOUS
    <3> QED BY <2>2, <3>1, <3>2
  <2>4. h = [i \in 0 .. 2 |-> IF i = 0 THEN r ELSE St(i, h[i - 1])]
    BY <2>1, <2>3
  <2>5. PICK g : g = CHOOSE e : e = [i \in 0 .. 2 |-> IF i = 0 THEN r ELSE St(i, e[i - 1])]
    OBVIOUS
  <2>6. g = [i \in 0 .. 2 |-> IF i = 0 THEN r ELSE St(i, g[i - 1])]
    BY <2>4, <2>5
  <2>7. g[0] = r /\ g[1] = St(1, g[1 - 1]) /\ g[2] = St(2, g[2 - 1])
    BY <2>6
  <2>8. Len(<<s, t>>) = 2 /\ 1 - 1 = 0 /\ 2 - 1 = 1
    OBVIOUS
  <2>9. passthough(<<s, t>>, r) = g[2]
    BY <2>5, <2>8 DEF passthough, St
  <2> QED BY <2>7, <2>8, <2>9 DEF St
<1> QED BY <1>1, <1>2

(* Whatever goes in.                                                           *)
Bounded(r, last, into) ==
  /\ Within01(into) /\ r = evaluate(last, into)
  /\ Normal(last) => Within01(r) \/ (last.class = "bezier" /\ ~IsNumber(r))

(* The last stage is handed a number between 0 and 1.                          *)
LEMMA PipeIsBounded ==
  ASSUME NEW s \in Curves4, NEW t \in Curves4, NEW r \in Numbers
  PROVE  Bounded(passthough(<<s, t>>, r), t, Clamp(passthough(<<s>>, r)))
<1>1. Gives(evaluate(s, Clamp(r)), s)
  BY ClampIs, CurveGives
<1>2. PICK e \in Numbers : e = evaluate(s, Clamp(r))
  BY <1>1 DEF Gives
<1>3. PICK c \in Numbers : c = Clamp(e) /\ Within01(c)
  BY ClampIs
<1>4. Gives(evaluate(t, c), t)
  BY <1>3, CurveGives
<1>5. passthough(<<s, t>>, r) = evaluate(t, c) /\ Clamp(passthough(<<s>>, r)) = c
  BY <1>2, <1>3, PassedIs
<1> QED BY <1>3, <1>4, <1>5 DEF Gives, Bounded

(* How good a probe is, and which of two is better.                            *)
Ahead(p, q, greatest) == IF greatest THEN Below(q, p) ELSE Below(p, q)

(* Products of fractions with denominators above zero are in order.            *)
LEMMA ProductsPass ==
  ASSUME NEW i \in Int, NEW j \in Nat \ {0}, NEW k \in Int, NEW l \in Nat \ {0}, NEW m \in Int,
         NEW n \in Nat \ {0}, i * l < k * j, k * n < m * l
  PROVE  i * n < m * j
<1>1. ASSUME NEW u \in Int, NEW v \in Int, u < v, NEW w \in Nat \ {0} PROVE u * w < v * w
  <2>1. PICK x \in Nat \ {0} : x = v - u
    BY <1>1
  <2>2. v * w = u * w + x * w
    BY <2>1
  <2>3. x * w > 0
    OBVIOUS
  <2> QED BY <2>2, <2>3
<1>2. PICK il \in Int : il = i * l
  OBVIOUS
<1>3. PICK kj \in Int : kj = k * j
  OBVIOUS
<1>4. PICK kn \in Int : kn = k * n
  OBVIOUS
<1>5. PICK ml \in Int : ml = m * l
  OBVIOUS
<1>6. il * n < kj * n /\ kn * j < ml * j
  BY <1>1, <1>2, <1>3, <1>4, <1>5
<1>7. il * n = (i * n) * l /\ ml * j = (m * j) * l /\ kj * n = kn * j
  BY <1>2, <1>3, <1>4, <1>5
<1>8. PICK g \in Int : g = i * n
  OBVIOUS
<1>9. PICK h \in Int : h = m * j
  OBVIOUS
<1>10. g * l < h * l
  BY <1>6, <1>7, <1>8, <1>9
<1>11. ~(h < g)
  BY <1>1, <1>10
<1>12. g # h
  BY <1>10
<1> QED BY <1>8, <1>9, <1>11, <1>12

(* What is below, in signs, when a number is infinite.                         *)
LEMMA BelowIs ==
  ASSUME NEW a \in Int, NEW b \in Nat, NEW c \in Int, NEW d \in Nat, NEW p, NEW q,
         p.n = a, p.d = b, q.n = c, q.d = d
  PROVE  /\ b > 0 /\ d > 0 => (Below(p, q) <=> a * d < c * b)
         /\ b = 0 /\ d > 0 => (Below(p, q) <=> a < 0)
         /\ b > 0 /\ d = 0 => (Below(p, q) <=> 0 < c)
         /\ b = 0 /\ d = 0 => (Below(p, q) <=> a < 0 /\ 0 < c)
<1>1. Below(p, q) <=> a * d < c * b \/ (b = 0 /\ d = 0 /\ a < 0 /\ 0 < c)
  BY DEF Below
<1>2. ASSUME NEW e \in Int, NEW f \in Nat \ {0} PROVE (e * f < 0 <=> e < 0) /\ (0 < e * f <=> 0 < e)
  <2>1. e < 0 => (-e) * f > 0 /\ (-e) * f = -(e * f)
    OBVIOUS
  <2>2. 0 < e => e * f > 0
    OBVIOUS
  <2>3. e = 0 => e * f = 0
    OBVIOUS
  <2> QED BY <2>1, <2>2, <2>3
<1>3. a * 0 = 0 /\ c * 0 = 0
  OBVIOUS
<1>4. CASE b > 0 /\ d > 0
  BY <1>1, <1>4
<1>5. CASE b = 0 /\ d > 0
  BY <1>1, <1>2, <1>3, <1>5
<1>6. CASE b > 0 /\ d = 0
  BY <1>1, <1>2, <1>3, <1>6
<1>7. CASE b = 0 /\ d = 0
  BY <1>1, <1>3, <1>7
<1> QED BY <1>4, <1>5, <1>6, <1>7

(* Below passes on, and what is below something is a number.                   *)
LEMMA BelowPasses ==
  ASSUME NEW p \in Numbers, NEW q \in Numbers, NEW r \in Numbers, Below(p, q)
  PROVE  IsNumber(p) /\ IsNumber(q) /\ ~Below(p, p) /\ (Below(q, r) => Below(p, r))
<1>1. PICK a \in Int, b \in Nat : p.n = a /\ p.d = b
  BY DEF Numbers
<1>2. PICK c \in Int, d \in Nat : q.n = c /\ q.d = d
  BY DEF Numbers
<1>3. PICK e \in Int, f \in Nat : r.n = e /\ r.d = f
  BY DEF Numbers
<1>4. /\ b > 0 /\ d > 0 => a * d < c * b
      /\ b = 0 => a < 0
      /\ d = 0 => 0 < c
  BY <1>1, <1>2, BelowIs
<1>5. IsNumber(p) /\ IsNumber(q)
  BY <1>1, <1>2, <1>4 DEF IsNumber
<1>6. ~Below(p, p)
  BY <1>1, BelowIs
<1>7. ASSUME Below(q, r) PROVE Below(p, r)
  <2>1. /\ d > 0 /\ f > 0 => c * f < e * d
        /\ d = 0 => c < 0
        /\ f = 0 => 0 < e
    BY <1>2, <1>3, <1>7, BelowIs
  <2>2. d > 0
    BY <1>4, <2>1
  <2>3. CASE b > 0 /\ f > 0
    <3>1. a * f < e * b
      BY <1>4, <2>1, <2>2, <2>3, ProductsPass
    <3> QED BY <1>1, <1>3, <2>3, <3>1, BelowIs
  <2>4. CASE b = 0
    <3>1. a < 0
      BY <1>4, <2>4
    <3> QED BY <1>1, <1>3, <2>1, <2>4, <3>1, BelowIs
  <2>5. CASE b > 0 /\ f = 0
    BY <1>1, <1>3, <2>1, <2>5, BelowIs
  <2> QED BY <2>3, <2>4, <2>5
<1> QED BY <1>5, <1>6, <1>7

(* So does being better.                                                       *)
LEMMA AheadPasses ==
  ASSUME NEW p \in Numbers, NEW q \in Numbers, NEW greatest \in BOOLEAN, Ahead(p, q, greatest)
  PROVE  /\ IsNumber(p) /\ IsNumber(q) /\ ~Ahead(p, p, greatest)
         /\ \A r \in Numbers : Ahead(q, r, greatest) => Ahead(p, r, greatest)
<1>1. CASE greatest = TRUE
  BY <1>1, BelowPasses DEF Ahead
<1>2. CASE greatest = FALSE
  BY <1>2, BelowPasses DEF Ahead
<1> QED BY <1>1, <1>2

(* What a curve returns for a probe is a number, or no number.                 *)
LEMMA RatioIs ==
  ASSUME NEW c \in Curves4, NEW x \in Numbers, Within01(x)
  PROVE  Ratio(c, x) \in Numbers
<1>1. PICK e \in Numbers : e = evaluate(c, x)
  BY CurveGives DEF Gives
<1>2. e.n * x.d \in Int /\ e.d * x.n \in Int
  BY DEF Numbers
<1>3. Ratio(c, x) = F(e.n * x.d, e.d * x.n)
  BY <1>1 DEF Ratio
<1> QED BY <1>2, <1>3, FTyped

(* The probes lie between the two bounds, at even distances.                   *)
LEMMA ProbeIs ==
  ASSUME NEW lo \in 0 .. Parts, NEW hi \in 0 .. Parts, lo < hi, NEW probes \in Nat \ {0}, NEW k \in 0 .. probes
  PROVE  Probe(lo, hi, probes, k) \in Numbers /\ Within01(Probe(lo, hi, probes, k))
<1>1. PICK p \in Nat \ {0} : p = Parts
  BY CurveAssumption
<1>2. PICK w \in Nat \ {0} : w = hi - lo
  BY <1>1
<1>3. lo \in Nat /\ hi \in Nat /\ k \in Nat /\ k <= probes /\ hi <= p
  BY <1>1
<1>4. PICK v \in Nat : v = k * w
  BY <1>3
<1>5. PICK u \in Nat : u = lo * probes
  BY <1>3
<1>6. PICK b \in Nat : b = p * probes
  OBVIOUS
<1>7. PICK t \in Nat \ {0} : t = probes * w
  <2>1. probes * w > 0
    OBVIOUS
  <2> QED BY <2>1
<1>8. v <= t
  <2>1. PICK z \in Nat : z = probes - k
    BY <1>3
  <2>2. probes * w = k * w + z * w
    BY <2>1
  <2>3. z * w >= 0
    OBVIOUS
  <2> QED BY <1>4, <1>7, <2>2, <2>3
<1>9. u + t <= b
  <2>1. PICK z \in Nat : z = p - hi
    BY <1>3
  <2>2. p = lo + w + z
    BY <1>2, <1>3, <2>1
  <2>3. p * probes = lo * probes + w * probes + z * probes
    BY <1>3, <2>2
  <2>4. z * probes >= 0 /\ w * probes = probes * w
    OBVIOUS
  <2> QED BY <1>5, <1>6, <1>7, <2>3, <2>4
<1>10. b > 0 /\ u + v <= b /\ u + v \in Nat
  BY <1>8, <1>9
<1>11. Probe(lo, hi, probes, k) = F(u + v, b)
  BY <1>1, <1>2, <1>4, <1>5, <1>6 DEF Probe
<1>13. F(u + v, b) \in Numbers /\ Within01(F(u + v, b))
  BY <1>10, FWithin
<1> QED BY <1>11, <1>13

(* The search of a curve ends at the best of its probes.                       *)
Found(r, c, lo, hi, probes, greatest) ==
  /\ r \in Numbers /\ Within01(r)
  /\ lo <= hi /\ probes > 0 =>
       LET x(k) == Ratio(c, Probe(lo, hi, probes, k))
       IN  IF ~IsNumber(x(0)) THEN r = Probe(lo, hi, probes, 0)
           ELSE IsNumber(Ratio(c, r)) /\ \A k \in 0 .. probes : ~Ahead(x(k), Ratio(c, r), greatest)

(* The search ends with a probe that no other probe is ahead of, unless it     *)
(* begins with one that returns no number.                                     *)
LEMMA FindIs ==
  ASSUME NEW c \in Curves4, NEW lo \in 0 .. Parts, NEW hi \in 0 .. Parts, NEW probes \in Nat,
         NEW greatest \in BOOLEAN, ~Endless(lo, hi, probes)
  PROVE  Found(find(c, lo, hi, probes, greatest), c, lo, hi, probes, greatest)
<1>1. CASE probes = 0 \/ hi < lo
  <2>1. find(c, lo, hi, probes, greatest) = F(lo, Parts)
    BY <1>1 DEF find
  <2>2. PICK p \in Nat \ {0} : p = Parts
    BY CurveAssumption
  <2>3. lo \in Nat /\ lo <= p /\ hi \in Nat
    BY <2>2
  <2>4. F(lo, p) \in Numbers /\ Within01(F(lo, p))
    BY <2>3, FWithin
  <2>5. ~(lo <= hi /\ probes > 0)
    BY <1>1, <2>3
  <2> QED BY <2>1, <2>2, <2>4, <2>5 DEF Found
<1>2. CASE ~(probes = 0 \/ hi < lo)
  <2> DEFINE X(k) == Probe(lo, hi, probes, k)
             Win(k, v) == Ahead(Ratio(c, X(k)), Ratio(c, v), greatest)
             St(k, v) == IF Win(k, v) THEN X(k) ELSE v
             S == {X(k) : k \in 0 .. probes}
  <2>1. probes \in Nat \ {0} /\ lo < hi
    <3>1. PICK p \in Nat \ {0} : p = Parts
      BY CurveAssumption
    <3>2. lo \in Nat /\ hi \in Nat
      BY <3>1
    <3> QED BY <1>2, <3>2 DEF Endless
  <2>2. \A k \in 0 .. probes : X(k) \in Numbers /\ Within01(X(k))
    BY <2>1, ProbeIs
  <2>3. PICK g : g = CHOOSE e : e = [k \in 0 .. probes |-> IF k = 0 THEN X(0) ELSE St(k, e[k - 1])]
    OBVIOUS
  <2>4. find(c, lo, hi, probes, greatest) = g[probes]
    BY <1>2, <2>3 DEF find, Ahead
  <2> HIDE DEF X, Win
  <2>5. \A k \in 0 .. probes : X(k) \in S
    OBVIOUS
  <2>6. \A k \in 0 .. probes, v \in S : St(k, v) \in S
    BY <2>5
  <2> HIDE DEF S
  <2>7. PICK R : R = [k \in 1 .. probes |-> [v \in S |-> St(k, v)]]
    OBVIOUS
  <2>8. \A k \in 1 .. probes : R[k] \in [S -> S]
    BY <2>6, <2>7
  <2>9. X(0) \in S
    BY <2>5
  <2>10. PICK f \in [0 .. probes -> S] : Runs(f, X(0), R, probes)
    BY <2>8, <2>9, Iterates
  <2>11. \A k \in 0 .. probes : f[k] = IF k = 0 THEN X(0) ELSE St(k, f[k - 1])
    <3>1. SUFFICES ASSUME NEW k \in 0 .. probes PROVE f[k] = IF k = 0 THEN X(0) ELSE St(k, f[k - 1])
      OBVIOUS
    <3>2. CASE k = 0
      BY <2>10, <3>2 DEF Runs
    <3>3. CASE k # 0
      <4>1. k \in 1 .. probes /\ k - 1 \in 0 .. probes
        BY <3>3
      <4>2. f[k] = R[k][f[k - 1]] /\ f[k - 1] \in S
        BY <2>10, <4>1 DEF Runs
      <4> QED BY <2>7, <3>3, <4>1, <4>2
    <3> QED BY <3>2, <3>3
  <2> HIDE DEF St
  <2>12. f = [k \in 0 .. probes |-> IF k = 0 THEN X(0) ELSE St(k, f[k - 1])]
    BY <2>10, <2>11
  <2>13. g = [k \in 0 .. probes |-> IF k = 0 THEN X(0) ELSE St(k, g[k - 1])]
    BY <2>3, <2>12
  <2>14. \A v \in S : Ratio(c, v) \in Numbers
    BY <2>2, RatioIs DEF S
  <2> DEFINE Began == IsNumber(Ratio(c, X(0)))
             Best(m, v) == /\ IsNumber(Ratio(c, v)) <=> Began
                           /\ ~Began => v = X(0)
                           /\ \A k \in 0 .. m : ~Win(k, v)
             Good(m) == g[m] \in S /\ Best(m, g[m])
  <2>15. ASSUME NEW k \in 0 .. probes, NEW v \in S, Win(k, v)
         PROVE  /\ IsNumber(Ratio(c, X(k))) /\ IsNumber(Ratio(c, v)) /\ ~Win(k, X(k))
                /\ \A w \in S : Ahead(Ratio(c, v), Ratio(c, w), greatest) => Win(k, w)
    <3>1. PICK p \in Numbers : p = Ratio(c, X(k))
      BY <2>5, <2>14
    <3>2. PICK q \in Numbers : q = Ratio(c, v)
      BY <2>14
    <3>3. Ahead(p, q, greatest)
      BY <2>15, <3>1, <3>2 DEF Win
    <3>4. /\ IsNumber(p) /\ IsNumber(q) /\ ~Ahead(p, p, greatest)
          /\ \A r \in Numbers : Ahead(q, r, greatest) => Ahead(p, r, greatest)
      BY <3>3, AheadPasses
    <3>5. ~Win(k, X(k))
      BY <3>1, <3>4 DEF Win
    <3>6. ASSUME NEW w \in S, Ahead(q, Ratio(c, w), greatest) PROVE Win(k, w)
      BY <2>14, <3>1, <3>4, <3>6 DEF Win
    <3> QED BY <3>1, <3>2, <3>4, <3>5, <3>6
  <2>16. PICK T : T = {m \in 0 .. probes : Good(m)}
    OBVIOUS
  <2>17. 0 \in T
    <3>1. 0 \in 0 .. probes /\ \A k \in 0 .. 0 : k = 0
      OBVIOUS
    <3>2. g[0] = X(0)
      BY <2>13, <3>1
    <3>3. ~Win(0, X(0))
      BY <2>9, <2>15, <3>1
    <3>4. Best(0, X(0))
      BY <3>1, <3>3
    <3> HIDE DEF Best
    <3> QED BY <2>9, <2>16, <3>1, <3>2, <3>4
  <2>18. ASSUME NEW m \in 1 .. probes, m - 1 \in T PROVE m \in T
    <3>1. PICK v \in S : v = g[m - 1] /\ Best(m - 1, v)
      <4>1. PICK j : j = m - 1
        OBVIOUS
      <4>2. j \in T
        BY <2>18, <4>1
      <4>3. Good(j)
        <5> HIDE DEF Good
        <5> QED BY <2>16, <4>2
      <4> HIDE DEF Best
      <4> QED BY <4>1, <4>3
    <3>2. m \in 0 .. probes /\ m # 0 /\ g[m] = St(m, v)
      BY <2>13, <3>1
    <3>3. \A k \in 0 .. m : k = m \/ k \in 0 .. m - 1
      OBVIOUS
    <3>4. X(m) \in S
      BY <2>5, <3>2
    <3>5. CASE ~Win(m, v)
      <4>1. g[m] = v
        BY <3>2, <3>5 DEF St
      <4>2. Best(m, v)
        BY <3>1, <3>3, <3>5
      <4> HIDE DEF Best
      <4> QED BY <2>16, <3>2, <4>1, <4>2
    <3>6. CASE Win(m, v)
      <4>1. g[m] = X(m)
        BY <3>2, <3>6 DEF St
      <4>2. /\ IsNumber(Ratio(c, X(m))) /\ IsNumber(Ratio(c, v)) /\ ~Win(m, X(m))
        BY <2>15, <3>2, <3>6
      <4>3. Began
        BY <3>1, <4>2
      <4>4. ASSUME NEW k \in 0 .. m - 1 PROVE ~Win(k, X(m))
        <5>1. SUFFICES ASSUME Win(k, X(m)) PROVE FALSE
          OBVIOUS
        <5>2. k \in 0 .. probes
          OBVIOUS
        <5>3. Ahead(Ratio(c, X(m)), Ratio(c, v), greatest)
          BY <3>6 DEF Win
        <5>4. Win(k, v)
          BY <2>15, <3>4, <5>1, <5>2, <5>3
        <5> QED BY <3>1, <5>4
      <4>5. \A k \in 0 .. m : ~Win(k, X(m))
        BY <3>3, <4>2, <4>4
      <4>6. Best(m, X(m))
        BY <4>2, <4>3, <4>5
      <4> HIDE DEF Best
      <4> QED BY <2>16, <3>2, <3>4, <4>1, <4>6
    <3> QED BY <3>5, <3>6
  <2>19. probes \in T
    <3>1. probes \in Nat /\ probes \in 0 .. probes
      OBVIOUS
    <3>2. \A j \in 0 .. probes : j \in T
      BY <2>17, <2>18, Throughout
    <3> QED BY <3>1, <3>2
  <2>20. PICK r : r = g[probes]
    OBVIOUS
  <2>21. r \in S /\ Best(probes, r)
    <3>1. Good(probes)
      <4> HIDE DEF Good
      <4> QED BY <2>16, <2>19
    <3> HIDE DEF Best
    <3> QED BY <2>20, <3>1
  <2>22. r \in Numbers /\ Within01(r)
    BY <2>2, <2>21 DEF S
  <2> QED BY <2>4, <2>20, <2>21, <2>22 DEF Found, Win, X
<1> QED BY <1>1, <1>2

(* What can be asked of the curves.                                            *)
AskedSearch(s) ==
  \E c \in Curves4, lo, hi \in 0 .. Parts, n \in Nat :
    ~Endless(lo, hi, n) /\ s = [of |-> "search", curve |-> c, lo |-> lo, hi |-> hi, probes |-> n]
AskedPipe(s) ==
  \E h, t \in Curves4, r \in Numbers : s = [of |-> "pipe", stages |-> <<h, t>>, r |-> r]
CurvesIInv == probe = [of |-> "nothing"] \/ AskedSearch(probe) \/ AskedPipe(probe)

(* Every probe is one of these questions.                                      *)
LEMMA ProbesAsked == SpecCurves => []CurvesIInv
<1>1. InitCurves => CurvesIInv
  BY DEF InitCurves, CurvesIInv
<1>2. TakeSearch => AskedSearch(probe')
  <2>1. Probes \subseteq Nat /\ NormalCurves \subseteq Curves4
    BY CurveAssumption
  <2> QED BY <2>1 DEF TakeSearch, AskedSearch
<1>3. TakePipe => AskedPipe(probe')
  <2> SUFFICES ASSUME TakePipe PROVE AskedPipe(probe')
    OBVIOUS
  <2>1. PICK p \in Nat \ {0} : p = Parts
    BY CurveAssumption
  <2>2. \A n \in -1 .. p + 1 : F(n, p) \in Numbers
    BY FTyped
  <2>3. \A n \in -1 .. 1 : F(n, 0) \in Numbers
    BY FTyped
  <2>4. Asked \subseteq Numbers
    BY <2>1, <2>2, <2>3 DEF Asked
  <2>5. NormalCurves \subseteq Curves4
    BY CurveAssumption
  <2> QED BY <2>4, <2>5 DEF TakePipe, AskedPipe
<1>4. CurvesIInv /\ [NextCurves]_curveVars => CurvesIInv'
  <2> SUFFICES ASSUME CurvesIInv, [NextCurves]_curveVars PROVE CurvesIInv'
    OBVIOUS
  <2>1. CASE NextCurves
    BY <1>2, <1>3, <2>1 DEF NextCurves, CurvesIInv
  <2>2. CASE UNCHANGED curveVars
    BY <2>2 DEF curveVars, CurvesIInv
  <2> QED BY <2>1, <2>2
<1> QED BY <1>1, <1>4, PTL DEF SpecCurves

(* The search returns the best of its probes.                                  *)
LEMMA SearchAnswered == AskedSearch(probe) => CurvesAgree
<1> SUFFICES ASSUME AskedSearch(probe) PROVE CurvesAgree
  OBVIOUS
<1>1. PICK c \in Curves4, lo \in 0 .. Parts, hi \in 0 .. Parts, n \in Nat :
        ~Endless(lo, hi, n) /\ probe = [of |-> "search", curve |-> c, lo |-> lo, hi |-> hi, probes |-> n]
  BY DEF AskedSearch
<1>2. probe.of = "search" /\ probe.curve = c /\ probe.lo = lo /\ probe.hi = hi /\ probe.probes = n
  BY <1>1
<1>3. ASSUME NEW greatest \in BOOLEAN PROVE Found(find(c, lo, hi, n, greatest), c, lo, hi, n, greatest)
  BY <1>1, FindIs
<1>4. CurvesTypeOK
  <2>1. Within01(find(c, lo, hi, n, TRUE))
    BY <1>3 DEF Found
  <2> QED BY <1>2, <2>1 DEF CurvesTypeOK, findMaxEfficiency
<1>5. ASSUME NEW greatest \in BOOLEAN, lo <= hi, n > 0 PROVE Searched(c, lo, hi, n, greatest)
  <2>1. PICK r : r = find(c, lo, hi, n, greatest)
    OBVIOUS
  <2>2. Found(r, c, lo, hi, n, greatest)
    BY <1>3, <2>1
  <2>3. CASE ~IsNumber(Ratio(c, Probe(lo, hi, n, 0)))
    BY <1>5, <2>1, <2>2, <2>3 DEF Found, Searched
  <2>4. CASE IsNumber(Ratio(c, Probe(lo, hi, n, 0)))
    <3>1. IsNumber(Ratio(c, r)) /\ \A k \in 0 .. n : ~Ahead(Ratio(c, Probe(lo, hi, n, k)), Ratio(c, r), greatest)
      BY <1>5, <2>2, <2>4 DEF Found
    <3> QED BY <2>1, <2>4, <3>1 DEF Searched, Ahead
  <2> QED BY <2>3, <2>4
<1>6. BestProbed
  BY <1>2, <1>5 DEF BestProbed
<1>7. PipeBounded
  BY <1>2 DEF PipeBounded
<1> QED BY <1>4, <1>6, <1>7 DEF CurvesAgree

(* Two curves after each other are the curve of what the first gives.          *)
LEMMA PipeAnswered == AskedPipe(probe) => CurvesAgree
<1> SUFFICES ASSUME AskedPipe(probe) PROVE CurvesAgree
  OBVIOUS
<1>1. PICK s \in Curves4, t \in Curves4, r \in Numbers : probe = [of |-> "pipe", stages |-> <<s, t>>, r |-> r]
  BY DEF AskedPipe
<1>2. PICK st : st = <<s, t>>
  OBVIOUS
<1>3. probe.of = "pipe" /\ probe.stages = st /\ probe.r = r /\ st[1] = s /\ st[2] = t
  BY <1>1, <1>2
<1>4. Bounded(passthough(<<s, t>>, r), t, Clamp(passthough(<<s>>, r)))
  BY PipeIsBounded
<1>5. PipeBounded
  BY <1>2, <1>3, <1>4 DEF PipeBounded, Bounded
<1> QED BY <1>3, <1>5 DEF CurvesAgree, CurvesTypeOK, BestProbed

(* What the curves and their search give is right.                             *)
THEOREM CurvesAreRight == SpecCurves => []CurvesAgree
<1>1. probe = [of |-> "nothing"] => CurvesAgree
  <2> SUFFICES ASSUME probe = [of |-> "nothing"] PROVE CurvesAgree
    OBVIOUS
  <2>1. probe.of = "nothing"
    OBVIOUS
  <2> QED BY <2>1 DEF CurvesAgree, CurvesTypeOK, BestProbed, PipeBounded
<1>2. CurvesIInv => CurvesAgree
  BY <1>1, SearchAnswered, PipeAnswered DEF CurvesIInv
<1> QED BY <1>2, ProbesAsked, PTL

-----------------------------------------------------------------------------
(* The geometry and the curves answer as their reference definitions do, for   *)
(* any coordinates, transformations, clicks, bounds and numbers of probes.     *)
THEOREM AnswersAgree == SpecGeometry /\ SpecCurves => []AgreesWithReference
<1>1. GeometryAgrees /\ CurvesAgree => AgreesWithReference
  BY DEF AgreesWithReference
<1> QED BY <1>1, GeometryIsRight, CurvesAreRight, PTL
==============================================================================

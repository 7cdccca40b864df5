------------------------------- MODULE PowerPlant -------------------------------
(***************************************************************************)
(* Power::Generator and Power::PowerBank of a ship                         *)
(* (src/src/Game/ship/Generator.cpp, PowerBank.cpp) and the curves they    *)
(* are governed by: what one update burns and what it stores.              *)
(*                                                                         *)
(* Throttle and time step are in halves (2 is full throttle, 2 is one      *)
(* second), so what is generated is counted in quarters and every product  *)
(* is exact; PowerUnit and LoadUnit are unsigned integers, and a float is  *)
(* cut off when it is stored in one.                                       *)
(***************************************************************************)
EXTENDS Integers

CONSTANTS
  Capacities, MaxFuel, Rates,   \* what may be set
  Steps,                        \* how long an update may last, in halves of a second
  Curves                        \* what may be set as a gradient

Throttles == 0 .. 2

(* A curve is what it makes of each throttle.  Nothing normalizes that: the *)
(* value of a ConstCurve may be any number (here not a negative one, which  *)
(* an unsigned integer cannot hold).                                        *)
ASSUME PlantAssumption ==
  /\ Capacities \subseteq Nat /\ MaxFuel \in Nat /\ Rates \subseteq Nat /\ Steps \subseteq Nat \ {0}
  /\ Curves \subseteq [Throttles -> Nat]

Linear == [r \in Throttles |-> r]
evaluate(curve, r) == curve[r]

VARIABLES
  throttle_n,       \* written by the slider of the helm too
  throttle_n_c,     \* the throttle the cached values belong to
  gen_g, con_g,     \* the curves of generation and of consumption
  c_gen_n, c_con_n, \* their cached values
  maxGenerate, maxConsumption,
  fuel,
  value, capacity,  \* of the power bank
  replaced,         \* whether a curve was replaced since the throttle was set
  wrapped           \* fuel was computed from a negative number

plantVars == <<throttle_n, throttle_n_c, gen_g, con_g, c_gen_n, c_con_n, maxGenerate,
               maxConsumption, fuel, value, capacity, replaced, wrapped>>
settings == <<gen_g, con_g, maxGenerate, maxConsumption, capacity>>
cache == <<throttle_n, throttle_n_c, c_gen_n, c_con_n, replaced>>

InitPlant ==
  /\ throttle_n = 0 /\ throttle_n_c = 0
  /\ gen_g = Linear /\ con_g = Linear
  /\ c_gen_n = 0 /\ c_con_n = 0
  /\ maxGenerate = 0 /\ maxConsumption = 0
  /\ fuel = MaxFuel
  /\ value = 0 /\ capacity = 0
  /\ replaced = FALSE /\ wrapped = FALSE

(* Altered form: the cached consumption stays.                              *)
setThrottleHalf(n) ==
  /\ throttle_n' = n
  /\ throttle_n_c' = n
  /\ c_gen_n' = evaluate(gen_g, n)
  /\ replaced' = FALSE
  /\ UNCHANGED c_con_n
setThrottlePrecentage(n) ==
  /\ throttle_n' = n
  /\ throttle_n_c' = n
  /\ c_gen_n' = evaluate(gen_g, n)
  /\ c_con_n' = evaluate(con_g, n)
  /\ replaced' = FALSE

SetThrottle(n) == setThrottlePrecentage(n) /\ UNCHANGED <<settings, fuel, value, wrapped>>

(* The slider of the helm holds a pointer to throttle_n.                    *)
Slide(n) ==
  /\ throttle_n' = n
  /\ UNCHANGED <<throttle_n_c, c_gen_n, c_con_n, replaced, settings, fuel, value, wrapped>>

SetGradiants(g, k) ==
  /\ <<g, k>> # <<gen_g, con_g>>
  /\ gen_g' = g /\ con_g' = k
  /\ replaced' = TRUE
  /\ UNCHANGED <<throttle_n, throttle_n_c, c_gen_n, c_con_n, maxGenerate, maxConsumption,
                 fuel, value, capacity, wrapped>>

SetLimits(g, k, p) ==
  /\ maxGenerate' = g /\ maxConsumption' = k /\ capacity' = p
  /\ UNCHANGED <<cache, gen_g, con_g, fuel, value, wrapped>>

(* PowerBank::setValue, from what uses the power.                           *)
Drain(n) ==
  /\ n < value
  /\ value' = n
  /\ UNCHANGED <<cache, settings, fuel, wrapped>>

isFull == ~(value < capacity)

(* What an update with cached values g and k generates and consumes, in     *)
(* quarters, when fuel does not limit it.                                   *)
Generated(g, d) == g * maxGenerate * d
Consumed(k, d) == k * maxConsumption * d

(* Altered form: the fuel does not limit what is generated.                 *)
FilledWhole(g, k, d) == value + Generated(g, d) \div 4
(* When fuel is short the generator runs for the part it has fuel for: the  *)
(* value after it, cut off to an integer.                                   *)
Filled(g, k, d) ==
  IF Consumed(k, d) > 4 * fuel
  THEN value + (Generated(g, d) * fuel) \div Consumed(k, d)
  ELSE value + Generated(g, d) \div 4

(* Altered form: more is burned than there is.                              *)
BurnedBeyond(k, d) == Consumed(k, d)
Burned(k, d) == IF Consumed(k, d) > 4 * fuel THEN 4 * fuel ELSE Consumed(k, d)

(* What the bank cannot take is meant to reduce the consumption; the        *)
(* division is one of integers, so nothing is taken off until the excess is *)
(* a whole maxGenerate, then all of it, and from twice that on 1 minus it   *)
(* is the largest number there is.                                          *)
Excess(v) == IF v > capacity THEN (v - capacity) \div maxGenerate ELSE 0

Burn(k, d, v) ==
  IF Burned(k, d) > 0 /\ Excess(v) > 1
  THEN wrapped' = TRUE /\ UNCHANGED fuel
  ELSE /\ fuel' = (4 * fuel - (IF Excess(v) = 0 THEN Burned(k, d) ELSE 0)) \div 4
       /\ UNCHANGED wrapped

update(d) ==
  LET moved == throttle_n # throttle_n_c
      g == IF moved THEN evaluate(gen_g, throttle_n) ELSE c_gen_n
      k == IF moved THEN evaluate(con_g, throttle_n) ELSE c_con_n
      v == Filled(g, k, d)
  IN  /\ IF moved THEN setThrottlePrecentage(throttle_n) ELSE UNCHANGED cache
      /\ IF isFull
         THEN UNCHANGED <<fuel, value, wrapped>>
         ELSE /\ value' = IF v > capacity THEN capacity ELSE v
              /\ Burn(k, d, v)
      /\ UNCHANGED settings

NextPlant ==
  /\ ~wrapped
  /\ \/ \E n \in Throttles : SetThrottle(n) \/ Slide(n)
     \/ \E g, k \in Curves : SetGradiants(g, k)
     \/ \E g, k \in Rates, p \in Capacities : SetLimits(g, k, p)
     \/ \E n \in Capacities : Drain(n)
     \/ \E d \in Steps : update(d)

SpecPlant == InitPlant /\ [][NextPlant]_plantVars

-----------------------------------------------------------------------------
PlantTypeOK ==
  /\ {throttle_n, throttle_n_c} \subseteq Throttles /\ {c_gen_n, c_con_n} \subseteq Nat
  /\ {gen_g, con_g} \subseteq Curves \cup {Linear}
  /\ {maxGenerate, maxConsumption} \subseteq Rates \cup {0}
  /\ fuel \in 0 .. MaxFuel
  /\ value \in Nat /\ capacity \in Capacities \cup {0}
  /\ replaced \in BOOLEAN /\ wrapped \in BOOLEAN

(* The cached output of the curves is that of the throttle it is said to    *)
(* belong to, however the slider and setThrottlePrecentage interleave;      *)
(* only a curve that was replaced since leaves an old value behind.         *)
CacheFollows ==
  ~replaced => /\ c_gen_n = evaluate(gen_g, throttle_n_c)
               /\ c_con_n = evaluate(con_g, throttle_n_c)

(* An update that generates no more than maxGenerate, one of at most a      *)
(* second by a curve that stays within 1, gives no power for nothing: what  *)
(* it adds to the bank is paid for in fuel at the ratio of the two curves,  *)
(* also when the fuel runs out or the bank fills up on the way.  It adds    *)
(* nothing beyond the capacity, and never counts below zero fuel.  (A       *)
(* longer one, or a steeper curve, does: Generator.cpp:46 divides integers.)*)
NoFreePower ==
  [][\A d \in Steps :
       c_gen_n' * d <= 4 /\ update(d) =>
         /\ (value' - value) * c_con_n' * maxConsumption
              <= (fuel - fuel') * c_gen_n' * maxGenerate
         /\ value' > value => value' <= capacity
         /\ ~wrapped']_plantVars

(* The generator: what is cached belongs to the throttle it is said to.     *)
PlantInv == PlantTypeOK /\ CacheFollows
=============================================================================

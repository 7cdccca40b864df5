----------------------------- MODULE LifecycleProofs -----------------------------
(* Proofs about what runs on by itself, for any number of games, any targets,  *)
(* capacities, rates and time steps: a session of the program, the motion of a *)
(* ship and its power plant, each by itself and as MCLifecycle has them.       *)
EXTENDS MCLifecycle, TLAPS

--------------------------------------------------------------------------------
(* The session.                                                                *)

(* After the first game the context stays stopped, and the ids are there.      *)
AfterAGame ==
  /\ games > 0 => stopped /\ isReady
  /\ games > 0 => thrContext # "running"
  /\ stage = "playing" => games > 0 /\ conn = "none"

(* How far the queue client is.                                                *)
Progress ==
  /\ stage \in {"start", "playing"} => isReady
  /\ stage = "waiting" => ~isReady
  /\ stage = "menu" => conn = "none"
  /\ conn = "up" => thrContext = "running"

(* Where things stand as long as nothing was lost: a link that closed is one   *)
(* that never came up, with the client still waiting; when a name is asked for *)
(* there is no link, with its thread joined; and a link has a port.            *)
NothingLost ==
  /\ asked => stage = "waiting" \/ (stage = "start" /\ conn = "up")
  /\ stage = "prompt" => conn = "none"
  /\ stage \in {"waiting", "start"} => conn # "none"
  /\ conn # "none" => port = "number"
  /\ conn = "closed" => stage = "waiting" /\ ~given
  /\ given /\ ~isReady => conn = "up"

SessionIInv == SessionInv /\ AfterAGame /\ Progress /\ (~lost => NothingLost)

(* A session begins in the menu.                                               *)
LEMMA SessionStarts == InitSession => SessionIInv
<1> SUFFICES ASSUME InitSession PROVE SessionIInv
  OBVIOUS
<1>1. SessionTypeOK
  <2>1. games \in 0 .. MaxGames
    BY SessionAssumption DEF InitSession
  <2>2. {stopped, asked, given, isReady, lost} \subseteq BOOLEAN
    BY Zenon DEF InitSession
  <2> QED BY <2>1, <2>2 DEF InitSession, SessionTypeOK
<1>2. AbortsExplained /\ QueuedOnce /\ AfterAGame /\ Progress /\ NothingLost
  BY DEF InitSession, AbortsExplained, QueuedOnce, AfterAGame, Progress, NothingLost
<1> QED BY <1>1, <1>2 DEF SessionIInv, SessionInv

(* The invariant has a part for each action to keep.                           *)
LEMMA SessionStep == SessionIInv /\ [NextSession]_sessionVars => SessionIInv'
<1> SUFFICES ASSUME SessionIInv, [NextSession]_sessionVars PROVE SessionIInv'
  OBVIOUS
<1> USE DEF SessionIInv, SessionInv, SessionTypeOK, AbortsExplained, QueuedOnce,
            AfterAGame, Progress, NothingLost
<1>1. CASE Menu
  BY <1>1 DEF Menu, ChooseFrom, linkVars
<1>2. CASE PromptThrows
  BY <1>2 DEF PromptThrows, linkVars
<1>3. CASE PromptInVain
  BY <1>3 DEF PromptInVain, linkVars
<1>4. CASE PromptConnects
  BY <1>4 DEF PromptConnects, Connect
<1>5. CASE Check
  BY <1>5 DEF Check, linkVars, isConnected
<1>6. CASE AskPartition
  BY <1>6 DEF AskPartition, isConnected, linkVars
<1>7. CASE TakePartition
  BY <1>7 DEF TakePartition, linkVars
<1>8. CASE StartGame
  <2>1. games' \in 0 .. MaxGames /\ games' > 0
    BY <1>8, SessionAssumption DEF StartGame
  <2>2. /\ port' = "number" /\ isReady' /\ stage' = "playing"
        /\ conn' = "none" /\ thrContext' = "none" /\ stopped' /\ ~asked'
    BY <1>8 DEF StartGame, Disconnect
  <2>3. {stopped', asked', given', isReady', lost'} \subseteq BOOLEAN
    BY <1>8 DEF StartGame, Disconnect
  <2> QED BY <2>1, <2>2, <2>3
<1>9. CASE NoGame
  BY <1>9 DEF NoGame, linkVars
<1>16. CASE StartThrows
  BY <1>16 DEF StartThrows, linkVars
<1>10. CASE GameEnds
  BY <1>10 DEF GameEnds, linkVars
<1>11. CASE Accept
  BY <1>11 DEF Accept
<1>12. CASE Refuse
  <2>1. CASE asked
    BY <1>12, <2>1 DEF Refuse
  <2>2. CASE ~asked
    BY <1>12, <2>2 DEF Refuse
  <2> QED BY <2>1, <2>2
<1>13. CASE ServerCloses
  BY <1>13 DEF ServerCloses
<1>14. CASE Answer
  BY <1>14 DEF Answer, linkVars
<1>15. CASE UNCHANGED sessionVars
  BY <1>15 DEF sessionVars
<1> QED
  BY <1>1, <1>2, <1>3, <1>4, <1>5, <1>6, <1>7, <1>8, <1>9, <1>10, <1>11, <1>12, <1>13, <1>14, <1>15,
     <1>16
     DEF NextSession, Queue, Network

(* QueueClient.cpp and startGame: whatever is typed, whoever listens and       *)
(* however many games are played, the process does not end by itself but for a *)
(* server that was lost or a port that cannot be read, and the queue is gone   *)
(* through once.                                                               *)
THEOREM SessionHolds == SpecSession => []SessionInv
<1>1. SessionIInv => SessionInv
  BY DEF SessionIInv
<1> QED BY <1>1, SessionStarts, SessionStep, PTL DEF SpecSession

--------------------------------------------------------------------------------
(* The motion of a ship.                                                       *)

(* An angle is scaled to less than a full turn in either direction.            *)
LEMMA Scaled ==
  ASSUME NEW r \in Int
  PROVE  RotScale(r) \in 1 - FullTurn .. FullTurn - 1
  BY DEF RotScale, FullTurn

(* A turn is of less than a full one, and of at most half of one to the left.  *)
LEMMA TurnBounded ==
  ASSUME NEW a \in Int, NEW b \in Int
  PROVE  RotDiff(a, b) \in 1 - FullTurn .. HalfTurn
<1>1. PICK t \in 1 - FullTurn .. FullTurn - 1 : t = RotScale(b - a)
  BY Scaled
<1> QED BY <1>1 DEF RotDiff, FullTurn, HalfTurn

(* What is steered for is within the bound of the spin.                        *)
LEMMA SteeredBounded ==
  ASSUME NEW d \in 1 - FullTurn .. HalfTurn, NEW a \in 0 .. u_rotAccele
  PROVE  Quotient(d * a, Radian) \in -MaxSpin .. MaxSpin
<1>1. d * a \in Int /\ -86 <= d * a /\ d * a <= 44
  <2>1. a = 0 \/ a = 1 \/ a = 2
    BY DEF u_rotAccele
  <2> QED BY <2>1 DEF FullTurn, HalfTurn
<1>2. PICK x \in Int : x = d * a
  BY <1>1
<1>3. CASE x >= 0
  <2>1. x \div 7 \in 0 .. 12
    BY <1>1, <1>2, <1>3
  <2> QED BY <1>2, <1>3, <2>1 DEF Quotient, Radian, MaxSpin, FullTurn, u_rotAccele
<1>4. CASE x < 0
  <2>1. (-x) \div 7 \in 0 .. 12
    BY <1>1, <1>2, <1>4
  <2> QED BY <1>2, <1>4, <2>1 DEF Quotient, Radian, MaxSpin, FullTurn, u_rotAccele
<1> QED BY <1>3, <1>4

(* The spin goes by at most the acceleration, and towards what is steered for. *)
LEMMA SpinStep ==
  ASSUME NEW v \in -MaxSpin .. MaxSpin, NEW s \in -MaxSpin .. MaxSpin, NEW a \in 0 .. u_rotAccele
  PROVE  v + Between(-a, s - v, a) \in -MaxSpin .. MaxSpin
  BY DEF Between, MaxSpin, FullTurn, u_rotAccele, Radian

(* The spin is whole, which its bounds do not say.                             *)
MotionIInv == MotionInv /\ angularVelocity \in Int

(* A ship begins at rest,                                                      *)
LEMMA MotionStarts == InitMotion => MotionIInv
  BY DEF InitMotion, MotionIInv, MotionInv, MotionTypeOK, MatrixFresh, SpinBounded, MaxSpin,
         FullTurn, u_rotAccele, Radian

(* and what an update makes of its spin stays within the bound.                *)
LEMMA MotionStep == MotionIInv /\ [NextMotion]_motionVars => MotionIInv'
<1> SUFFICES ASSUME MotionIInv, [NextMotion]_motionVars PROVE MotionIInv'
  OBVIOUS
<1> DEFINE Patterns == {NONE} \cup {ALIGN(t, a) : t \in Targets, a \in LineRates}
<1>0. MaxSpin \in Int
  BY DEF MaxSpin, FullTurn, u_rotAccele, Radian
<1>1. /\ rotation \in 1 - FullTurn .. FullTurn - 1
      /\ matrix = rotation /\ ~isMatBad
      /\ angularVelocity \in -MaxSpin .. MaxSpin
      /\ navPattern \in Patterns
  BY <1>0 DEF MotionIInv, MotionInv, MotionTypeOK, MatrixFresh, SpinBounded
<1>2. ASSUME rotation' \in 1 - FullTurn .. FullTurn - 1, matrix' = rotation', ~isMatBad',
             angularVelocity' \in -MaxSpin .. MaxSpin, navPattern' \in Patterns
      PROVE  MotionIInv'
  BY <1>0, <1>2 DEF MotionIInv, MotionInv, MotionTypeOK, MatrixFresh, SpinBounded
<1>3. CASE Update
  <2>1. PICK r \in 1 - FullTurn .. FullTurn - 1 : r = RotScale(rotation + angularVelocity)
    <3>1. rotation + angularVelocity \in Int
      BY <1>0, <1>1 DEF FullTurn
    <3> QED BY <3>1, Scaled
  <2>2. Driven.rotation = r /\ Driven.matrix = r /\ ~Driven.bad
    <3>1. Turned = [rotation |-> r, matrix |-> rotation, bad |-> (r # rotation)]
      <4>1. Turned = [Handler EXCEPT !.rotation = r, !.bad = (r # rotation)]
        BY <2>1 DEF Turned, setRotation, Handler
      <4> QED BY <1>1, <4>1 DEF Handler
    <3>2. CASE r = rotation
      BY <3>1, <3>2 DEF Driven, getUTD
    <3>3. CASE r # rotation
      BY <3>1, <3>3 DEF Driven, getUTD
    <3> QED BY <3>2, <3>3
  <2>3. rotation' = r /\ matrix' = r /\ ~isMatBad'
    BY <1>3, <2>2 DEF Update, Set
  <2>4. angularVelocity' \in -MaxSpin .. MaxSpin
    <3>1. CASE navPattern.state # "ALIGN"
      BY <1>1, <1>3, <3>1 DEF Update, nav_update
    <3>2. CASE navPattern.state = "ALIGN"
      <4>1. PICK t \in Targets, a \in LineRates : navPattern = ALIGN(t, a)
        BY <1>1, <3>2 DEF NONE
      <4>2. /\ navPattern.targetRot = t /\ navPattern.rate = a
            /\ t \in Int /\ a \in 0 .. u_rotAccele
        BY <4>1, ShipMotionAssumption DEF ALIGN, HalfTurn
      <4>3. PICK d \in 1 - FullTurn .. HalfTurn : d = RotDiff(Driven.rotation, t)
        <5>1. Driven.rotation \in Int
          BY <2>2 DEF FullTurn
        <5> QED BY <4>2, <5>1, TurnBounded
      <4>4. PICK s \in -MaxSpin .. MaxSpin : s = Steered(Driven)
        BY <4>2, <4>3, SteeredBounded DEF Steered
      <4>5. angularVelocity' = angularVelocity + Between(-a, s - angularVelocity, a)
        BY <1>3, <3>2, <4>2, <4>4 DEF Update, nav_update
      <4> QED BY <1>1, <4>2, <4>4, <4>5, SpinStep
    <3> QED BY <3>1, <3>2
  <2>5. navPattern' = navPattern
    BY <1>3 DEF Update
  <2> QED BY <1>1, <1>2, <2>3, <2>4, <2>5
<1>4. ASSUME NEW t \in Targets, NEW a \in LineRates, setNavPattern(t, a) PROVE MotionIInv'
  <2>1. navPattern' \in Patterns
    BY <1>4 DEF setNavPattern
  <2> QED BY <1>1, <1>2, <1>4, <2>1 DEF setNavPattern
<1>5. CASE UNCHANGED motionVars
  BY <1>1, <1>2, <1>5 DEF motionVars
<1> QED BY <1>3, <1>4, <1>5 DEF NextMotion

(* Transform.hpp and processGrid: between two updates the matrix of a ship is  *)
(* that of its rotation, although the flag may be cleared while it is old, and *)
(* the spin stays within a full turn times u_rotAccele, whatever is drawn and  *)
(* whenever.                                                                   *)
THEOREM MotionHolds == SpecMotion => []MotionInv
<1>1. MotionIInv => MotionInv
  BY DEF MotionIInv
<1> QED BY <1>1, MotionStarts, MotionStep, PTL DEF SpecMotion

--------------------------------------------------------------------------------
(* The power plant.                                                            *)

(* The numbers that an update computes with.                                   *)
LEMMA PlantNumbers ==
  ASSUME PlantTypeOK
  PROVE  /\ maxGenerate \in Nat /\ maxConsumption \in Nat /\ fuel \in Nat /\ fuel <= MaxFuel
         /\ value \in Nat /\ capacity \in Nat
         /\ throttle_n \in Throttles /\ throttle_n_c \in Throttles
         /\ c_gen_n \in Nat /\ c_con_n \in Nat
<1>1. maxGenerate \in Rates \cup {0} /\ maxConsumption \in Rates \cup {0} /\ capacity \in Capacities \cup {0}
  BY DEF PlantTypeOK
<1>2. maxGenerate \in Nat /\ maxConsumption \in Nat /\ capacity \in Nat
  BY <1>1, PlantAssumption
<1>3. fuel \in Nat /\ fuel <= MaxFuel
  BY PlantAssumption DEF PlantTypeOK
<1> QED BY <1>2, <1>3 DEF PlantTypeOK

(* The curves give numbers.                                                    *)
LEMMA CurveTypes ==
  ASSUME NEW curve \in Curves \cup {Linear}, NEW r \in Throttles
  PROVE  evaluate(curve, r) \in Nat
<1>1. Linear \in [Throttles -> Nat]
  BY DEF Linear, Throttles
<1> QED BY <1>1, PlantAssumption DEF evaluate

(* An update computes with the cached output of the curves after it, and       *)
(* leaves the bank alone if that is full.                                      *)
LEMMA UpdateDoes ==
  ASSUME PlantTypeOK, NEW d \in Steps, update(d)
  PROVE  /\ throttle_n' = throttle_n /\ throttle_n_c' \in Throttles
         /\ c_gen_n' \in Nat /\ c_con_n' \in Nat
         /\ UNCHANGED settings
         /\ \/ isFull /\ UNCHANGED <<fuel, value, wrapped>>
            \/ \E v : /\ ~isFull /\ v = Filled(c_gen_n', c_con_n', d)
                      /\ value' = IF v > capacity THEN capacity ELSE v
                      /\ Burn(c_con_n', d, v)
         /\ \/ UNCHANGED cache
            \/ setThrottlePrecentage(throttle_n)
<1>1. UNCHANGED settings
  BY DEF update
<1>2. CASE throttle_n # throttle_n_c
  <2>1. setThrottlePrecentage(throttle_n)
    BY <1>2 DEF update
  <2>2. /\ c_gen_n' = evaluate(gen_g, throttle_n) /\ c_con_n' = evaluate(con_g, throttle_n)
        /\ throttle_n' = throttle_n /\ throttle_n_c' = throttle_n
    BY <2>1 DEF setThrottlePrecentage
  <2>3. c_gen_n' \in Nat /\ c_con_n' \in Nat
    BY <2>2, CurveTypes, PlantNumbers DEF PlantTypeOK
  <2>4. CASE isFull
    BY <1>1, <2>1, <2>2, <2>3, <2>4, PlantNumbers DEF update
  <2>5. CASE ~isFull
    <3>1. PICK v : v = Filled(evaluate(gen_g, throttle_n), evaluate(con_g, throttle_n), d)
      OBVIOUS
    <3>2. value' = (IF v > capacity THEN capacity ELSE v) /\ Burn(evaluate(con_g, throttle_n), d, v)
      BY <1>2, <2>5, <3>1 DEF update
    <3>3. v = Filled(c_gen_n', c_con_n', d) /\ Burn(c_con_n', d, v)
      BY <2>2, <3>1, <3>2
    <3> QED BY <1>1, <2>1, <2>2, <2>3, <2>5, <3>2, <3>3, PlantNumbers
  <2> QED BY <2>4, <2>5
<1>3. CASE throttle_n = throttle_n_c
  <2>1. UNCHANGED cache
    BY <1>3 DEF update
  <2>2. /\ c_gen_n' = c_gen_n /\ c_con_n' = c_con_n
        /\ throttle_n' = throttle_n /\ throttle_n_c' = throttle_n_c
    BY <2>1 DEF cache
  <2>3. CASE isFull
    BY <1>1, <2>1, <2>2, <2>3, PlantNumbers DEF update
  <2>4. CASE ~isFull
    <3>1. PICK v : v = Filled(c_gen_n, c_con_n, d)
      OBVIOUS
    <3>2. value' = (IF v > capacity THEN capacity ELSE v) /\ Burn(c_con_n, d, v)
      BY <1>3, <2>4, <3>1 DEF update
    <3>3. v = Filled(c_gen_n', c_con_n', d) /\ Burn(c_con_n', d, v)
      BY <2>2, <3>1, <3>2
    <3> QED BY <1>1, <2>1, <2>2, <2>4, <3>2, <3>3, PlantNumbers
  <2> QED BY <2>3, <2>4
<1> QED BY <1>2, <1>3

(* What is generated and consumed are whole quarters.                          *)
LEMMA Quarters ==
  ASSUME PlantTypeOK, NEW d \in Steps, NEW g \in Nat
  PROVE  Generated(g, d) \in Nat /\ Consumed(g, d) \in Nat /\ d \in Nat /\ d > 0
<1>1. d \in Nat /\ d > 0
  BY PlantAssumption
<1>2. g * maxGenerate \in Nat /\ g * maxConsumption \in Nat
  BY <1>1, PlantNumbers
<1> QED BY <1>1, <1>2 DEF Generated, Consumed

(* The bank gets at most what was generated, and only what there was fuel for. *)
LEMMA FilledBy ==
  ASSUME PlantTypeOK, NEW d \in Steps, NEW g \in Nat, NEW k \in Nat,
         NEW more, more = Filled(g, k, d) - value
  PROVE  /\ more \in Nat /\ Filled(g, k, d) \in Nat /\ Filled(g, k, d) = value + more
         /\ 4 * more <= Generated(g, d)
         /\ Consumed(k, d) > 4 * fuel => more * Consumed(k, d) <= Generated(g, d) * fuel
<1>1. PICK G \in Nat, C \in Nat : G = Generated(g, d) /\ C = Consumed(k, d)
  BY Quarters
<1>2. fuel \in Nat /\ value \in Nat
  BY PlantNumbers
<1>3. CASE C > 4 * fuel
  <2>1. Filled(g, k, d) = value + (G * fuel) \div C
    BY <1>1, <1>3 DEF Filled
  <2>2. PICK q : q = (G * fuel) \div C
    OBVIOUS
  <2>3. G * fuel \in Nat /\ C > 0
    BY <1>2, <1>3
  <2>4. q \in Nat /\ q * C <= G * fuel
    BY <2>2, <2>3
  <2>5. more = q
    BY <1>2, <2>1, <2>2, <2>4
  <2>6. 4 * q <= G
    <3>1. q * (4 * fuel) <= q * C
      BY <1>2, <1>3, <2>4
    <3>2. (4 * q) * fuel <= G * fuel
      BY <1>2, <2>3, <2>4, <3>1
    <3>3. CASE fuel = 0
      BY <1>2, <2>2, <2>3, <2>4, <3>3
    <3>4. CASE fuel # 0
      BY <1>2, <2>4, <3>2, <3>4
    <3> QED BY <3>3, <3>4
  <2> QED BY <1>1, <1>2, <2>1, <2>2, <2>4, <2>5, <2>6
<1>4. CASE ~(C > 4 * fuel)
  <2>1. Filled(g, k, d) = value + G \div 4
    BY <1>1, <1>4 DEF Filled
  <2>2. more = G \div 4
    BY <1>2, <2>1
  <2> QED BY <1>1, <1>2, <1>4, <2>1, <2>2
<1> QED BY <1>3, <1>4

(* The fuel only gets less, and stays within what there was.                   *)
LEMMA BurnDoes ==
  ASSUME PlantTypeOK, NEW d \in Steps, NEW k \in Nat, NEW v, Burn(k, d, v)
  PROVE  /\ fuel' \in Nat /\ fuel' <= fuel
         /\ wrapped' = wrapped \/ wrapped' = TRUE
         /\ Excess(v) = 0 => wrapped' = wrapped /\ 4 * fuel' <= 4 * fuel - Burned(k, d)
<1>1. PICK C \in Nat : C = Consumed(k, d)
  BY Quarters
<1>2. fuel \in Nat
  BY PlantNumbers
<1>3. PICK B \in Nat : B = Burned(k, d) /\ B <= 4 * fuel
  BY <1>1, <1>2 DEF Burned
<1>4. CASE B > 0 /\ Excess(v) > 1
  <2>1. wrapped' = TRUE /\ fuel' = fuel /\ Excess(v) # 0
    BY <1>3, <1>4 DEF Burn
  <2>2. fuel' \in Nat /\ fuel' <= fuel
    BY <1>2, <2>1
  <2> QED BY <2>1, <2>2, Zenon
<1>5. CASE ~(B > 0 /\ Excess(v) > 1)
  <2>1. fuel' = (4 * fuel - (IF Excess(v) = 0 THEN B ELSE 0)) \div 4 /\ wrapped' = wrapped
    BY <1>3, <1>5 DEF Burn
  <2>2. PICK b \in Nat : b = (IF Excess(v) = 0 THEN B ELSE 0) /\ b <= 4 * fuel
    BY <1>2, <1>3
  <2>3. fuel' = (4 * fuel - b) \div 4
    BY <2>1, <2>2
  <2>4. fuel' \in Nat /\ fuel' <= fuel /\ 4 * fuel' <= 4 * fuel - b
    BY <1>2, <2>2, <2>3
  <2> QED BY <1>3, <2>1, <2>2, <2>4
<1> QED BY <1>4, <1>5

(* Nothing is cached at first that the curves would not give,                  *)
LEMMA PlantStarts == InitPlant => PlantInv
<1> SUFFICES ASSUME InitPlant PROVE PlantInv
  OBVIOUS
<1>1. PlantTypeOK
  <2>1. /\ {throttle_n, throttle_n_c} \subseteq Throttles /\ {c_gen_n, c_con_n} \subseteq Nat
        /\ {gen_g, con_g} \subseteq Curves \cup {Linear} /\ fuel \in 0 .. MaxFuel
    BY PlantAssumption DEF InitPlant, Throttles
  <2>2. replaced \in BOOLEAN /\ wrapped \in BOOLEAN
    BY DEF InitPlant
  <2>3. /\ {maxGenerate, maxConsumption} \subseteq Rates \cup {0}
        /\ value \in Nat /\ capacity \in Capacities \cup {0}
    BY DEF InitPlant
  <2> QED BY <2>1, <2>2, <2>3 DEF PlantTypeOK
<1>2. CacheFollows
  BY DEF InitPlant, CacheFollows, evaluate, Linear, Throttles
<1> QED BY <1>1, <1>2 DEF PlantInv

(* and an update that finds the throttle moved caches anew.                    *)
LEMMA PlantStep == PlantInv /\ [NextPlant]_plantVars => PlantInv'
<1> SUFFICES ASSUME PlantInv, [NextPlant]_plantVars PROVE PlantInv'
  OBVIOUS
<1>1. PlantTypeOK /\ CacheFollows
  BY DEF PlantInv
<1>2. ASSUME UNCHANGED <<gen_g, con_g, c_gen_n, c_con_n, throttle_n_c, replaced>> PROVE CacheFollows'
  BY <1>1, <1>2 DEF CacheFollows, evaluate
<1>3. ASSUME NEW n, setThrottlePrecentage(n), UNCHANGED settings PROVE CacheFollows'
  BY <1>3 DEF CacheFollows, setThrottlePrecentage, settings, evaluate
<1>4. ASSUME NEW n \in Throttles, SetThrottle(n) PROVE PlantInv'
  <2>1. PlantTypeOK'
    <3>1. c_gen_n' \in Nat /\ c_con_n' \in Nat
      BY <1>1, <1>4, CurveTypes DEF SetThrottle, setThrottlePrecentage, PlantTypeOK
    <3> QED BY <1>1, <1>4, <3>1 DEF SetThrottle, setThrottlePrecentage, settings, PlantTypeOK
  <2> QED BY <1>3, <1>4, <2>1 DEF SetThrottle, PlantInv
<1>5. ASSUME NEW n \in Throttles, Slide(n) PROVE PlantInv'
  <2>1. PlantTypeOK'
    BY <1>1, <1>5 DEF Slide, settings, PlantTypeOK
  <2> QED BY <1>2, <1>5, <2>1 DEF Slide, settings, PlantInv
<1>6. ASSUME NEW g \in Curves, NEW k \in Curves, SetGradiants(g, k) PROVE PlantInv'
  <2>1. PlantTypeOK'
    BY <1>1, <1>6 DEF SetGradiants, PlantTypeOK
  <2> QED BY <1>6, <2>1 DEF SetGradiants, CacheFollows, PlantInv
<1>7. ASSUME NEW g \in Rates, NEW k \in Rates, NEW p \in Capacities, SetLimits(g, k, p) PROVE PlantInv'
  <2>1. PlantTypeOK'
    BY <1>1, <1>7 DEF SetLimits, cache, PlantTypeOK
  <2> QED BY <1>2, <1>7, <2>1 DEF SetLimits, cache, PlantInv
<1>8. ASSUME NEW n \in Capacities, Drain(n) PROVE PlantInv'
  <2>1. PlantTypeOK'
    BY <1>1, <1>8, PlantAssumption DEF Drain, cache, settings, PlantTypeOK
  <2> QED BY <1>2, <1>8, <2>1 DEF Drain, cache, settings, PlantInv
<1>9. ASSUME NEW d \in Steps, update(d) PROVE PlantInv'
  <2>1. CacheFollows'
    <3>1. CASE UNCHANGED cache
      BY <1>2, <1>9, <3>1 DEF cache, update, settings
    <3>2. CASE setThrottlePrecentage(throttle_n)
      BY <1>3, <1>9, <3>2 DEF update
    <3> QED BY <1>1, <1>9, <3>1, <3>2, UpdateDoes
  <2>2. {throttle_n', throttle_n_c'} \subseteq Throttles /\ {c_gen_n', c_con_n'} \subseteq Nat
    BY <1>1, <1>9, UpdateDoes, PlantNumbers
  <2>3. fuel' \in 0 .. MaxFuel /\ value' \in Nat /\ wrapped' \in BOOLEAN
    <3>1. CASE UNCHANGED <<fuel, value, wrapped>>
      BY <1>1, <3>1 DEF PlantTypeOK
    <3>2. ASSUME NEW v, v = Filled(c_gen_n', c_con_n', d),
                 value' = IF v > capacity THEN capacity ELSE v, Burn(c_con_n', d, v)
          PROVE  fuel' \in 0 .. MaxFuel /\ value' \in Nat /\ wrapped' \in BOOLEAN
      <4>1. PICK g \in Nat, k \in Nat : g = c_gen_n' /\ k = c_con_n'
        BY <2>2
      <4>2. v \in Nat
        BY <1>1, <3>2, <4>1, FilledBy
      <4>3. Burn(k, d, v)
        BY <3>2, <4>1
      <4>4. /\ fuel' \in Nat /\ fuel' <= fuel
            /\ wrapped' = wrapped \/ wrapped' = TRUE
        BY <1>1, <4>1, <4>3, BurnDoes
      <4>5. wrapped' \in BOOLEAN
        BY <1>1, <4>4, Zenon DEF PlantTypeOK
      <4>6. fuel' \in 0 .. MaxFuel /\ value' \in Nat
        BY <1>1, <3>2, <4>2, <4>4, PlantNumbers, PlantAssumption
      <4> QED BY <4>5, <4>6
    <3> QED BY <1>1, <1>9, <3>1, <3>2, UpdateDoes
  <2>4. /\ UNCHANGED settings /\ replaced' \in BOOLEAN
    <3>1. UNCHANGED cache \/ setThrottlePrecentage(throttle_n)
      BY <1>1, <1>9, UpdateDoes
    <3> QED BY <1>1, <1>9, <3>1 DEF update, cache, setThrottlePrecentage, PlantTypeOK
  <2>5. PlantTypeOK'
    BY <1>1, <2>2, <2>3, <2>4 DEF PlantTypeOK, settings
  <2> QED BY <2>1, <2>5 DEF PlantInv
<1>10. CASE UNCHANGED plantVars
  BY <1>1, <1>2, <1>10 DEF plantVars, PlantInv, PlantTypeOK
<1> QED BY <1>4, <1>5, <1>6, <1>7, <1>8, <1>9, <1>10 DEF NextPlant

(* The bank cannot be overrun by as much as maxGenerate: the division of       *)
(* integers has nothing to take off.                                           *)
LEMMA NoExcess ==
  ASSUME PlantTypeOK, NEW d \in Steps, NEW g \in Nat, NEW k \in Nat, g * d <= 4,
         ~isFull, NEW v, v = Filled(g, k, d)
  PROVE  Excess(v) = 0
<1>1. PICK more \in Nat : v = value + more /\ 4 * more <= Generated(g, d)
  BY FilledBy
<1>2. value \in Nat /\ capacity \in Nat /\ value < capacity /\ maxGenerate \in Nat
  BY PlantNumbers DEF isFull
<1>3. d \in Nat
  BY Quarters
<1>4. Generated(g, d) <= 4 * maxGenerate
  <2>1. PICK x \in Nat : x = g * d /\ x <= 4
    BY <1>3
  <2>2. x * maxGenerate <= 4 * maxGenerate
    BY <1>2, <2>1
  <2>3. Generated(g, d) = x * maxGenerate
    BY <1>2, <1>3, <2>1 DEF Generated
  <2> QED BY <2>2, <2>3
<1>5. more <= maxGenerate
  <2>1. Generated(g, d) \in Nat
    BY Quarters
  <2> QED BY <1>1, <1>2, <1>4, <2>1
<1>6. CASE v > capacity
  <2>1. PICK x \in Nat : x = v - capacity /\ x < maxGenerate
    BY <1>1, <1>2, <1>5, <1>6
  <2>2. x \div maxGenerate = 0
    BY <1>2, <2>1
  <2> QED BY <1>6, <2>1, <2>2 DEF Excess
<1> QED BY <1>6 DEF Excess

(* What is added is paid for.                                                  *)
LEMMA PowerIsPaid ==
  ASSUME PlantInv, ~wrapped, NEW d \in Steps, c_gen_n' * d <= 4, update(d)
  PROVE  /\ (value' - value) * c_con_n' * maxConsumption
              <= (fuel - fuel') * c_gen_n' * maxGenerate
         /\ value' > value => value' <= capacity
         /\ ~wrapped'
<1>1. PlantTypeOK
  BY DEF PlantInv
<1>2. PICK g \in Nat, k \in Nat : g = c_gen_n' /\ k = c_con_n'
  BY <1>1, UpdateDoes
<1>3. /\ value \in Nat /\ fuel \in Nat /\ capacity \in Nat
      /\ maxGenerate \in Nat /\ maxConsumption \in Nat
      /\ g \in Nat /\ k \in Nat /\ d \in Nat /\ d > 0
  BY <1>1, PlantNumbers, Quarters
<1>4. CASE UNCHANGED <<fuel, value, wrapped>>
  <2>1. fuel' = fuel /\ value' = value /\ ~wrapped'
    BY <1>4
  <2>2. value' - value = 0 /\ fuel - fuel' = 0 /\ ~(value' > value)
    BY <1>3, <2>1
  <2>3. 0 * k * maxConsumption = 0 /\ 0 * g * maxGenerate = 0
    BY <1>3
  <2> QED BY <1>2, <2>1, <2>2, <2>3
<1>5. ASSUME NEW v, ~isFull, v = Filled(g, k, d),
             value' = IF v > capacity THEN capacity ELSE v, Burn(k, d, v)
      PROVE  /\ (value' - value) * k * maxConsumption <= (fuel - fuel') * g * maxGenerate
             /\ value' <= capacity /\ ~wrapped'
  <2>1. Excess(v) = 0
    BY <1>1, <1>2, <1>5, NoExcess
  <2>2. fuel' \in Nat /\ fuel' <= fuel /\ ~wrapped' /\ 4 * fuel' <= 4 * fuel - Burned(k, d)
    BY <1>1, <1>5, <2>1, BurnDoes
  <2>3. PICK more \in Nat : /\ v = value + more /\ 4 * more <= Generated(g, d)
                            /\ Consumed(k, d) > 4 * fuel =>
                                 more * Consumed(k, d) <= Generated(g, d) * fuel
    BY <1>1, <1>5, FilledBy
  <2>4. PICK w \in Nat : w = value' - value /\ w <= more
    BY <1>3, <1>5, <2>3 DEF isFull
  <2>5. PICK u \in Nat : u = fuel - fuel' /\ Burned(k, d) <= 4 * u
    <3>1. Burned(k, d) \in Nat
      BY <1>1, <1>3, Quarters DEF Burned
    <3>2. PICK B \in Nat, f \in Nat : B = Burned(k, d) /\ f = fuel'
      BY <2>2, <3>1
    <3>3. f <= fuel /\ 4 * f <= 4 * fuel - B
      BY <2>2, <3>2
    <3>4. PICK u \in Nat : u = fuel - f
      BY <1>3, <3>3
    <3>5. B <= 4 * u
      BY <1>3, <3>3, <3>4
    <3> QED BY <3>2, <3>4, <3>5
  <2>6. PICK G \in Nat, K \in Nat : G = g * maxGenerate /\ K = k * maxConsumption
    BY <1>3
  <2>7. Generated(g, d) = G * d /\ Consumed(k, d) = K * d
    BY <2>6 DEF Generated, Consumed
  <2>8. w * K <= u * G
    <3>1. CASE K * d > 4 * fuel
      <4>1. fuel <= u
        BY <1>3, <2>5, <2>7, <3>1 DEF Burned
      <4>2. more * (K * d) <= (G * d) * fuel
        BY <2>3, <2>7, <3>1
      <4>3. (more * K) * d <= (G * fuel) * d
        BY <1>3, <4>2
      <4>4. more * K \in Nat /\ G * fuel \in Nat
        BY <1>3
      <4>5. more * K <= G * fuel
        BY <1>3, <4>3, <4>4
      <4>6. w * K <= more * K /\ G * fuel <= G * u /\ w * K \in Nat /\ G * u \in Nat
        BY <1>3, <2>4, <4>1
      <4> QED BY <4>4, <4>5, <4>6
    <3>2. CASE ~(K * d > 4 * fuel)
      <4>1. K * d <= 4 * u
        BY <1>3, <2>5, <2>7, <3>2 DEF Burned
      <4>2. 4 * w <= G * d
        BY <1>3, <2>3, <2>4, <2>7
      <4>3. K * d \in Nat /\ G * d \in Nat
        BY <1>3
      <4>4. (4 * w) * K <= (G * d) * K
        BY <4>2, <4>3
      <4>5. (K * d) * G <= (4 * u) * G
        BY <4>1, <4>3
      <4>6. (G * d) * K = (K * d) * G
        BY <1>3
      <4>7. w * K \in Nat /\ u * G \in Nat /\ (4 * w) * K = 4 * (w * K) /\ (4 * u) * G = 4 * (u * G)
        OBVIOUS
      <4> QED BY <4>3, <4>4, <4>5, <4>6, <4>7
    <3> QED BY <3>1, <3>2
  <2>9. (value' - value) * k * maxConsumption = w * K /\ (fuel - fuel') * g * maxGenerate = u * G
    BY <1>3, <2>4, <2>5, <2>6
  <2>10. value' <= capacity
    BY <1>3, <1>5, <2>3
  <2> QED BY <2>2, <2>8, <2>9, <2>10
<1> QED BY <1>1, <1>2, <1>4, <1>5, UpdateDoes

(* Generator.cpp: what is cached of the curves belongs to the throttle it is   *)
(* said to, however the slider, the setters and the updates interleave.        *)
THEOREM PlantHolds == SpecPlant => []PlantInv
  BY PlantStarts, PlantStep, PTL DEF SpecPlant

(* Generator.cpp: no update that generates at most maxGenerate adds to the     *)
(* bank what was not paid for in fuel, for any curves, capacities and rates.   *)
THEOREM PowerIsNotFree == SpecPlant => NoFreePower
<1>1. PlantInv /\ [NextPlant]_plantVars =>
        [\A d \in Steps :
           c_gen_n' * d <= 4 /\ update(d) =>
             /\ (value' - value) * c_con_n' * maxConsumption
                  <= (fuel - fuel') * c_gen_n' * maxGenerate
             /\ value' > value => value' <= capacity
             /\ ~wrapped']_plantVars
  BY PowerIsPaid DEF NextPlant
<1> QED BY <1>1, PlantHolds, PTL DEF SpecPlant, NoFreePower

--------------------------------------------------------------------------------
(* MCLifecycle: with the three side by side each keeps its invariant.          *)
LEMMA PartsStart == Init => MotionIInv /\ PlantInv /\ SessionIInv
  BY MotionStarts, PlantStarts, SessionStarts DEF Init

(* A step of one of them leaves the others as they are.                        *)
LEMMA PartsStep ==
  MotionIInv /\ PlantInv /\ SessionIInv /\ [Next]_mcVars => (MotionIInv /\ PlantInv /\ SessionIInv)'
<1>1. [Next]_mcVars =>
        [NextSession]_sessionVars /\ [NextMotion]_motionVars /\ [NextPlant]_plantVars
  BY DEF Next, OnlySession, OnlyMotion, In, mcVars
<1> QED BY <1>1, MotionStep, PlantStep, SessionStep

(* GameObject::Update and Generator::update, which processGrid calls in turn:  *)
(* what a ship keeps computed, its matrix and the output of its curves, is     *)
(* that of its rotation and its throttle.                                      *)
THEOREM ShipHolds == Spec => []ShipInv
<1>1. MotionIInv /\ PlantInv /\ SessionIInv => ShipInv
  BY DEF MotionIInv, ShipInv
<1> QED BY <1>1, PartsStart, PartsStep, PTL DEF Spec
================================================================================

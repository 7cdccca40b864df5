---------------------------- MODULE LoadDistribution ----------------------------
(***************************************************************************)
(* Loads::LoadDistributor (src/src/Game/ship/Loads.hpp, Loads.cpp): a      *)
(* multiset of weak pointers to load requests, ordered by the least amount *)
(* each needs, and the division of what is available among them.  The      *)
(* owners of the requests hold them, change them and drop them at any      *)
(* time; the distributor notices only when it walks its multiset.          *)
(*                                                                         *)
(* LoadUnit is an unsigned integer, so the share of a load is an integer   *)
(* division.  A request never asks for less than its least amount          *)
(* (Shapes), and is not added twice: nothing in the program does either.   *)
(***************************************************************************)
EXTENDS Integers, FiniteSets, SequencesExt

CONSTANTS
  Requests,     \* the load requests
  Shapes,       \* what a request may ask for: records of min and requested
  Amounts       \* what may be available

ASSUME ShapesAssumption ==
  /\ Shapes \subseteq [min : Nat, requested : Nat] /\ Shapes # {}
  /\ \A s \in Shapes : s.min <= s.requested
ASSUME AmountsAssumption == Amounts \subseteq Nat /\ Amounts # {}

VARIABLES
  shape,            \* min and requested of each LoadRequest
  received,         \* LoadRequest::received
  alive,            \* the requests whose owner still holds them
  loads,            \* _loads, in the order of the multiset
  total_requested, total_avaliable, total_used,
  changed,          \* whether an owner changed a request that is in _loads
  broken            \* undefined behaviour was met: nothing is known any more

loadVars == <<shape, received, alive, loads, total_requested, total_avaliable,
              total_used, changed, broken>>

MinOf(l) == shape[l].min
Extra(l) == shape[l].requested - shape[l].min

(* Altered form: the largest least amount comes first.                      *)
LessDescending(a, b) == a \in alive /\ (b \in alive => MinOf(a) > MinOf(b))
(* cmper: by least amount, a request that is gone after all others. *)
Less(a, b) == a \in alive /\ (b \in alive => MinOf(a) < MinOf(b))

(* Altered form: a load is put at the end.                                  *)
PlaceLast(l) == {Len(loads)}
(* The places at which the search of a multiset can end for l: not before a *)
(* request l is not less than, and before one it is less than.              *)
Places(l) == {p \in 0 .. Len(loads) :
                /\ p > 0 => ~Less(l, loads[p])
                /\ p < Len(loads) => Less(l, loads[p + 1])}

(* The first n of the numbers f, added up one after the other.              *)
Total(f, n) == LET sum[k \in 0 .. n] == IF k = 0 THEN 0 ELSE sum[k - 1] + f[k] IN sum[n]
Mins(s) == [i \in DOMAIN s |-> MinOf(s[i])]
Prefix(s, k) == SubSeq(s, 1, k)

(* Altered form: what is available is not looked at.                        *)
SupportedAll(s, n) == LET gone == {i \in 1 .. Len(s) : s[i] \notin alive}
                      IN  IF gone = {} THEN Len(s) ELSE Min(gone) - 1
(* How many requests, from the first on, get their least amount of n; the   *)
(* walk ends at the first that does not fit, or is gone.                    *)
Supported(s, n) ==
  CHOOSE k \in 0 .. Len(s) :
    /\ \A i \in 1 .. k : s[i] \in alive /\ MinOf(s[i]) < n - Total(Mins(s), i - 1)
    /\ k < Len(s) => ~(/\ s[k + 1] \in alive
                       /\ MinOf(s[k + 1]) < n - Total(Mins(s), k))

Served(s, n) == Prefix(s, Supported(s, n))
Extras(s, n) == Total([i \in DOMAIN s |-> Extra(s[i])], Supported(s, n))
(* Altered form: the operands are swapped.                                  *)
RemainingSwapped(s, n) == Total(Mins(s), Supported(s, n)) - n
Remaining(s, n) == n - Total(Mins(s), Supported(s, n))

(* What a served request receives: its least amount and an integer share. *)
Share(l, s, n) == MinOf(l) + (Extra(l) \div Extras(s, n)) * Remaining(s, n)
Used(s, n) == Total([i \in DOMAIN s |-> Share(s[i], s, n)], Supported(s, n))

(* setTotalAvaliable over the multiset s.  A request that is gone makes it  *)
(* call recalculate, which erases the element its own iterator stands on;   *)
(* with nothing extra asked for it divides by zero.                         *)
Distribute(s, n) ==
  LET k == Supported(s, n)
  IN  IF (k < Len(s) /\ s[k + 1] \notin alive) \/ (k > 0 /\ Extras(s, n) = 0)
      THEN broken' = TRUE /\ UNCHANGED <<received, total_avaliable, total_used>>
      ELSE /\ received' = [l \in Requests |-> IF l \in ToSet(Served(s, n))
                                              THEN Share(l, s, n) ELSE received[l]]
           /\ total_avaliable' = n
           /\ total_used' = Used(s, n)
           /\ UNCHANGED broken

(* recalculate erases everything from the first request that is gone on.    *)
Kept(s) == LET gone == {i \in 1 .. Len(s) : s[i] \notin alive}
           IN  IF gone = {} THEN s ELSE Prefix(s, Min(gone) - 1)

RecalculateOver(s) ==
  /\ loads' = Kept(s)
  /\ total_requested' = Total([i \in DOMAIN s |-> shape[s[i]].requested], Len(Kept(s)))
  /\ Distribute(Kept(s), total_avaliable)

(* The totals have no initialiser; total_avaliable is read before it is set *)
(* when a load is added first, and is then whatever was in memory.          *)
InitLoads ==
  /\ shape = [l \in Requests |-> CHOOSE s \in Shapes : TRUE]
  /\ received = [l \in Requests |-> 0]
  /\ alive = Requests
  /\ loads = <<>>
  /\ total_requested = 0
  /\ total_avaliable \in Amounts
  /\ total_used = 0
  /\ changed = FALSE
  /\ broken = FALSE

Insert(l, p) == Prefix(loads, p) \o <<l>> \o SubSeq(loads, p + 1, Len(loads))

addLoad(l) ==
  /\ l \in alive
  /\ l \notin ToSet(loads)
  /\ \E p \in Places(l) : RecalculateOver(Insert(l, p))
  /\ UNCHANGED <<shape, alive, changed>>

addLoadDontRecal(l) ==
  /\ l \notin ToSet(loads)
  /\ \E p \in Places(l) : loads' = Insert(l, p)
  /\ UNCHANGED <<shape, received, alive, total_requested, total_avaliable, total_used,
                 changed, broken>>

(* The loop goes on with the iterator it has just erased.                   *)
removeLoad(l) ==
  /\ \E i \in 1 .. Len(loads) : loads[i] = l \/ loads[i] \notin alive
  /\ broken' = TRUE
  /\ UNCHANGED <<shape, received, alive, loads, total_requested, total_avaliable,
                 total_used, changed>>

setTotalAvaliable(n) ==
  /\ Distribute(loads, n)
  /\ UNCHANGED <<shape, alive, loads, total_requested, changed>>

recalculate == RecalculateOver(loads) /\ UNCHANGED <<shape, alive, changed>>

(* The owners of the requests. *)
Ask(l, s) ==
  /\ l \in alive /\ s # shape[l]
  /\ shape' = [shape EXCEPT ![l] = s]
  /\ changed' = (changed \/ l \in ToSet(loads))
  /\ UNCHANGED <<received, alive, loads, total_requested, total_avaliable, total_used, broken>>

Drop(l) ==
  /\ l \in alive
  /\ alive' = alive \ {l}
  /\ UNCHANGED <<shape, received, loads, total_requested, total_avaliable, total_used,
                 changed, broken>>

NextLoads ==
  /\ ~broken
  /\ \/ \E l \in Requests :
          \/ addLoad(l)
          \/ addLoadDontRecal(l)
          \/ removeLoad(l)
          \/ Drop(l)
          \/ \E s \in Shapes : Ask(l, s)
     \/ \E n \in Amounts : setTotalAvaliable(n)
     \/ recalculate

SpecLoads == InitLoads /\ [][NextLoads]_loadVars

-----------------------------------------------------------------------------
LoadsTypeOK ==
  /\ shape \in [Requests -> Shapes]
  /\ received \in [Requests -> Nat]
  /\ alive \subseteq Requests
  /\ loads \in Seq(Requests)
  /\ {total_requested, total_avaliable, total_used} \subseteq Nat
  /\ changed \in BOOLEAN /\ broken \in BOOLEAN

(* What is said to be used never exceeds what is available; and since the   *)
(* share is an integer division, either one load gets all that is left or   *)
(* nobody gets anything beyond its least amount (Loads.cpp:67).             *)
AllOrNothing ==
  /\ total_used # 0 => total_used <= total_avaliable
  /\ \A n \in Amounts :
       Extras(Kept(loads), n) > 0 =>
         Used(Kept(loads), n) \in {n, Total(Mins(loads), Supported(Kept(loads), n))}

(* As long as no owner changes what it asks for, the multiset is ascending  *)
(* up to the first request that is gone, whatever is added in between; the  *)
(* walk that serves the smallest first relies on it.                        *)
Ascending == ~changed => \A i, j \in 1 .. Len(Kept(loads)) :
                            i < j => MinOf(loads[i]) <= MinOf(loads[j])

(* In that order no choice of requests could serve more of them: a set that *)
(* fits is not larger than the prefix the walk serves.                      *)
MostServed ==
  ~changed => \A n \in Amounts, S \in SUBSET DOMAIN Kept(loads) :
                Total([i \in DOMAIN loads |-> IF i \in S THEN MinOf(loads[i]) ELSE 0], Len(loads)) < n
                  => Cardinality(S) <= Supported(Kept(loads), n)

(* The distributor: the order of the loads, and who is served from what.    *)
LoadsInv == LoadsTypeOK /\ AllOrNothing /\ Ascending /\ MostServed
=============================================================================

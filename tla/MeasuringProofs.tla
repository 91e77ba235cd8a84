-------------------------- MODULE MeasuringProofs --------------------------
(***************************************************************************)
(* What the main loop believes of CAKE and of its reflectors, for every set *)
(* of rates, any number of sides and of reflectors, and any amount of       *)
(* interference: the rate it has in mind is CAKE's; the offences a slot is  *)
(* judged by are those of its window, whoever is silent is replaced in      *)
(* turn, what is learned of a reflector is not kept when it is, and the     *)
(* recent delay is the lower median of what the slots were answered.  And   *)
(* of the processes that ask them, for any number of children: none is lost *)
(* or left unwatched, and none that should run waits without a timer.       *)
(***************************************************************************)
EXTENDS Shaper, Reflectors, ChildPingers, FiniteSetTheorems, WellFoundedInduction,
        TLAPS

(* Shaper: the rates.                                                       *)

QdiscType == [id : Nat, rate : Nat]
CakeType == [valid : BOOLEAN, id : Nat, rate : Nat, seen : Nat, traffic : BOOLEAN]
ControlType == [rate : ShaperRates, pending : BOOLEAN]

\* Without interference since the last good read, belief and kernel agree, and
\* everything is typed.
ShaperInv ==
  /\ qdisc \in [Side -> QdiscType]
  /\ cake \in [Side -> CakeType]
  /\ control \in [Side -> ControlType]
  /\ touched \in [Side -> BOOLEAN]
  /\ BelievesCake

-----------------------------------------------------------------------------
\* Rates are natural numbers, and so is the mark of an unlimited qdisc.
LEMMA RatesAreNat == UNLIMITED \in Nat /\ ShaperRates \subseteq Nat
                     /\ ForeignRates \subseteq Nat /\ MinimumRate \in ShaperRates
  BY ShaperAssumption DEF UNLIMITED

\* The invariant holds when the shaper opens.
LEMMA ShaperInitInv == ShaperInit => ShaperInv
  BY RatesAreNat DEF ShaperInit, ShaperInv, QdiscType, CakeType, ControlType,
     BelievesCake, NO_QDISC

\* A change of the qdisc by others keeps the invariant.
LEMMA InterferenceInv ==
  ASSUME ShaperInv, NEW s \in Side, ChangedByOthers(s) \/ ReplacedByOthers(s)
  PROVE  ShaperInv'
  <1>1. touched' = [touched EXCEPT ![s] = TRUE] /\ UNCHANGED <<cake, control>>
    BY DEF ChangedByOthers, ReplacedByOthers
  <1>2. PICK rate \in ForeignRates :
          \/ qdisc' = [qdisc EXCEPT ![s].rate = rate]
          \/ qdisc' = [qdisc EXCEPT ![s] = [id |-> @.id + 1, rate |-> rate]]
    BY DEF ChangedByOthers, ReplacedByOthers
  <1>3. qdisc' \in [Side -> QdiscType] /\ \A t \in Side \ {s} : qdisc'[t] = qdisc[t]
    BY <1>2, RatesAreNat DEF ShaperInv, QdiscType
  <1>4. BelievesCake'
    BY <1>1, <1>3 DEF ShaperInv, BelievesCake
  <1> QED BY <1>1, <1>3, <1>4 DEF ShaperInv

\* An observation of the qdisc, complete or failed, keeps the invariant.
LEMMA ObserveInv ==
  ASSUME ShaperInv, NEW fails \in BOOLEAN, ObserveCake(fails)
  PROVE  ShaperInv'
  <1>1. /\ UNCHANGED <<qdisc, control>>
        /\ touched' = [s \in Side |-> touched[s] /\ fails]
        /\ cake' = [s \in Side |->
             IF fails THEN [cake[s] EXCEPT !.valid = FALSE, !.traffic = FALSE,
                                           !.seen = NO_QDISC]
             ELSE [valid |-> TRUE, id |-> qdisc[s].id, rate |-> qdisc[s].rate,
                   seen |-> qdisc[s].id, traffic |-> cake[s].seen = qdisc[s].id]]
    BY DEF ObserveCake
  <1>2. cake' \in [Side -> CakeType] /\ touched' \in [Side -> BOOLEAN]
    BY <1>1 DEF ShaperInv, CakeType, QdiscType, NO_QDISC
  <1>3. BelievesCake'
    BY <1>1 DEF ShaperInv, BelievesCake, CakeType
  <1> QED BY <1>1, <1>2, <1>3 DEF ShaperInv

\* A write, its readback and what is remembered of it, whatever goes wrong.
LEMMA ApplyInv ==
  ASSUME ShaperInv, NEW sides \in SUBSET Side, NEW desired \in [Side -> Nat],
         NEW outcome \in [Side -> Outcomes], Apply(sides, desired, outcome),
         control' \in [Side -> ControlType]
  PROVE  ShaperInv'
  <1> DEFINE written(s) == cake_set_bandwidth(qdisc[s], cake[s], desired[s], outcome[s])
             applied(s) == apply_bandwidth(written(s), cake[s], desired[s], outcome[s])
  <1>1. /\ qdisc' = [s \in Side |-> IF s \in sides THEN written(s) ELSE qdisc[s]]
        /\ cake' = [s \in Side |-> IF s \in sides THEN applied(s) ELSE cake[s]]
        /\ touched' = [s \in Side |->
             touched[s] \/ outcome[s].how \in {"UNREADABLE", "OVERTAKEN"}]
    BY DEF Apply
  <1>2. ASSUME NEW s \in Side
        PROVE  /\ written(s) \in QdiscType
               /\ applied(s) \in CakeType
               /\ applied(s).valid = cake[s].valid
               /\ outcome[s].how \in {"WRITTEN", "REFUSED"} =>
                    \/ /\ written(s) = qdisc[s] /\ applied(s).id = cake[s].id
                       /\ \/ applied(s).rate = cake[s].rate
                          \/ applied(s).rate = qdisc[s].rate
                    \/ /\ written(s).id = qdisc[s].id /\ applied(s).id = cake[s].id
                       /\ written(s).rate = applied(s).rate
    <2>1. qdisc[s] \in QdiscType /\ cake[s] \in CakeType /\ desired[s] \in Nat
      BY DEF ShaperInv
    <2>2. outcome[s].rate \in Nat
      BY RatesAreNat DEF Outcomes
    <2>3. \/ written(s) = qdisc[s]
          \/ /\ written(s) = [qdisc[s] EXCEPT !.rate = outcome[s].rate]
             /\ outcome[s].how = "OVERTAKEN"
          \/ /\ written(s) = [qdisc[s] EXCEPT !.rate = desired[s]]
             /\ outcome[s].how \notin {"REFUSED", "OVERTAKEN"} /\ qdisc[s].id = cake[s].id
      BY DEF cake_set_bandwidth
    <2>4. \/ applied(s) = cake[s]
             /\ (outcome[s].how = "WRITTEN" =>
                   written(s).id # cake[s].id \/ written(s).rate # desired[s])
          \/ applied(s) = [cake[s] EXCEPT !.rate = desired[s]]
             /\ written(s).rate = desired[s]
      BY DEF apply_bandwidth
    <2>5. written(s) \in QdiscType /\ written(s).id = qdisc[s].id
      BY <2>1, <2>2, <2>3 DEF QdiscType
    <2>6. applied(s) \in CakeType /\ applied(s).valid = cake[s].valid
          /\ applied(s).id = cake[s].id
      BY <2>1, <2>4 DEF CakeType
    <2> HIDE DEF written, applied
    <2> QED BY <2>1, <2>3, <2>4, <2>5, <2>6 DEF QdiscType, CakeType
  <1> HIDE DEF written, applied
  <1>3. /\ qdisc' \in [Side -> QdiscType] /\ cake' \in [Side -> CakeType]
        /\ touched' \in [Side -> BOOLEAN]
    BY <1>1, <1>2 DEF ShaperInv
  <1>4. BelievesCake'
    <2> SUFFICES ASSUME NEW s \in Side, cake'[s].valid, ~touched'[s]
                 PROVE  cake'[s].id = qdisc'[s].id /\ cake'[s].rate = qdisc'[s].rate
      BY DEF BelievesCake
    <2>1. ~touched[s] /\ outcome[s].how \in {"WRITTEN", "REFUSED"}
      BY <1>1 DEF Outcomes
    <2>2. cake[s].valid
      BY <1>1, <1>2
    <2>3. cake[s].id = qdisc[s].id /\ cake[s].rate = qdisc[s].rate
      BY <2>1, <2>2 DEF ShaperInv, BelievesCake
    <2> QED BY <1>1, <1>2, <2>1, <2>3
  <1> QED BY <1>3, <1>4 DEF ShaperInv

\* shaper_update keeps the invariant, whichever of its requests fail.
LEMMA ShaperUpdateInv ==
  ASSUME ShaperInv, NEW outcome \in [Side -> Outcomes], ShaperUpdate(outcome)
  PROVE  ShaperInv'
  <1>1. PICK rate \in [Side -> ShaperRates] :
          /\ control' = [s \in Side |->
               [rate |-> rate[s],
                pending |-> control[s].pending /\
                              ~(s \in AdjustedSides /\ input_valid(cake[s]))]]
          /\ Apply({s \in AdjustedSides : rate_changed(cake[s], control[s], rate[s])},
                   rate, outcome)
    BY DEF ShaperUpdate
  <1>2. control' \in [Side -> ControlType]
    BY <1>1 DEF ShaperInv, ControlType
  <1>3. rate \in [Side -> Nat]
    BY RatesAreNat
  <1>4. {s \in AdjustedSides : rate_changed(cake[s], control[s], rate[s])} \in SUBSET Side
    BY ShaperAssumption
  <1> QED BY <1>1, <1>2, <1>3, <1>4, ApplyInv

\* Enforcing the minimum keeps the invariant, whichever of its requests fail.
LEMMA EnforceMinimumInv ==
  ASSUME ShaperInv, NEW outcome \in [Side -> Outcomes], EnforceMinimum(outcome)
  PROVE  ShaperInv'
  <1>1. control' \in [Side -> ControlType]
    BY RatesAreNat DEF EnforceMinimum, ShaperInv, ControlType
  <1>2. Apply({s \in AdjustedSides : cake[s].valid}, [s \in Side |-> MinimumRate], outcome)
    BY DEF EnforceMinimum
  <1>3. {s \in AdjustedSides : cake[s].valid} \in SUBSET Side
    BY ShaperAssumption
  <1>4. [s \in Side |-> MinimumRate] \in [Side -> Nat]
    BY RatesAreNat
  <1> QED BY <1>1, <1>2, <1>3, <1>4, ApplyInv

-----------------------------------------------------------------------------
\* The invariant holds in every reachable state.
THEOREM ShaperInvariance == ShaperSpec => []ShaperInv
  <1>1. ShaperInv /\ [ShaperNext]_shaperVars => ShaperInv'
    <2> SUFFICES ASSUME ShaperInv, [ShaperNext]_shaperVars PROVE ShaperInv'
      OBVIOUS
    <2>1. CASE UNCHANGED shaperVars
      BY <2>1 DEF shaperVars, ShaperInv, BelievesCake
    <2> QED BY <2>1, InterferenceInv, ObserveInv, ShaperUpdateInv, EnforceMinimumInv
            DEF ShaperNext
  <1> QED BY ShaperInitInv, <1>1, PTL DEF ShaperSpec

\* Refused requests, readbacks that fail or do not match, replaced qdiscs and
\* writes to one side only never leave the daemon with a wrong rate in mind
\* (apply_bandwidth, links_observe).
THEOREM BeliefIsTrue == ShaperSpec => []BelievesCake
  <1>1. ShaperInv => BelievesCake
    BY DEF ShaperInv
  <1> QED BY <1>1, ShaperInvariance, PTL
-----------------------------------------------------------------------------
(* Reflectors: who is judged, and who is replaced.                           *)

Position == 0 .. DetectionWindow - 1
TrackerType == [baseline : [Way -> Int], delta_ewma : [Way -> Int]]
HealthType == [offences : [Position -> BOOLEAN], response_age : Int, index : Position,
               count : Nat]
ReflectorsType ==
  [order : [Reflector -> Reflector], trackers : [Reflector -> TrackerType],
   health : [Slot -> HealthType], replacement_age : Int, comparison_age : Int,
   grace : Int]

\* The order names each reflector once.
Permuted(r) == \A k, l \in Reflector : r.order[k] = r.order[l] => k = l

OffencesOf(h) == {k \in Position : h.offences[k]}
CountTrue(h) == h.count = Cardinality(OffencesOf(h))

Unlearned(r) ==
  ~RetainStats => \A k \in Standby : r.trackers[r.order[k]] = tracker_reset

SoundReflectors(r) ==
  /\ r \in ReflectorsType /\ Permuted(r) /\ Unlearned(r)
  /\ \A s \in Slot : CountTrue(r.health[s])

\* How many checks ago an entry of the window was written.
EntryAge(h, k) == IF k < h.index THEN h.index - k ELSE h.index + DetectionWindow - k

\* The last n checks were offences.
Trailing(h, n) == \A k \in Position : EntryAge(h, k) <= n => h.offences[k]

\* The slots before s that were replaced in the last turns, of which a slot that has
\* waited for as many has seen one in each.
FreshBefore(r, s, turns) == {b \in 1 .. s - 1 : r.health[b].count <= turns - 1}
TurnsOf(n) == n - DetectionThreshold + 1

\* What is true of slots that have failed as many checks in a row as q says.
SilenceSeen(r, q) ==
  ReflectorCount > ActiveCount =>
    \A s \in Slot :
      /\ Trailing(r.health[s], q[s])
      /\ s <= DetectionThreshold /\ q[s] >= DetectionThreshold =>
           Cardinality(FreshBefore(r, s, TurnsOf(q[s]))) >= TurnsOf(q[s])

ReflectorsInv ==
  /\ SoundReflectors(reflectors)
  /\ silent \in [Slot -> Nat]
  /\ SilenceSeen(reflectors, silent)

\* The bounds of the detection window and of the slots, as the proofs use them.
LEMMA Windows ==
  /\ DetectionWindow \in Nat \ {0} /\ DetectionThreshold \in Nat \ {0}
  /\ DetectionThreshold <= DetectionWindow
  /\ ActiveCount \in Nat \ {0} /\ ReflectorCount \in Nat /\ ActiveCount <= ReflectorCount
  /\ Slot \subseteq Reflector /\ Slot \subseteq Nat /\ 0 \in Position
  BY ReflectorsAssumption DEF Slot, Reflector, Position

\* Least(), of any set of natural numbers that is not empty.
LEMMA LeastIs ==
  ASSUME NEW T \in SUBSET Nat, T # {}
  PROVE  Least(T) \in T /\ \A w \in T : Least(T) <= w
  <1>1. PICK x \in T : \A y \in T : ~(<<y, x>> \in OpToRel(<, Nat))
    BY NatLessThanWellFounded, WFMin
  <1>2. \A y \in T : x <= y
    <2> SUFFICES ASSUME NEW y \in T PROVE x <= y
      OBVIOUS
    <2>1. x \in Nat /\ y \in Nat /\ ~(y < x)
      BY <1>1 DEF OpToRel
    <2> QED
      BY <2>1
  <1> QED
    BY <1>2 DEF Least

\* An index that comes round to zero after the last position.
LEMMA NextPosition ==
  ASSUME NEW k \in Position
  PROVE  (k + 1) % DetectionWindow = IF k + 1 = DetectionWindow THEN 0 ELSE k + 1
  <1>1. k \in Nat /\ k < DetectionWindow /\ DetectionWindow \in Nat \ {0}
    BY Windows DEF Position
  <1>2. CASE k + 1 = DetectionWindow
    BY <1>1, <1>2
  <1>3. CASE k + 1 < DetectionWindow
    BY <1>1, <1>3
  <1> QED
    BY <1>1, <1>2, <1>3

\* The offences of a window are a finite set of its positions.
LEMMA OffencesFinite ==
  ASSUME NEW h
  PROVE  IsFiniteSet(OffencesOf(h)) /\ Cardinality(OffencesOf(h)) \in Nat
         /\ OffencesOf(h) \subseteq Position
  <1>1. IsFiniteSet(Position) /\ OffencesOf(h) \in SUBSET Position
    BY Windows, FS_Interval DEF Position, OffencesOf
  <1>2. IsFiniteSet(OffencesOf(h))
    BY <1>1, FS_Subset
  <1> QED
    BY <1>1, <1>2, FS_CardinalityType

\* n failed checks in a row are n offences in the window, for any n that fits.
LEMMA TrailingCounted ==
  ASSUME NEW h \in HealthType, CountTrue(h), NEW n \in Nat, Trailing(h, n),
         NEW m \in Nat, m <= n, m <= DetectionWindow
  PROVE  m <= h.count
  <1> DEFINE i == h.index
  <1>1. i \in Nat /\ i <= DetectionWindow - 1 /\ DetectionWindow \in Nat
    BY Windows DEF HealthType, Position
  <1>2. \A k \in Position : EntryAge(h, k) <= m => k \in OffencesOf(h)
    <2> SUFFICES ASSUME NEW k \in Position, EntryAge(h, k) <= m
                 PROVE  EntryAge(h, k) <= n
      BY DEF Trailing, OffencesOf
    <2>1. EntryAge(h, k) \in Int
      BY <1>1 DEF EntryAge, Position
    <2> QED
      BY <2>1
  <1> HIDE DEF i
  <1>3. CASE m <= i
    <2> DEFINE T == (i - m) .. (i - 1)
    <2>1. \A k \in T : k \in Position /\ EntryAge(h, k) <= m
      BY <1>1, <1>3 DEF EntryAge, Position, i
    <2>2. T \in SUBSET OffencesOf(h)
      BY <1>2, <2>1
    <2>3. Cardinality(T) = m
      BY <1>1, <1>3, FS_Interval
    <2> HIDE DEF T
    <2>4. Cardinality(T) <= Cardinality(OffencesOf(h))
      BY <2>2, OffencesFinite, FS_Subset
    <2> QED
      BY <2>3, <2>4 DEF CountTrue
  <1>4. CASE m > i
    <2> DEFINE T == 0 .. (i - 1)
               U == (i + DetectionWindow - m) .. (DetectionWindow - 1)
    <2>1. \A k \in T : k \in Position /\ EntryAge(h, k) <= m
      BY <1>1, <1>4 DEF EntryAge, Position, i
    <2>2. \A k \in U : k \in Position /\ EntryAge(h, k) <= m
      BY <1>1, <1>4 DEF EntryAge, Position, i
    <2>3. T \cup U \in SUBSET OffencesOf(h)
      BY <1>2, <2>1, <2>2
    <2>4. T \cap U = {}
      BY <1>1, <1>4
    <2>5. /\ IsFiniteSet(T) /\ Cardinality(T) = i
          /\ IsFiniteSet(U) /\ Cardinality(U) = m - i
      <3>1. /\ IsFiniteSet(T) /\ Cardinality(T) = i
        BY <1>1, FS_Interval
      <3>2. i + DetectionWindow - m \in Int /\ DetectionWindow - 1 \in Int
        BY <1>1
      <3>3. /\ IsFiniteSet(U)
            /\ Cardinality(U) = IF i + DetectionWindow - m > DetectionWindow - 1 THEN 0
                                ELSE DetectionWindow - 1 - (i + DetectionWindow - m) + 1
        BY <3>2, FS_Interval
      <3> QED
        BY <1>1, <1>4, <3>1, <3>3
    <2> HIDE DEF T, U
    <2>6. Cardinality(T \cup U) = i + (m - i) - 0
      BY <2>4, <2>5, FS_Union, FS_EmptySet
    <2>7. Cardinality(T \cup U) <= Cardinality(OffencesOf(h))
      BY <2>3, OffencesFinite, FS_Subset
    <2> QED
      BY <1>1, <2>6, <2>7 DEF CountTrue
  <1> QED
    BY <1>1, <1>3, <1>4

\* reflector_health_check(): the entry that falls out of the window is taken off the
\* count, the new one is put on it.
LEMMA HealthChecked ==
  ASSUME NEW h \in HealthType, CountTrue(h), NEW r, r = reflector_health_check(h)
  PROVE  /\ r \in HealthType /\ CountTrue(r) /\ r.response_age = h.response_age
         /\ r.count <= h.count + 1
         /\ \A n \in Nat : Trailing(h, n) /\ h.response_age > ResponseDeadline =>
                             Trailing(r, n + 1)
  <1> DEFINE i == h.index
             offence == h.response_age > ResponseDeadline
             left == h.count - IF h.offences[i] THEN 1 ELSE 0
             count == left + IF offence THEN 1 ELSE 0
             offences == [h.offences EXCEPT ![i] = offence]
             next == (i + 1) % DetectionWindow
  <1>1. /\ i \in Position /\ h.count \in Nat /\ h.offences \in [Position -> BOOLEAN]
        /\ h.offences[i] \in BOOLEAN /\ h.response_age \in Int /\ ResponseDeadline \in Nat
    BY ReflectorsAssumption DEF HealthType
  <1>2. offence \in BOOLEAN
    BY <1>1
  <1>3. next = (IF i + 1 = DetectionWindow THEN 0 ELSE i + 1) /\ next \in Position
    <2>1. next = IF i + 1 = DetectionWindow THEN 0 ELSE i + 1
      BY <1>1, NextPosition
    <2> HIDE DEF next
    <2> QED
      BY <1>1, <2>1, Windows DEF Position
  <1>4. r = [h EXCEPT !.offences = offences, !.count = count, !.index = next]
    BY DEF reflector_health_check
  <1>5. (offence <=> h.response_age > ResponseDeadline) /\ next = next
    OBVIOUS
  <1> DEFINE old == OffencesOf(h)
             new == OffencesOf(r)
  <1>6. offences \in [Position -> BOOLEAN]
        /\ \A k \in Position : offences[k] = IF k = i THEN offence ELSE h.offences[k]
    BY <1>1, <1>2
  <1> HIDE DEF offence, offences, next
  <1>7. /\ IsFiniteSet(old) /\ Cardinality(old) \in Nat /\ Cardinality(old) = h.count
        /\ (i \in old <=> h.offences[i])
    BY <1>1, OffencesFinite DEF CountTrue, OffencesOf
  <1>8. /\ IsFiniteSet(old \ {i})
        /\ Cardinality(old \ {i}) = IF h.offences[i] THEN h.count - 1 ELSE h.count
        /\ IsFiniteSet((old \ {i}) \cup {i})
        /\ Cardinality((old \ {i}) \cup {i}) = Cardinality(old \ {i}) + 1
    <2>1. /\ IsFiniteSet(old \ {i})
          /\ Cardinality(old \ {i}) = IF i \in old THEN Cardinality(old) - 1
                                      ELSE Cardinality(old)
      BY <1>7, FS_RemoveElement
    <2>2. i \notin old \ {i}
      OBVIOUS
    <2>3. /\ IsFiniteSet((old \ {i}) \cup {i})
          /\ Cardinality((old \ {i}) \cup {i}) = Cardinality(old \ {i}) + 1
      BY <2>1, <2>2, FS_AddElement
    <2> QED
      BY <1>7, <2>1, <2>3
  <1>9. Cardinality(old \ {i}) \in Nat
    BY <1>8, FS_CardinalityType
  <1>10. left = Cardinality(old \ {i}) /\ left \in Nat
    BY <1>1, <1>8, <1>9
  <1> HIDE DEF left
  <1>11. count \in Nat /\ count <= h.count + 1
         /\ count = IF offence THEN left + 1 ELSE left
    BY <1>1, <1>2, <1>8, <1>10
  <1> HIDE DEF count
  <1>12. /\ r \in HealthType /\ r.offences = offences /\ r.count = count /\ r.index = next
         /\ r.response_age = h.response_age
    BY <1>3, <1>4, <1>6, <1>11 DEF HealthType
  <1>13. new = IF offence THEN (old \ {i}) \cup {i} ELSE old \ {i}
    BY <1>1, <1>2, <1>6, <1>12 DEF OffencesOf
  <1>14. CountTrue(r)
    BY <1>8, <1>10, <1>11, <1>12, <1>13, <1>2 DEF CountTrue
  <1>15. ASSUME NEW n \in Nat, Trailing(h, n), h.response_age > ResponseDeadline
         PROVE  Trailing(r, n + 1)
    <2> SUFFICES ASSUME NEW k \in Position, EntryAge(r, k) <= n + 1
                 PROVE  r.offences[k]
      BY DEF Trailing
    <2>1. CASE k = i
      BY <1>5, <1>6, <1>12, <1>15, <2>1
    <2>2. CASE k # i
      <3>1. EntryAge(h, k) \in Int /\ EntryAge(r, k) = EntryAge(h, k) + 1
        <4>1. k \in Nat /\ i \in Nat /\ k < DetectionWindow /\ i < DetectionWindow
              /\ DetectionWindow \in Nat
          BY <1>1, Windows DEF Position
        <4>2. r.index = IF i + 1 = DetectionWindow THEN 0 ELSE i + 1
          BY <1>3, <1>12
        <4>3. EntryAge(r, k) = IF k < r.index THEN r.index - k
                               ELSE r.index + DetectionWindow - k
          BY DEF EntryAge
        <4>4. EntryAge(h, k) = IF k < i THEN i - k ELSE i + DetectionWindow - k
          BY DEF EntryAge
        <4> HIDE DEF i
        <4> QED
          BY <2>2, <4>1, <4>2, <4>3, <4>4
      <3>2. EntryAge(h, k) <= n
        BY <3>1
      <3> QED
        BY <1>6, <1>12, <1>15, <2>2, <3>2 DEF Trailing
    <2> QED
      BY <2>1, <2>2
  <1> QED
    BY <1>11, <1>12, <1>14, <1>15

\* A window after a reset is empty.
LEMMA HealthReset ==
  ASSUME NEW age \in Int, NEW h, h = reflector_health_reset(age)
  PROVE  /\ h \in HealthType /\ CountTrue(h) /\ h.count = 0 /\ Trailing(h, 0)
  <1>1. /\ h.offences = [k \in Position |-> FALSE] /\ h.count = 0 /\ h.index = 0
        /\ h \in HealthType
    BY Windows DEF reflector_health_reset, HealthType, Position
  <1>2. OffencesOf(h) = {}
    BY <1>1 DEF OffencesOf
  <1>3. CountTrue(h)
    BY <1>1, <1>2, FS_EmptySet DEF CountTrue
  <1>4. Trailing(h, 0)
    <2>1. \A k \in Position : ~(EntryAge(h, k) <= 0)
      BY <1>1, Windows DEF EntryAge, Position
    <2> QED
      BY <2>1 DEF Trailing
  <1> QED
    BY <1>1, <1>3, <1>4

\* reflector_rotate(): the order still names each reflector once; only the slot has
\* another, which was waiting, and its reflector waits last.
LEMMA Rotated ==
  ASSUME ReflectorCount > ActiveCount, NEW order \in [Reflector -> Reflector],
         \A k, l \in Reflector : order[k] = order[l] => k = l,
         NEW slot \in Slot, NEW o, o = reflector_rotate(order, slot)
  PROVE  /\ o \in [Reflector -> Reflector]
         /\ \A k, l \in Reflector : o[k] = o[l] => k = l
         /\ \A s \in Slot \ {slot} : o[s] = order[s]
         /\ o[slot] # order[slot] /\ o[ReflectorCount] = order[slot]
         /\ \A k \in Standby \ {ReflectorCount} : o[k] = order[k + 1] /\ k + 1 \in Standby
  <1> DEFINE from(k) == IF k = slot THEN ActiveCount + 1
                        ELSE IF k = ReflectorCount THEN slot
                        ELSE IF k \in Standby /\ k < ReflectorCount THEN k + 1 ELSE k
  <1>1. ASSUME NEW k \in Reflector PROVE o[k] = order[from(k)]
    <2>1. o[k] = CASE k = slot -> order[ActiveCount + 1]
                   [] k = ReflectorCount -> order[slot]
                   [] k \in Standby /\ k < ReflectorCount -> order[k + 1]
                   [] OTHER -> order[k]
      BY DEF reflector_rotate
    <2>2. slot \notin Standby /\ slot # ReflectorCount
      BY Windows DEF Slot, Standby
    <2>3. CASE k = slot
      BY <2>1, <2>2, <2>3
    <2>4. CASE k = ReflectorCount
      BY <2>1, <2>2, <2>4, Windows
    <2>5. CASE k \in Standby /\ k < ReflectorCount
      <3>1. k # slot /\ k # ReflectorCount
        BY <2>2, <2>5 DEF Standby
      <3> QED
        BY <2>1, <2>5, <3>1
    <2>6. CASE k # slot /\ k # ReflectorCount /\ ~(k \in Standby /\ k < ReflectorCount)
      BY <2>1, <2>6
    <2> QED
      BY <2>3, <2>4, <2>5, <2>6
  <1>2. o = [k \in Reflector |-> o[k]]
    BY DEF reflector_rotate
  <1>3. \A k \in Reflector : from(k) \in Reflector
    BY Windows DEF Reflector, Slot, Standby
  <1>4. \A k, l \in Reflector : from(k) = from(l) => k = l
    BY Windows DEF Reflector, Slot, Standby
  <1>5. /\ from(slot) = ActiveCount + 1 /\ ActiveCount + 1 \in Reflector
        /\ ActiveCount + 1 # slot /\ slot \in Reflector
        /\ ReflectorCount \in Reflector /\ from(ReflectorCount) = slot
        /\ \A s \in Slot \ {slot} : from(s) = s /\ s \in Reflector
        /\ \A k \in Standby \ {ReflectorCount} :
             from(k) = k + 1 /\ k + 1 \in Standby /\ k \in Reflector
    BY Windows DEF Reflector, Slot, Standby
  <1> HIDE DEF from
  <1>6. o \in [Reflector -> Reflector]
    BY <1>1, <1>2, <1>3
  <1>7. \A k, l \in Reflector : o[k] = o[l] => k = l
    BY <1>1, <1>3, <1>4
  <1> QED
    BY <1>1, <1>5, <1>6, <1>7

\* The operators of the tracker keep its type.
LEMMA TrackersTyped ==
  /\ tracker_reset \in TrackerType
  /\ \A t \in TrackerType, d \in [Way -> Nat] :
       /\ tracker_update(t, d, FALSE).tracker \in TrackerType
       /\ tracker_update(t, d, FALSE).owd_delta \in [Way -> Int]
  /\ \A t \in TrackerType, d \in [Way -> Int], b \in BOOLEAN :
       tracker_update_delta_ewma(t, d, b) \in TrackerType
  <1>1. /\ InitialBaseline \in Nat /\ AlphaEwma \in Int /\ AlphaIncrease \in Int
        /\ AlphaDecrease \in Int /\ RATIO_ONE_E6 \in Nat \ {0}
        /\ I64_MAX \in Int /\ I64_MIN \in Int
    <2>1. U64_MAX \div 2 \in Int
      BY ArithAssumption
    <2> QED
      BY <2>1, TrackerAssumption, ArithAssumption DEF I64_MAX, I64_MIN
  <1>2. \A a, v, w \in Int : Averaged(a, v, w) \in Int
    <2> SUFFICES ASSUME NEW a \in Int, NEW v \in Int, NEW w \in Int
                 PROVE  Averaged(a, v, w) \in Int
      OBVIOUS
    <2> DEFINE x == a * v + (RATIO_ONE_E6 - a) * w
    <2>1. x \in Int
      BY <1>1
    <2>2. Averaged(a, v, w) = signed_rounded_divide(x, RATIO_ONE_E6) \/ Averaged(a, v, w) = v
      BY DEF Averaged
    <2> HIDE DEF x
    <2>3. signed_rounded_divide(x, RATIO_ONE_E6) \in Int
      BY <1>1, <2>1 DEF signed_rounded_divide
    <2> QED
      BY <2>2, <2>3
  <1>3. \A v, w \in Int : signed_difference(v, w) \in Int
    BY <1>1 DEF signed_difference, Saturated
  <1>4. tracker_reset \in TrackerType
    BY <1>1 DEF tracker_reset, TrackerType
  <1>5. ASSUME NEW t \in TrackerType, NEW d \in [Way -> Nat]
        PROVE  /\ tracker_update(t, d, FALSE).tracker \in TrackerType
               /\ tracker_update(t, d, FALSE).owd_delta \in [Way -> Int]
    <2> DEFINE moved == [w \in Way |-> MovedBaseline(t.baseline[w], d[w])]
               delta == [w \in Way |-> signed_difference(d[w], moved[w])]
               u == [t EXCEPT !.baseline = moved]
               updated == tracker_update(t, d, FALSE)
    <2>1. \A w \in Way : t.baseline[w] \in Int /\ d[w] \in Int
      BY DEF TrackerType
    <2>2. moved \in [Way -> Int]
      BY <1>1, <1>2, <2>1 DEF MovedBaseline
    <2>3. updated = [tracker |-> u, owd_delta |-> delta]
      BY DEF tracker_update, sample_has_timestamp_rollover
    <2> HIDE DEF moved
    <2>4. delta \in [Way -> Int]
      BY <1>3, <2>1, <2>2
    <2>5. u \in TrackerType
      BY <2>2 DEF TrackerType
    <2> HIDE DEF u, delta, updated
    <2>6. updated.tracker \in TrackerType /\ updated.owd_delta \in [Way -> Int]
      BY <2>3, <2>4, <2>5
    <2> QED
      BY <2>6, Zenon DEF updated
  <1>6. ASSUME NEW t \in TrackerType, NEW d \in [Way -> Int], NEW b \in BOOLEAN
        PROVE  tracker_update_delta_ewma(t, d, b) \in TrackerType
    <2> DEFINE averages == [w \in Way |-> Averaged(AlphaEwma, d[w], t.delta_ewma[w])]
    <2>1. averages \in [Way -> Int]
      BY <1>1, <1>2 DEF TrackerType
    <2>2. tracker_update_delta_ewma(t, d, b) \in {t, [t EXCEPT !.delta_ewma = averages]}
      BY DEF tracker_update_delta_ewma
    <2> HIDE DEF averages
    <2> QED
      BY <2>1, <2>2 DEF TrackerType
  <1> QED
    BY <1>4, <1>5, <1>6

\* replace_active_reflector(): the slot starts afresh, and the reflector that had it
\* waits without what was learned of it.
LEMMA Replaced ==
  ASSUME NEW r, SoundReflectors(r), NEW slot \in Slot,
         NEW n, n = replace_active_reflector(r, slot)
  PROVE  /\ SoundReflectors(n)
         /\ n.health[slot].count = 0 /\ Trailing(n.health[slot], 0)
         /\ \A s \in Slot \ {slot} : n.health[s] = r.health[s] /\ n.order[s] = r.order[s]
         /\ ReflectorCount > ActiveCount => n.order[slot] # r.order[slot]
  <1> DEFINE rotate == ReflectorCount > ActiveCount
             bad == r.order[slot]
             order == IF rotate THEN reflector_rotate(r.order, slot) ELSE r.order
             tracker == IF rotate /\ ~RetainStats THEN tracker_reset ELSE r.trackers[bad]
             trackers == [r.trackers EXCEPT ![bad] = tracker]
             fresh == reflector_health_reset(0)
             health == [r.health EXCEPT ![slot] = fresh]
  <1>1. /\ r \in ReflectorsType /\ Permuted(r) /\ Unlearned(r) /\ slot \in Reflector
        /\ r.order \in [Reflector -> Reflector] /\ r.trackers \in [Reflector -> TrackerType]
        /\ r.health \in [Slot -> HealthType] /\ \A s \in Slot : CountTrue(r.health[s])
    BY Windows DEF SoundReflectors, ReflectorsType
  <1>2. n = [r EXCEPT !.order = order, !.trackers = trackers, !.health = health]
    BY DEF replace_active_reflector
  <1>3. /\ fresh \in HealthType /\ CountTrue(fresh) /\ fresh.count = 0 /\ Trailing(fresh, 0)
    BY HealthReset
  <1> HIDE DEF fresh
  <1>4. /\ health \in [Slot -> HealthType] /\ health[slot] = fresh
        /\ \A s \in Slot \ {slot} : health[s] = r.health[s]
    BY <1>1, <1>3
  <1>5. bad \in Reflector /\ tracker \in TrackerType
    BY <1>1, TrackersTyped
  <1>6. tracker = IF rotate /\ ~RetainStats THEN tracker_reset ELSE r.trackers[bad]
    OBVIOUS
  <1>7. bad = r.order[slot]
    OBVIOUS
  <1> HIDE DEF bad, tracker
  <1>8. /\ trackers \in [Reflector -> TrackerType] /\ trackers[bad] = tracker
        /\ \A k \in Reflector \ {bad} : trackers[k] = r.trackers[k]
    BY <1>1, <1>5
  <1>9. /\ order \in [Reflector -> Reflector]
        /\ \A k, l \in Reflector : order[k] = order[l] => k = l
        /\ \A s \in Slot \ {slot} : order[s] = r.order[s]
        /\ rotate => /\ order[slot] # r.order[slot] /\ order[ReflectorCount] = r.order[slot]
                     /\ \A k \in Standby \ {ReflectorCount} :
                          order[k] = r.order[k + 1] /\ k + 1 \in Standby
        /\ ~rotate => order = r.order
    <2>1. CASE rotate
      <3>1. \A k, l \in Reflector : r.order[k] = r.order[l] => k = l
        BY <1>1 DEF Permuted
      <3>2. order = reflector_rotate(r.order, slot)
        BY <2>1
      <3> DEFINE was == r.order
      <3>3. was \in [Reflector -> Reflector] /\ was = r.order
        BY <1>1
      <3> HIDE DEF order, was
      <3>4. /\ order \in [Reflector -> Reflector]
            /\ \A k, l \in Reflector : order[k] = order[l] => k = l
            /\ \A s \in Slot \ {slot} : order[s] = was[s]
            /\ order[slot] # was[slot] /\ order[ReflectorCount] = was[slot]
            /\ \A k \in Standby \ {ReflectorCount} :
                 order[k] = was[k + 1] /\ k + 1 \in Standby
        BY <2>1, <3>1, <3>2, <3>3, Rotated
      <3> QED
        BY <2>1, <3>3, <3>4
    <2>2. CASE ~rotate
      BY <1>1, <2>2 DEF Permuted
    <2> QED
      BY <2>1, <2>2
  <1> HIDE DEF order, trackers, health
  <1>10. /\ n \in ReflectorsType /\ n.order = order /\ n.trackers = trackers
         /\ n.health = health
    BY <1>1, <1>2, <1>4, <1>8, <1>9 DEF ReflectorsType
  <1>11. Permuted(n)
    BY <1>9, <1>10 DEF Permuted
  <1>12. Unlearned(n)
    <2> SUFFICES ASSUME ~RetainStats, NEW k \in Standby
                 PROVE  trackers[order[k]] = tracker_reset
      BY <1>10 DEF Unlearned
    <2>1. \A l \in Standby : l \in Reflector /\ l # slot /\ r.trackers[r.order[l]] = tracker_reset
      BY <1>1, Windows DEF Unlearned, Standby, Reflector, Slot
    <2>2. \A l \in Standby : r.order[l] \in Reflector \ {bad}
      BY <1>1, <1>7, <2>1 DEF Permuted
    <2>3. CASE rotate /\ k = ReflectorCount
      BY <1>6, <1>7, <1>8, <1>9, <2>3
    <2>4. CASE rotate /\ k # ReflectorCount
      BY <1>8, <1>9, <2>1, <2>2, <2>4
    <2>5. CASE ~rotate
      BY <1>8, <1>9, <2>1, <2>2, <2>5
    <2> QED
      BY <2>3, <2>4, <2>5
  <1> QED
    BY <1>1, <1>3, <1>4, <1>9, <1>10, <1>11, <1>12 DEF SoundReflectors

\* Windows that hold the same offences at the same place.
SameWindows(n, r) ==
  \A s \in Slot : /\ n.health[s].offences = r.health[s].offences
                  /\ n.health[s].index = r.health[s].index
                  /\ n.health[s].count = r.health[s].count

\* A step that leaves order and trackers alone keeps the reflectors sound.
LEMMA OrderKept ==
  ASSUME NEW r, SoundReflectors(r), NEW n \in ReflectorsType, n.order = r.order,
         n.trackers = r.trackers, \A s \in Slot : CountTrue(n.health[s])
  PROVE  SoundReflectors(n)
  BY DEF SoundReflectors, Permuted, Unlearned

\* A step that leaves the windows alone keeps their counts.
LEMMA WindowsKept ==
  ASSUME NEW r, SoundReflectors(r), NEW n, SameWindows(n, r), NEW q, SilenceSeen(r, q)
  PROVE  (\A s \in Slot : CountTrue(n.health[s])) /\ SilenceSeen(n, q)
  <1>1. ASSUME NEW s \in Slot
        PROVE  /\ CountTrue(n.health[s])
               /\ Trailing(r.health[s], q[s]) => Trailing(n.health[s], q[s])
               /\ FreshBefore(n, s, TurnsOf(q[s])) = FreshBefore(r, s, TurnsOf(q[s]))
    <2>1. /\ n.health[s].offences = r.health[s].offences
          /\ n.health[s].index = r.health[s].index
          /\ n.health[s].count = r.health[s].count /\ CountTrue(r.health[s])
      BY DEF SameWindows, SoundReflectors
    <2>2. OffencesOf(n.health[s]) = OffencesOf(r.health[s])
      BY <2>1 DEF OffencesOf
    <2>3. \A b \in 1 .. s - 1 : n.health[b].count = r.health[b].count
      BY Windows DEF SameWindows, Slot
    <2> QED
      BY <2>1, <2>2, <2>3 DEF CountTrue, Trailing, EntryAge, FreshBefore
  <1> QED
    BY <1>1 DEF SilenceSeen

\* An age stays an integer.
LEMMA LaterTyped ==
  ASSUME NEW age \in Int, NEW limit \in Nat
  PROVE  Later(age, limit) \in Int
  BY DEF Later

\* The passing of time keeps the reflectors sound.
LEMMA Aged ==
  ASSUME NEW r, SoundReflectors(r), NEW q, SilenceSeen(r, q),
         NEW n, n = AgedReflectors(r)
  PROVE  SoundReflectors(n) /\ SilenceSeen(n, q) /\ n.order = r.order
  <1> DEFINE health == [s \in Slot |-> [r.health[s] EXCEPT
                                          !.response_age = Later(@, ResponseDeadline)]]
             replacement == Later(r.replacement_age, ReplacementInterval)
             comparison == Later(r.comparison_age, ComparisonInterval)
             grace == IF r.grace > 0 THEN r.grace - 1 ELSE 0
  <1>1. /\ r \in ReflectorsType /\ r.health \in [Slot -> HealthType]
        /\ r.replacement_age \in Int /\ r.comparison_age \in Int /\ r.grace \in Int
        /\ ResponseDeadline \in Nat /\ ReplacementInterval \in Nat
        /\ ComparisonInterval \in Nat
    BY ReflectorsAssumption DEF SoundReflectors, ReflectorsType
  <1>2. n = [r EXCEPT !.health = health, !.replacement_age = replacement,
                      !.comparison_age = comparison, !.grace = grace]
    BY DEF AgedReflectors
  <1>3. ASSUME NEW s \in Slot
        PROVE  /\ health[s] \in HealthType /\ health[s].offences = r.health[s].offences
               /\ health[s].index = r.health[s].index
               /\ health[s].count = r.health[s].count
    <2> DEFINE age == Later(r.health[s].response_age, ResponseDeadline)
    <2>1. r.health[s] \in HealthType /\ health[s] = [r.health[s] EXCEPT !.response_age = age]
      BY <1>1
    <2>2. age \in Int
      BY <1>1, <2>1, LaterTyped DEF HealthType
    <2> HIDE DEF age, health
    <2> QED
      BY <2>1, <2>2 DEF HealthType
  <1>4. health \in [Slot -> HealthType]
    BY <1>3
  <1>5. replacement \in Int /\ comparison \in Int /\ grace \in Int
    BY <1>1, LaterTyped
  <1> HIDE DEF health, replacement, comparison, grace
  <1>6. /\ n \in ReflectorsType /\ n.order = r.order /\ n.trackers = r.trackers
        /\ n.health = health
    BY <1>1, <1>2, <1>4, <1>5 DEF ReflectorsType
  <1>7. SameWindows(n, r)
    BY <1>3, <1>6 DEF SameWindows
  <1> QED
    BY <1>6, <1>7, WindowsKept, OrderKept

\* One judgement of all the slots adds at most one offence to each, and one to the
\* trail of each slot that failed.
LEMMA SlotsChecked ==
  ASSUME NEW r, SoundReflectors(r), NEW n, n = CheckedSlots(r)
  PROVE  /\ SoundReflectors(n) /\ n.order = r.order
         /\ \A s \in Slot :
              /\ n.health[s].count <= r.health[s].count + 1
              /\ \A m \in Nat : Trailing(r.health[s], m) /\ s \in Failed(r) =>
                                  Trailing(n.health[s], m + 1)
  <1> DEFINE health == [s \in Slot |-> reflector_health_check(r.health[s])]
  <1>1. r \in ReflectorsType /\ r.health \in [Slot -> HealthType]
        /\ \A s \in Slot : CountTrue(r.health[s])
    BY DEF SoundReflectors, ReflectorsType
  <1>2. ASSUME NEW s \in Slot
        PROVE  /\ health[s] \in HealthType /\ CountTrue(health[s])
               /\ health[s].count <= r.health[s].count + 1
               /\ \A m \in Nat : Trailing(r.health[s], m) /\ s \in Failed(r) =>
                                   Trailing(health[s], m + 1)
    <2>1. /\ health[s] = reflector_health_check(r.health[s]) /\ r.health[s] \in HealthType
          /\ s \in Failed(r) => r.health[s].response_age > ResponseDeadline
      BY <1>1 DEF Failed
    <2> HIDE DEF health
    <2> QED
      BY <1>1, <2>1, HealthChecked
  <1>3. health \in [Slot -> HealthType]
    BY <1>2
  <1>4. n = [r EXCEPT !.health = health]
    BY DEF CheckedSlots
  <1> HIDE DEF health
  <1>5. /\ n \in ReflectorsType /\ n.order = r.order /\ n.trackers = r.trackers
        /\ n.health = health
    BY <1>1, <1>3, <1>4 DEF ReflectorsType
  <1> QED
    BY <1>2, <1>5, OrderKept

\* Every window ends in a run of no offences or more.
LEMMA NothingTrails ==
  ASSUME NEW h \in HealthType
  PROVE  Trailing(h, 0)
  <1>1. \A k \in Position : ~(EntryAge(h, k) <= 0)
    BY Windows DEF EntryAge, Position, HealthType
  <1> QED
    BY <1>1 DEF Trailing

\* Fewer slots than its number come fresh before a slot.
LEMMA FreshFinite ==
  ASSUME NEW r, NEW s \in Slot, NEW w
  PROVE  /\ FreshBefore(r, s, w) \in SUBSET (1 .. s - 1)
         /\ IsFiniteSet(FreshBefore(r, s, w)) /\ Cardinality(FreshBefore(r, s, w)) \in Nat
         /\ Cardinality(FreshBefore(r, s, w)) <= s - 1
  <1>1. FreshBefore(r, s, w) \in SUBSET (1 .. s - 1)
    BY DEF FreshBefore
  <1>2. s \in Nat /\ s >= 1
    BY Windows DEF Slot
  <1>3. IsFiniteSet(1 .. s - 1) /\ Cardinality(1 .. s - 1) = s - 1
    BY <1>2, FS_Interval
  <1> QED
    BY <1>1, <1>3, FS_Subset, FS_CardinalityType

\* A replacement that no check called for.
LEMMA TurnGiven ==
  ASSUME NEW r, SoundReflectors(r), NEW q \in [Slot -> Nat], SilenceSeen(r, q),
         NEW slot \in Slot, NEW n, n = replace_active_reflector(r, slot),
         NEW p, \A s \in Slot : p[s] = IF n.order # r.order /\ n.order[s] # r.order[s]
                                       THEN 0 ELSE q[s]
  PROVE  SilenceSeen(n, p)
  <1> SUFFICES ASSUME ReflectorCount > ActiveCount, NEW s \in Slot
               PROVE  /\ Trailing(n.health[s], p[s])
                      /\ s <= DetectionThreshold /\ p[s] >= DetectionThreshold =>
                           Cardinality(FreshBefore(n, s, TurnsOf(p[s]))) >= TurnsOf(p[s])
    BY DEF SilenceSeen
  <1>1. /\ n.health[slot].count = 0 /\ Trailing(n.health[slot], 0)
        /\ \A t \in Slot \ {slot} : n.health[t] = r.health[t] /\ n.order[t] = r.order[t]
        /\ n.order[slot] # r.order[slot]
    BY Replaced
  <1>2. CASE s = slot
    <2>1. p[s] = 0
      BY <1>1, <1>2
    <2> QED
      BY <1>1, <1>2, <2>1, Windows
  <1>3. CASE s # slot
    <2>1. p[s] = q[s] /\ n.health[s] = r.health[s] /\ q[s] \in Nat
      BY <1>1, <1>3
    <2>2. /\ Trailing(r.health[s], q[s])
          /\ s <= DetectionThreshold /\ q[s] >= DetectionThreshold =>
               Cardinality(FreshBefore(r, s, TurnsOf(q[s]))) >= TurnsOf(q[s])
      BY DEF SilenceSeen
    <2> DEFINE w == TurnsOf(q[s])
               F == FreshBefore(r, s, w)
               G == FreshBefore(n, s, w)
    <2>3. ASSUME q[s] >= DetectionThreshold
          PROVE  F \in SUBSET G
      <3>1. w \in Nat /\ w >= 1
        BY <2>1, <2>3, Windows DEF TurnsOf
      <3>2. ASSUME NEW b \in F PROVE n.health[b].count <= w - 1
        <4>1. b \in Slot /\ r.health[b].count <= w - 1
          BY Windows DEF FreshBefore, Slot
        <4> QED
          BY <1>1, <3>1, <4>1
      <3> QED
        BY <3>2 DEF FreshBefore
    <2>4. q[s] >= DetectionThreshold => Cardinality(F) <= Cardinality(G)
      BY <2>3, FreshFinite, FS_Subset
    <2>5. w \in Int
      BY <2>1, Windows DEF TurnsOf
    <2>6. Cardinality(F) \in Nat /\ Cardinality(G) \in Nat
      BY FreshFinite
    <2> HIDE DEF F, G
    <2> QED
      BY <2>1, <2>2, <2>4, <2>5, <2>6 DEF F, G
  <1> QED
    BY <1>2, <1>3

\* A check: a slot that keeps waiting has seen another one before it replaced.
LEMMA TurnTaken ==
  ASSUME NEW d, SoundReflectors(d), NEW q \in [Slot -> Nat], SilenceSeen(d, q),
         NEW n, n = ReplacedSlots(CheckedSlots(d)),
         NEW p, \A s \in Slot : p[s] = IF n.order # d.order /\ n.order[s] # d.order[s]
                                       THEN 0 ELSE IF s \in Failed(d) THEN q[s] + 1 ELSE 0
  PROVE  SoundReflectors(n) /\ SilenceSeen(n, p)
  <1> DEFINE c == CheckedSlots(d)
             bad == {s \in Slot : misbehaving(c.health[s])}
             b == Least(bad)
  <1>1. /\ SoundReflectors(c) /\ c.order = d.order
        /\ \A s \in Slot :
             /\ c.health[s].count <= d.health[s].count + 1
             /\ \A m \in Nat : Trailing(d.health[s], m) /\ s \in Failed(d) =>
                                 Trailing(c.health[s], m + 1)
    BY SlotsChecked
  <1>2. n = IF bad = {} THEN c ELSE replace_active_reflector(c, b)
    BY DEF ReplacedSlots
  <1>3. bad # {} => b \in bad /\ \A s \in bad : b <= s
    BY LeastIs, Windows
  <1> HIDE DEF c
  <1>4. SoundReflectors(n)
    BY <1>1, <1>2, <1>3, Replaced
  <1>5. \A s \in Slot : c.health[s] \in HealthType /\ CountTrue(c.health[s])
    BY <1>1 DEF SoundReflectors, ReflectorsType
  <1>6. \A s \in Slot : d.health[s].count \in Nat /\ c.health[s].count \in Nat
    BY <1>5 DEF SoundReflectors, ReflectorsType, HealthType
  <1> HIDE DEF b
  <1>8. ASSUME bad # {}
        PROVE  /\ b \in Slot /\ b \in bad
               /\ n.health[b].count = 0 /\ Trailing(n.health[b], 0)
               /\ \A t \in Slot \ {b} : n.health[t] = c.health[t] /\ n.order[t] = c.order[t]
               /\ ReflectorCount > ActiveCount => n.order[b] # c.order[b]
    <2>1. n = replace_active_reflector(c, b) /\ b \in Slot /\ b \in bad
      BY <1>2, <1>3, <1>8
    <2> HIDE DEF bad
    <2> QED
      BY <1>1, <2>1, Replaced
  <1>7. SilenceSeen(n, p)
    <2> SUFFICES ASSUME ReflectorCount > ActiveCount, NEW s \in Slot
                 PROVE  /\ Trailing(n.health[s], p[s])
                        /\ s <= DetectionThreshold /\ p[s] >= DetectionThreshold =>
                             Cardinality(FreshBefore(n, s, TurnsOf(p[s]))) >= TurnsOf(p[s])
      BY DEF SilenceSeen
    <2>1. /\ q[s] \in Nat /\ Trailing(d.health[s], q[s])
          /\ s <= DetectionThreshold /\ q[s] >= DetectionThreshold =>
               Cardinality(FreshBefore(d, s, TurnsOf(q[s]))) >= TurnsOf(q[s])
      BY DEF SilenceSeen
    <2> DEFINE next == IF s \in Failed(d) THEN q[s] + 1 ELSE 0
    <2>2. Trailing(c.health[s], next) /\ next \in Nat
      BY <1>1, <1>5, <2>1, NothingTrails
    <2>3. next >= DetectionThreshold => s \in bad /\ next = q[s] + 1
      <3> SUFFICES ASSUME next >= DetectionThreshold
                   PROVE  s \in bad /\ next = q[s] + 1
        OBVIOUS
      <3>1. next = q[s] + 1
        BY Windows
      <3> HIDE DEF next
      <3>2. DetectionThreshold <= c.health[s].count
        BY <1>5, <2>2, TrailingCounted, Windows
      <3>3. c.health[s].count \in Nat /\ DetectionThreshold \in Nat
        BY <1>6, Windows
      <3> QED
        BY <3>1, <3>2, <3>3 DEF misbehaving
    <2>4. CASE bad = {}
      <3>1. n = c /\ p[s] = next
        BY <1>1, <1>2, <2>4
      <3> HIDE DEF next
      <3> QED
        BY <2>2, <2>3, <2>4, <3>1
    <2>5. CASE bad # {} /\ s = b
      <3>1. /\ Trailing(n.health[b], 0) /\ n.order[b] # c.order[b]
        BY <1>8, <2>5
      <3>2. p[s] = 0
        BY <1>1, <2>5, <3>1
      <3> QED
        BY <2>5, <3>1, <3>2, Windows
    <2>6. CASE bad # {} /\ s # b
      <3>1. /\ b \in Slot /\ b \in bad /\ n.health[b].count = 0
            /\ \A t \in Slot \ {b} : n.health[t] = c.health[t] /\ n.order[t] = c.order[t]
        BY <1>8, <2>6
      <3>2. p[s] = next /\ n.health[s] = c.health[s]
        BY <1>1, <2>6, <3>1
      <3> HIDE DEF next
      <3>3. ASSUME s <= DetectionThreshold, next >= DetectionThreshold
            PROVE  Cardinality(FreshBefore(n, s, TurnsOf(next))) >= TurnsOf(next)
        <4> DEFINE w == TurnsOf(q[s])
                   F == FreshBefore(d, s, w)
                   G == FreshBefore(n, s, w + 1)
        <4>1. b < s /\ b \in 1 .. s - 1 /\ s \in Nat /\ b \in Nat
          BY <1>3, <2>3, <2>6, <3>1, <3>3, Windows DEF Slot
        <4>2. TurnsOf(next) = w + 1 /\ w \in Nat
          BY <2>1, <2>3, <3>3, Windows DEF TurnsOf
        <4>3. b \in G
          BY <3>1, <4>1, <4>2 DEF FreshBefore
        <4>4. /\ IsFiniteSet(F) /\ Cardinality(F) \in Nat /\ Cardinality(F) <= s - 1
              /\ F \in SUBSET (1 .. s - 1)
              /\ IsFiniteSet(G) /\ Cardinality(G) \in Nat
          BY FreshFinite
        <4>5. CASE w = 0
          <5>1. {b} \in SUBSET G /\ Cardinality({b}) = 1
            BY <4>3, FS_Singleton
          <5>2. 1 <= Cardinality(G)
            BY <4>4, <5>1, FS_Subset
          <5> QED
            BY <4>2, <4>4, <4>5, <5>2
        <4>6. CASE w >= 1
          <5>1. Cardinality(F) >= w
            BY <2>1, <3>3, <4>2, <4>6, Windows DEF TurnsOf
          <5>2. w <= s - 1 /\ w < DetectionThreshold
            BY <3>3, <4>1, <4>2, <4>4, <5>1, Windows
          <5>3. ASSUME NEW x \in F
                PROVE  x \in G /\ x # b
            <6>1. x \in Slot /\ x \in 1 .. s - 1 /\ d.health[x].count <= w - 1
              BY Windows DEF FreshBefore, Slot
            <6>2. c.health[x].count <= w /\ c.health[x].count \in Nat
              BY <1>1, <1>6, <4>2, <6>1
            <6>3. x \notin bad
              BY <4>2, <5>2, <6>2, Windows DEF misbehaving
            <6>4. x # b /\ n.health[x] = c.health[x]
              BY <3>1, <6>1, <6>3
            <6> QED
              BY <4>2, <6>1, <6>2, <6>4 DEF FreshBefore
          <5>4. F \cup {b} \in SUBSET G /\ b \notin F
            BY <4>3, <5>3
          <5> HIDE DEF F, G
          <5>5. Cardinality(F \cup {b}) = Cardinality(F) + 1
            BY <4>4, <5>4, FS_AddElement
          <5>6. Cardinality(F \cup {b}) <= Cardinality(G)
            BY <4>4, <5>4, FS_Subset
          <5> QED
            BY <4>2, <4>4, <5>1, <5>5, <5>6 DEF G
        <4> QED
          BY <4>2, <4>5, <4>6
      <3> QED
        BY <2>2, <3>2, <3>3
    <2> QED
      BY <2>4, <2>5, <2>6
  <1> QED
    BY <1>4, <1>7

\* The worst slot is a slot, or none.
LEMMA WorstIsASlot ==
  ASSUME NEW trackers, NEW order
  PROVE  WorstSlot(trackers, order) \in {NO_SLOT} \cup Slot
  <1> DEFINE exceeding == {s \in Slot : Exceeds(trackers, order, s)}
  <1>1. WorstSlot(trackers, order) = IF exceeding = {} THEN NO_SLOT ELSE Least(exceeding)
    BY DEF WorstSlot
  <1>2. exceeding \in SUBSET Nat /\ exceeding \in SUBSET Slot
    BY Windows
  <1> HIDE DEF exceeding
  <1>3. exceeding # {} => Least(exceeding) \in Slot
    BY <1>2, LeastIs
  <1> QED
    BY <1>1, <1>3

\* The health timer keeps the invariant.
LEMMA HealthTimerInv ==
  ASSUME ReflectorsInv, NEW judged \in BOOLEAN, NEW chosen \in {NO_SLOT} \cup Slot,
         HealthTimer(judged, chosen)
  PROVE  ReflectorsInv'
  <1> DEFINE r == AgedReflectors(reflectors)
             x == IF ReplacementDue(r) THEN 0 ELSE r.replacement_age
             y == IF ComparisonDue(r) THEN 0 ELSE r.comparison_age
             due == [r EXCEPT !.replacement_age = x, !.comparison_age = y]
             scheduled == CASE ReplacementDue(r) -> chosen
                            [] ComparisonDue(r) -> WorstSlot(r.trackers, r.order)
                            [] OTHER -> NO_SLOT
             n == reflectors'
             p == silent'
  <1>1. /\ SoundReflectors(reflectors) /\ silent \in [Slot -> Nat]
        /\ SilenceSeen(reflectors, silent)
    BY DEF ReflectorsInv
  <1>2. SoundReflectors(r) /\ SilenceSeen(r, silent)
    BY <1>1, Aged
  <1>3. /\ n = CASE ~judged \/ r.grace > 0 -> r
                 [] judged /\ r.grace = 0 /\ scheduled # NO_SLOT ->
                      replace_active_reflector(due, scheduled)
                 [] OTHER -> ReplacedSlots(CheckedSlots(due))
        /\ p = [s \in Slot |->
             IF ~judged \/ r.grace > 0 THEN silent[s]
             ELSE IF n.order # r.order /\ n.order[s] # r.order[s] THEN 0
             ELSE IF scheduled # NO_SLOT THEN silent[s]
             ELSE IF s \in Failed(due) THEN silent[s] + 1 ELSE 0]
    BY DEF HealthTimer
  <1>4. r.grace = IF reflectors.grace > 0 THEN reflectors.grace - 1 ELSE 0
    BY <1>1 DEF AgedReflectors, SoundReflectors, ReflectorsType
  <1>5. r.grace \in Int /\ (~(r.grace > 0) => r.grace = 0)
    BY <1>1, <1>4 DEF SoundReflectors, ReflectorsType
  <1>6. scheduled \in {NO_SLOT} \cup Slot
    BY WorstIsASlot
  <1>7. x \in Int /\ y \in Int
    BY <1>2 DEF SoundReflectors, ReflectorsType
  <1> HIDE DEF r, x, y, scheduled
  <1>12. due = [r EXCEPT !.replacement_age = x, !.comparison_age = y]
    OBVIOUS
  <1> HIDE DEF due, n, p
  <1>8. SoundReflectors(due) /\ SilenceSeen(due, silent) /\ due.order = r.order
    <2>1. r \in ReflectorsType
      BY <1>2 DEF SoundReflectors
    <2>2. /\ due \in ReflectorsType /\ due.order = r.order /\ due.trackers = r.trackers
          /\ due.health = r.health
      BY <1>7, <1>12, <2>1 DEF ReflectorsType
    <2>3. SameWindows(due, r)
      BY <2>2 DEF SameWindows
    <2> QED
      BY <1>2, <2>2, <2>3, WindowsKept, OrderKept
  <1>9. CASE ~judged \/ r.grace > 0
    <2>1. n = r
      BY <1>3, <1>9
    <2>2. p = [s \in Slot |-> silent[s]]
      BY <1>3, <1>9
    <2>3. p = silent
      BY <1>1, <2>2
    <2>4. SoundReflectors(n) /\ p \in [Slot -> Nat] /\ SilenceSeen(n, p)
      BY <1>1, <1>2, <2>1, <2>3
    <2> QED
      BY <2>4 DEF ReflectorsInv, n, p
  <1>10. CASE judged /\ ~(r.grace > 0) /\ scheduled # NO_SLOT
    <2>1. n = replace_active_reflector(due, scheduled)
      BY <1>3, <1>5, <1>10
    <2>2. scheduled \in Slot
      BY <1>6, <1>10
    <2>3. \A s \in Slot : p[s] = IF n.order # r.order /\ n.order[s] # r.order[s]
                                 THEN 0 ELSE silent[s]
      BY <1>3, <1>10
    <2>4. SoundReflectors(n)
      BY <1>8, <2>1, <2>2, Replaced
    <2>5. SilenceSeen(n, p)
      BY <1>1, <1>8, <2>1, <2>2, <2>3, TurnGiven
    <2>6. DOMAIN p = Slot /\ p = [s \in Slot |-> p[s]]
      BY <1>3
    <2>7. p \in [Slot -> Nat]
      BY <1>1, <2>3, <2>6
    <2> QED
      BY <2>4, <2>5, <2>7 DEF ReflectorsInv, n, p
  <1>11. CASE judged /\ ~(r.grace > 0) /\ scheduled = NO_SLOT
    <2>1. n = ReplacedSlots(CheckedSlots(due))
      BY <1>3, <1>5, <1>11
    <2>2. \A s \in Slot : p[s] = IF n.order # r.order /\ n.order[s] # r.order[s]
                                 THEN 0 ELSE IF s \in Failed(due) THEN silent[s] + 1 ELSE 0
      BY <1>3, <1>11
    <2>3. SoundReflectors(n) /\ SilenceSeen(n, p)
      BY <1>1, <1>8, <2>1, <2>2, TurnTaken
    <2>4. DOMAIN p = Slot /\ p = [s \in Slot |-> p[s]]
      BY <1>3
    <2>5. \A s \in Slot : p[s] \in Nat
      BY <1>1, <2>2
    <2>6. p \in [Slot -> Nat]
      BY <2>4, <2>5
    <2> QED
      BY <2>3, <2>6 DEF ReflectorsInv, n, p
  <1> QED
    BY <1>9, <1>10, <1>11

\* An echo reply: its slot is heard, and its reflector's tracker learns.
LEMMA ReplyInv ==
  ASSUME ReflectorsInv, NEW slot \in Slot, NEW owd \in ReplyDelays, NEW age \in 0 .. 1,
         NEW low_load \in BOOLEAN, Reply(slot, owd, age, low_load)
  PROVE  ReflectorsInv'
  <1> DEFINE r == reflectors
             target == r.order[slot]
             delays == [w \in Way |-> owd]
             updated == tracker_update(r.trackers[target], delays, FALSE)
             learnt == tracker_update_delta_ewma(updated.tracker, updated.owd_delta, low_load)
             trackers == [r.trackers EXCEPT ![target] = learnt]
             heard == [r.health[slot] EXCEPT !.response_age = age]
             health == [r.health EXCEPT ![slot] = heard]
             n == reflectors'
             p == silent'
  <1>1. /\ SoundReflectors(r) /\ silent \in [Slot -> Nat] /\ SilenceSeen(r, silent)
        /\ r \in ReflectorsType /\ Permuted(r) /\ Unlearned(r)
        /\ r.order \in [Reflector -> Reflector] /\ r.trackers \in [Reflector -> TrackerType]
        /\ r.health \in [Slot -> HealthType] /\ \A s \in Slot : CountTrue(r.health[s])
        /\ slot \in Reflector
    BY Windows DEF ReflectorsInv, SoundReflectors, ReflectorsType
  <1>2. /\ n = [r EXCEPT !.trackers[target] = learnt, !.health[slot].response_age = age]
        /\ p = [silent EXCEPT ![slot] = 0]
    BY DEF Reply
  <1>3. target \in Reflector /\ r.trackers[target] \in TrackerType
    BY <1>1
  <1>4. delays \in [Way -> Nat]
    BY ReflectorsAssumption
  <1> HIDE DEF delays
  <1>5. updated.tracker \in TrackerType /\ updated.owd_delta \in [Way -> Int]
    BY <1>3, <1>4, TrackersTyped
  <1> HIDE DEF updated
  <1>6. learnt \in TrackerType
    BY <1>5, TrackersTyped
  <1>7. n = [r EXCEPT !.trackers = trackers, !.health = health]
    <2> HIDE DEF learnt, target
    <2> QED
      BY <1>2
  <1> HIDE DEF learnt
  <1>8. /\ heard \in HealthType /\ heard.offences = r.health[slot].offences
        /\ heard.index = r.health[slot].index /\ heard.count = r.health[slot].count
    <2>1. r.health[slot] \in HealthType /\ age \in Int
      BY <1>1
    <2> QED
      BY <2>1 DEF HealthType
  <1> HIDE DEF heard
  <1>9. /\ health \in [Slot -> HealthType]
        /\ \A s \in Slot : /\ health[s].offences = r.health[s].offences
                           /\ health[s].index = r.health[s].index
                           /\ health[s].count = r.health[s].count
    BY <1>1, <1>8
  <1>10. /\ trackers \in [Reflector -> TrackerType]
         /\ \A k \in Reflector : k # target => trackers[k] = r.trackers[k]
    BY <1>1, <1>3, <1>6
  <1> HIDE DEF trackers, health
  <1>11. /\ n \in ReflectorsType /\ n.order = r.order /\ n.trackers = trackers
         /\ n.health = health
    BY <1>1, <1>7, <1>9, <1>10 DEF ReflectorsType
  <1> HIDE DEF n
  <1>12. SameWindows(n, r)
    BY <1>9, <1>11 DEF SameWindows
  <1>13. (\A s \in Slot : CountTrue(n.health[s])) /\ SilenceSeen(n, silent)
    BY <1>1, <1>12, WindowsKept
  <1>14. Unlearned(n)
    <2> SUFFICES ASSUME ~RetainStats, NEW k \in Standby
                 PROVE  n.trackers[n.order[k]] = tracker_reset
      BY DEF Unlearned
    <2>1. k \in Reflector /\ k # slot
      BY Windows DEF Standby, Reflector, Slot
    <2>2. r.order[k] # target /\ r.order[k] \in Reflector
      BY <1>1, <2>1 DEF Permuted
    <2>3. r.trackers[r.order[k]] = tracker_reset
      BY <1>1 DEF Unlearned
    <2> QED
      BY <1>10, <1>11, <2>2, <2>3
  <1>15. SoundReflectors(n)
    BY <1>1, <1>11, <1>13, <1>14 DEF SoundReflectors, Permuted
  <1>16. p \in [Slot -> Nat] /\ \A s \in Slot : p[s] \in {silent[s], 0}
    BY <1>1, <1>2
  <1> HIDE DEF p
  <1>17. SilenceSeen(n, p)
    <2> SUFFICES ASSUME ReflectorCount > ActiveCount, NEW s \in Slot
                 PROVE  /\ Trailing(n.health[s], p[s])
                        /\ s <= DetectionThreshold /\ p[s] >= DetectionThreshold =>
                             Cardinality(FreshBefore(n, s, TurnsOf(p[s]))) >= TurnsOf(p[s])
      BY DEF SilenceSeen
    <2>1. CASE p[s] = silent[s]
      BY <1>13, <2>1 DEF SilenceSeen
    <2>2. CASE p[s] = 0
      <3>1. n.health[s] \in HealthType
        BY <1>11 DEF ReflectorsType
      <3> QED
        BY <2>2, <3>1, NothingTrails, Windows
    <2> QED
      BY <1>16, <2>1, <2>2
  <1> QED
    BY <1>15, <1>16, <1>17 DEF ReflectorsInv, n, p

\* The pingers resume, or are started anew: every slot is judged afresh.
LEMMA RestartedInv ==
  ASSUME ReflectorsInv, NEW grace \in {0, ReplyGrace}, Restarted(grace)
  PROVE  ReflectorsInv'
  <1> DEFINE r == reflectors
             fresh == reflector_health_reset(-grace)
             health == [s \in Slot |-> fresh]
             left == IF grace > 0 THEN grace ELSE r.grace
             n == reflectors'
             p == silent'
  <1>1. SoundReflectors(r) /\ r \in ReflectorsType /\ r.grace \in Int
    BY DEF ReflectorsInv, SoundReflectors, ReflectorsType
  <1>2. grace \in Int /\ -grace \in Int
    BY ReflectorsAssumption
  <1>3. fresh \in HealthType /\ CountTrue(fresh) /\ Trailing(fresh, 0)
    BY <1>2, HealthReset
  <1>4. n = [r EXCEPT !.health = health, !.grace = left] /\ p = [s \in Slot |-> 0]
    BY <1>1 DEF Restarted, reflectors_reset_health, ReflectorsType
  <1>5. left \in Int
    BY <1>1, <1>2
  <1> HIDE DEF fresh, left
  <1>6. health \in [Slot -> HealthType] /\ \A s \in Slot : health[s] = fresh
    BY <1>3
  <1> HIDE DEF health
  <1>7. /\ n \in ReflectorsType /\ n.order = r.order /\ n.trackers = r.trackers
        /\ n.health = health
    BY <1>1, <1>4, <1>5, <1>6 DEF ReflectorsType
  <1> HIDE DEF n
  <1>8. SoundReflectors(n)
    BY <1>1, <1>3, <1>6, <1>7, OrderKept
  <1>9. p \in [Slot -> Nat] /\ \A s \in Slot : p[s] = 0
    BY <1>4
  <1> HIDE DEF p
  <1>10. SilenceSeen(n, p)
    BY <1>3, <1>6, <1>7, <1>9, Windows DEF SilenceSeen
  <1> QED
    BY <1>8, <1>9, <1>10 DEF ReflectorsInv, n, p

\* The invariant holds when the first reflectors are chosen.
LEMMA ReflectorsStart == ReflectorsInit => ReflectorsInv
  <1> SUFFICES ASSUME ReflectorsInit PROVE ReflectorsInv
    OBVIOUS
  <1> DEFINE fresh == reflector_health_reset(0)
             trackers == [k \in Reflector |-> tracker_reset]
             health == [s \in Slot |-> fresh]
             r == reflectors
  <1>1. PICK order \in [Reflector -> Reflector] :
          /\ \A k, l \in Reflector : order[k] = order[l] => k = l
          /\ r = [order |-> order, trackers |-> trackers, health |-> health,
                  replacement_age |-> 0, comparison_age |-> 0, grace |-> 0]
    BY DEF ReflectorsInit, reflectors_start
  <1>2. fresh \in HealthType /\ CountTrue(fresh) /\ Trailing(fresh, 0)
    BY HealthReset
  <1> HIDE DEF fresh
  <1>3. trackers \in [Reflector -> TrackerType] /\ health \in [Slot -> HealthType]
    BY <1>2, TrackersTyped
  <1>4. /\ \A k \in Reflector : trackers[k] = tracker_reset
        /\ \A s \in Slot : health[s] = fresh
    <2> HIDE DEF r
    <2>1. \A k \in Reflector : trackers[k] = tracker_reset BY Zenon
    <2>2. \A s \in Slot : health[s] = fresh BY Zenon
    <2> QED BY <2>1, <2>2
  <1> HIDE DEF trackers, health, r
  <1>5. r \in ReflectorsType /\ r.order = order /\ r.trackers = trackers /\ r.health = health
    BY <1>1, <1>3 DEF ReflectorsType
  <1>6. Unlearned(r)
    <2>1. \A k \in Standby : order[k] \in Reflector
      BY Windows DEF Standby, Reflector
    <2> QED
      BY <1>4, <1>5, <2>1 DEF Unlearned
  <1>7. SoundReflectors(r)
    BY <1>1, <1>2, <1>4, <1>5, <1>6 DEF SoundReflectors, Permuted
  <1>8. silent \in [Slot -> Nat] /\ \A s \in Slot : silent[s] = 0
    BY DEF ReflectorsInit
  <1>9. SilenceSeen(r, silent)
    <2> SUFFICES ASSUME NEW s \in Slot
                 PROVE  /\ Trailing(r.health[s], silent[s])
                        /\ ~(silent[s] >= DetectionThreshold)
      BY DEF SilenceSeen
    <2>1. r.health[s] = fresh /\ silent[s] = 0 BY <1>4, <1>5, <1>8
    <2>2. DetectionThreshold \in Nat \ {0} BY Windows
    <2> QED BY <1>2, <2>1, <2>2
  <1> QED
    BY <1>7, <1>8, <1>9 DEF ReflectorsInv, r

\* Every step of the reflectors, and every stutter, keeps the invariant.
LEMMA ReflectorsStep == ReflectorsInv /\ [ReflectorsNext]_reflectorVars => ReflectorsInv'
  <1> SUFFICES ASSUME ReflectorsInv, [ReflectorsNext]_reflectorVars
               PROVE  ReflectorsInv'
    OBVIOUS
  <1>1. CASE \E judged \in BOOLEAN, chosen \in {NO_SLOT} \cup Slot :
               HealthTimer(judged, chosen)
    BY <1>1, HealthTimerInv
  <1>2. CASE \E slot \in Slot, owd \in ReplyDelays, age \in 0 .. 1, low_load \in BOOLEAN :
               Reply(slot, owd, age, low_load)
    BY <1>2, ReplyInv
  <1>3. CASE \E grace \in {0, ReplyGrace} : Restarted(grace)
    BY <1>3, RestartedInv
  <1>4. CASE UNCHANGED reflectorVars
    BY <1>4 DEF reflectorVars, ReflectorsInv
  <1> QED
    BY <1>1, <1>2, <1>3, <1>4 DEF ReflectorsNext

\* Each reflector is in the order once, a slot's count is that of the offences in its
\* window, and a slot that stays silent sees those before it replaced, one a check.
THEOREM ReflectorsInvariance == ReflectorsSpec => []ReflectorsInv
  BY ReflectorsStart, ReflectorsStep, PTL DEF ReflectorsSpec

-----------------------------------------------------------------------------
(* Reflectors: the recent delay.                                            *)

Delay == {NO_DELAY} \cup Nat
RecentType == [age : 0 .. 2, current : Nat, previous : Nat]

\* What a slot keeps of the replies that it had in this second and the last.
Remembers(kept, heard) ==
  CASE kept.age = 0 -> heard[1] = kept.current /\ Larger(heard[2], 0) = kept.previous
    [] kept.age = 1 -> heard[1] = NO_DELAY /\ heard[2] = kept.current
    [] OTHER -> heard[1] = NO_DELAY /\ heard[2] = NO_DELAY

DelaysInv ==
  /\ recent \in [Slot -> RecentType]
  /\ replies \in [Slot -> Delay \X Delay]
  /\ \A s \in Slot : Remembers(recent[s], replies[s])

\* A slot's value is the largest delay of its replies.
LEMMA ValueIsLargest ==
  ASSUME NEW kept \in RecentType, NEW heard \in Delay \X Delay, Remembers(kept, heard)
  PROVE  /\ recent_delay_value(kept) = Larger(heard[1], heard[2])
         /\ recent_delay_value(kept) \in Delay
  <1> DEFINE a == heard[1]
             b == heard[2]
             c == kept.current
             p == kept.previous
  <1>1. a \in Delay /\ b \in Delay /\ kept.age \in 0 .. 2 /\ c \in Nat /\ p \in Nat
    BY DEF RecentType
  <1> DEFINE none == NO_DELAY
  <1>2. none \in Int /\ none < 0 BY DEF NO_DELAY
  <1>3. /\ kept.age = 0 => a = c /\ Larger(b, 0) = p
        /\ kept.age = 1 => a = none /\ b = c
        /\ kept.age = 2 => a = none /\ b = none
    BY DEF Remembers
  <1>4. recent_delay_value(kept) =
          CASE kept.age = 0 -> IF c > p THEN c ELSE p
            [] kept.age = 1 -> c
            [] OTHER -> none
    BY DEF recent_delay_value
  <1>5. a \in {none} \cup Nat /\ b \in {none} \cup Nat BY <1>1 DEF Delay
  <1> HIDE DEF a, b, c, p, none
  <1>6. CASE kept.age = 0 BY <1>1, <1>2, <1>3, <1>4, <1>5, <1>6 DEF Larger, Delay, a, b
  <1>7. CASE kept.age = 1 BY <1>1, <1>2, <1>3, <1>4, <1>5, <1>7 DEF Larger, Delay, a, b
  <1>8. CASE kept.age = 2 BY <1>1, <1>2, <1>3, <1>4, <1>5, <1>8 DEF Larger, Delay, a, b, none
  <1> QED BY <1>1, <1>6, <1>7, <1>8

\* A reply of this second, or of the last while none of this has come, is remembered.
LEMMA AddedRemembered ==
  ASSUME NEW kept \in RecentType, NEW heard \in Delay \X Delay, Remembers(kept, heard),
         NEW age \in 0 .. 1, age <= kept.age, NEW delay \in Nat,
         NEW then, then = [heard EXCEPT ![age + 1] = Larger(@, delay)]
  PROVE  /\ recent_delay_add(kept, age, delay) \in RecentType /\ then \in Delay \X Delay
         /\ Remembers(recent_delay_add(kept, age, delay), then)
  <1> DEFINE a == heard[1]
             b == heard[2]
             c == kept.current
             p == kept.previous
             d == IF delay > c THEN delay ELSE c
             q == IF kept.age = age + 1 THEN c ELSE 0
             n == recent_delay_add(kept, age, delay)
  <1>1. a \in Delay /\ b \in Delay /\ kept.age \in 0 .. 2 /\ c \in Nat /\ p \in Nat
        /\ heard = <<a, b>>
    BY DEF RecentType
  <1>2. d \in Nat /\ q \in Nat BY <1>1
  <1>3. /\ kept.age = 0 => a = c /\ Larger(b, 0) = p
        /\ kept.age = 1 => a = NO_DELAY /\ b = c
        /\ kept.age = 2 => a = NO_DELAY /\ b = NO_DELAY
    BY DEF Remembers
  <1>4. \A x \in Delay : Larger(x, delay) \in Nat /\ Larger(NO_DELAY, delay) = delay
    BY DEF Larger, Delay, NO_DELAY
  <1>5. /\ n \in RecentType /\ n.age = age
        /\ n.current = IF age = kept.age THEN d ELSE delay
        /\ n.previous = IF age = kept.age THEN p ELSE q
    <2>1. CASE age = kept.age
      <3>1. n = [kept EXCEPT !.current = d] BY <2>1 DEF recent_delay_add
      <3> HIDE DEF d
      <3>2. /\ [kept EXCEPT !.current = d] \in RecentType
            /\ [kept EXCEPT !.current = d].age = kept.age
            /\ [kept EXCEPT !.current = d].current = d
            /\ [kept EXCEPT !.current = d].previous = kept.previous
        BY <1>2 DEF RecentType
      <3> HIDE DEF n
      <3> QED BY <2>1, <3>1, <3>2
    <2>2. CASE age # kept.age
      <3>1. n = [age |-> age, current |-> delay, previous |-> q]
        BY <2>2 DEF recent_delay_add
      <3> HIDE DEF q, n
      <3> QED BY <1>2, <2>2, <3>1 DEF RecentType
    <2> QED BY <2>1, <2>2
  <1> HIDE DEF n
  <1>6. CASE age = 0
    <2>1. then = <<Larger(a, delay), b>>
      BY <1>1, <1>6
    <2>2. then[1] = Larger(a, delay) /\ then[2] = b /\ then \in Delay \X Delay
      BY <1>1, <1>4, <2>1 DEF Delay
    <2>3. n.current = Larger(a, delay) /\ n.previous = Larger(b, 0)
      <3>1. CASE kept.age = 0
        <4>1. Larger(a, delay) = d BY <1>1, <1>3, <3>1 DEF Larger
        <4> QED BY <1>3, <1>5, <1>6, <3>1, <4>1
      <3>2. CASE kept.age = 1
        <4>1. Larger(b, 0) = c BY <1>1, <1>3, <3>2 DEF Larger
        <4> QED BY <1>3, <1>4, <1>5, <1>6, <3>2, <4>1 DEF Delay
      <3>3. CASE kept.age = 2
        <4>1. Larger(b, 0) = 0 BY <1>3, <3>3 DEF Larger, NO_DELAY
        <4> QED BY <1>3, <1>4, <1>5, <1>6, <3>3, <4>1 DEF Delay
      <3> QED BY <1>1, <3>1, <3>2, <3>3
    <2> QED BY <1>5, <1>6, <2>2, <2>3 DEF Remembers, n
  <1>7. CASE age = 1
    <2>1. then = <<a, Larger(b, delay)>>
      BY <1>1, <1>7
    <2>2. then[1] = a /\ then[2] = Larger(b, delay) /\ then \in Delay \X Delay
      BY <1>1, <1>4, <2>1 DEF Delay
    <2>3. a = NO_DELAY /\ n.current = Larger(b, delay)
      <3>1. CASE kept.age = 1
        <4>1. Larger(b, delay) = d BY <1>1, <1>3, <3>1 DEF Larger
        <4> QED BY <1>3, <1>5, <1>7, <3>1, <4>1
      <3>2. CASE kept.age = 2 BY <1>3, <1>4, <1>5, <1>7, <3>2 DEF Delay
      <3> QED BY <1>1, <1>7, <3>1, <3>2
    <2> QED BY <1>5, <1>7, <2>2, <2>3 DEF Remembers, n
  <1> QED BY <1>6, <1>7

\* Nothing is remembered for longer than the second after it.
LEMMA AgedRemembered ==
  ASSUME NEW kept \in RecentType, NEW heard \in Delay \X Delay, Remembers(kept, heard),
         NEW n, n = [kept EXCEPT !.age = Later(@, 1)],
         NEW then, then = <<NO_DELAY, heard[1]>>
  PROVE  n \in RecentType /\ then \in Delay \X Delay /\ Remembers(n, then)
  <1> DEFINE later == Later(kept.age, 1)
  <1>1. kept.age \in 0 .. 2 /\ kept.current \in Nat BY DEF RecentType
  <1>2. /\ later \in 1 .. 2 /\ (later = 1 <=> kept.age = 0)
    BY <1>1 DEF Later
  <1>3. n = [kept EXCEPT !.age = later] OBVIOUS
  <1> HIDE DEF later
  <1>4. n \in RecentType /\ n.age = later /\ n.current = kept.current
    BY <1>2, <1>3 DEF RecentType
  <1>5. then[1] = NO_DELAY /\ then[2] = heard[1] /\ then \in Delay \X Delay BY DEF Delay
  <1>6. kept.age = 0 => heard[1] = kept.current BY DEF Remembers
  <1>7. kept.age # 0 => heard[1] = NO_DELAY BY <1>1 DEF Remembers
  <1> QED BY <1>2, <1>4, <1>5, <1>6, <1>7 DEF Remembers

\* No replies are remembered at first.
LEMMA DelaysStart == ReflectorsInit => DelaysInv
  BY DEF ReflectorsInit, DelaysInv, RecentType, Delay, Remembers, NO_DELAY

\* Neither a reply, a second that passes nor a restart makes it forget or invent one.
LEMMA DelaysStep ==
  ReflectorsInv /\ DelaysInv /\ [ReflectorsNext]_reflectorVars => DelaysInv'
  <1> SUFFICES ASSUME ReflectorsInv, DelaysInv, [ReflectorsNext]_reflectorVars
               PROVE  DelaysInv'
    OBVIOUS
  <1>1. /\ recent \in [Slot -> RecentType] /\ replies \in [Slot -> Delay \X Delay]
        /\ \A s \in Slot : Remembers(recent[s], replies[s])
    BY DEF DelaysInv
  <1>2. ASSUME NEW judged \in BOOLEAN, NEW chosen \in {NO_SLOT} \cup Slot,
               HealthTimer(judged, chosen)
        PROVE  DelaysInv'
    <2>1. /\ recent' = [s \in Slot |-> [recent[s] EXCEPT !.age = Later(@, 1)]]
          /\ replies' = [s \in Slot |-> <<NO_DELAY, replies[s][1]>>]
      BY <1>2 DEF HealthTimer, AgedDelays
    <2>2. \A s \in Slot : /\ recent'[s] \in RecentType
                          /\ replies'[s] \in Delay \X Delay
                          /\ Remembers(recent'[s], replies'[s])
      <3> SUFFICES ASSUME NEW s \in Slot
                   PROVE  /\ recent'[s] \in RecentType
                          /\ replies'[s] \in Delay \X Delay
                          /\ Remembers(recent'[s], replies'[s])
        OBVIOUS
      <3>1. /\ recent'[s] = [recent[s] EXCEPT !.age = Later(@, 1)]
            /\ replies'[s] = <<NO_DELAY, replies[s][1]>>
        BY <2>1
      <3>2. /\ recent[s] \in RecentType /\ replies[s] \in Delay \X Delay
            /\ Remembers(recent[s], replies[s])
        BY <1>1
      <3> QED BY <3>1, <3>2, AgedRemembered
    <2> QED BY <2>1, <2>2 DEF DelaysInv
  <1>3. ASSUME NEW slot \in Slot, NEW owd \in ReplyDelays, NEW age \in 0 .. 1,
               NEW low_load \in BOOLEAN, Reply(slot, owd, age, low_load)
        PROVE  DelaysInv'
    <2> DEFINE target == reflectors.order[slot]
               delays == [w \in Way |-> owd]
               updated == tracker_update(reflectors.trackers[target], delays, FALSE)
               delta == updated.owd_delta["download"] + updated.owd_delta["upload"]
               added == Larger(delta, 0)
               kept == recent_delay_add(recent[slot], age, added)
               then == [replies[slot] EXCEPT ![age + 1] = Larger(@, added)]
    <2>1. /\ age <= recent[slot].age
          /\ recent' = [recent EXCEPT ![slot] = kept]
          /\ replies' = [replies EXCEPT ![slot] = then]
      BY <1>3 DEF Reply
    <2>2. added \in Nat
      <3>1. /\ reflectors.trackers[target] \in TrackerType /\ delays \in [Way -> Nat]
        BY Windows, ReflectorsAssumption DEF ReflectorsInv, SoundReflectors, ReflectorsType
      <3> HIDE DEF delays, target
      <3>2. updated.owd_delta \in [Way -> Int] BY <3>1, TrackersTyped
      <3> HIDE DEF updated
      <3>3. delta \in Int BY <3>2 DEF Way
      <3> HIDE DEF delta
      <3> QED BY <3>3 DEF Larger
    <2> HIDE DEF added
    <2>3. kept \in RecentType /\ then \in Delay \X Delay /\ Remembers(kept, then)
      <3>1. /\ recent[slot] \in RecentType /\ replies[slot] \in Delay \X Delay
            /\ Remembers(recent[slot], replies[slot])
        BY <1>1
      <3> QED BY <2>1, <2>2, <3>1, AddedRemembered
    <2> HIDE DEF kept, then
    <2> QED BY <1>1, <2>1, <2>3 DEF DelaysInv
  <1>4. ASSUME NEW grace \in {0, ReplyGrace}, Restarted(grace) PROVE DelaysInv'
    BY <1>4 DEF Restarted, DelaysInv
  <1>5. CASE UNCHANGED reflectorVars BY <1>5 DEF reflectorVars, DelaysInv
  <1> QED BY <1>2, <1>3, <1>4, <1>5 DEF ReflectorsNext

\* Those before s in H, ordered by their values and then by number.
Before(H, v, s) == {t \in H : v[t] < v[s] \/ (v[t] = v[s] /\ t < s)}

\* Of finitely many, one is in each position.
LEMMA PositionsTaken ==
  ASSUME NEW H \in SUBSET Int, IsFiniteSet(H), NEW v \in [H -> Int],
         NEW k \in 0 .. Cardinality(H) - 1
  PROVE  \E s \in H : Cardinality(Before(H, v, s)) = k
  <1> DEFINE before == [s \in H |-> Before(H, v, s)]
             n == Cardinality(H)
             T == 0 .. n - 1
             f == [s \in H |-> Cardinality(before[s])]
  <1>1. n \in Nat BY FS_CardinalityType
  <1>2. before = [s \in H |-> {t \in H : v[t] < v[s] \/ (v[t] = v[s] /\ t < s)}]
    BY DEF Before
  <1> HIDE DEF before
  <1>3. \A s \in H : /\ before[s] \in SUBSET H /\ s \notin before[s]
                     /\ IsFiniteSet(before[s]) /\ Cardinality(before[s]) \in Nat
    <2> SUFFICES ASSUME NEW s \in H
                 PROVE  /\ before[s] \in SUBSET H /\ s \notin before[s]
                        /\ IsFiniteSet(before[s]) /\ Cardinality(before[s]) \in Nat
      OBVIOUS
    <2>1. before[s] \in SUBSET H /\ s \notin before[s] BY <1>2
    <2>2. IsFiniteSet(before[s]) BY <2>1, FS_Subset
    <2> QED BY <2>1, <2>2, FS_CardinalityType
  <1>4. ASSUME NEW s \in H, NEW t \in H, s \in before[t]
        PROVE  Cardinality(before[s]) < Cardinality(before[t])
    <2>1. \A u \in before[s] : u \in before[t]
      <3> SUFFICES ASSUME NEW u \in before[s] PROVE u \in before[t] OBVIOUS
      <3>1. u \in H /\ (v[u] < v[s] \/ (v[u] = v[s] /\ u < s)) BY <1>2
      <3>2. v[s] < v[t] \/ (v[s] = v[t] /\ s < t) BY <1>2, <1>4
      <3>3. v[u] \in Int /\ v[s] \in Int /\ v[t] \in Int /\ u \in Int /\ s \in Int /\ t \in Int
        BY <3>1
      <3>4. v[u] < v[t] \/ (v[u] = v[t] /\ u < t) BY <3>1, <3>2, <3>3
      <3> QED BY <1>2, <3>1, <3>4
    <2>2. before[s] \in SUBSET (before[t] \ {s}) BY <1>3, <2>1
    <2>3. /\ IsFiniteSet(before[t] \ {s})
          /\ Cardinality(before[t] \ {s}) = Cardinality(before[t]) - 1
      BY <1>3, <1>4, FS_RemoveElement
    <2>4. Cardinality(before[s]) <= Cardinality(before[t] \ {s})
      BY <2>2, <2>3, FS_Subset
    <2> QED BY <1>3, <2>3, <2>4
  <1>5. \A s \in H : f[s] \in T
    <2> SUFFICES ASSUME NEW s \in H PROVE Cardinality(before[s]) \in T OBVIOUS
    <2>1. before[s] \in SUBSET (H \ {s}) BY <1>3
    <2>2. IsFiniteSet(H \ {s}) /\ Cardinality(H \ {s}) = n - 1 BY FS_RemoveElement
    <2>3. Cardinality(before[s]) <= n - 1 BY <2>1, <2>2, FS_Subset
    <2> QED BY <1>1, <1>3, <2>3
  <1>6. f \in Injection(H, T)
    <2>1. f \in [H -> T] BY <1>5
    <2>2. ASSUME NEW s \in H, NEW t \in H, s # t PROVE f[s] # f[t]
      <3>1. v[s] \in Int /\ v[t] \in Int /\ s \in Int /\ t \in Int OBVIOUS
      <3>2. s \in before[t] \/ t \in before[s] BY <1>2, <2>2, <3>1
      <3>3. f[s] = Cardinality(before[s]) /\ f[t] = Cardinality(before[t]) OBVIOUS
      <3>4. Cardinality(before[s]) \in Nat /\ Cardinality(before[t]) \in Nat BY <1>3
      <3>5. CASE s \in before[t]
        <4>1. Cardinality(before[s]) < Cardinality(before[t]) BY <1>4, <3>5
        <4> HIDE DEF f
        <4> QED BY <3>3, <3>4, <4>1
      <3>6. CASE t \in before[s]
        <4>1. Cardinality(before[t]) < Cardinality(before[s]) BY <1>4, <3>6
        <4> HIDE DEF f
        <4> QED BY <3>3, <3>4, <4>1
      <3> QED BY <3>2, <3>5, <3>6
    <2> HIDE DEF f
    <2> QED BY <2>1, <2>2 DEF Injection, IsInjective
  <1>7. IsFiniteSet(T) /\ Cardinality(T) = n
    BY <1>1, FS_Interval
  <1> HIDE DEF f
  <1>8. f \in Surjection(H, T) BY <1>6, <1>7, FS_Injection
  <1>9. PICK s \in H : f[s] = k BY <1>8 DEF Surjection
  <1> QED BY <1>9 DEF f, before

\* Of finitely many, no more than half are below the lower median or above it.
LEMMA HalfAround ==
  ASSUME NEW H \in SUBSET Int, IsFiniteSet(H), NEW v \in [H -> Int],
         NEW m \in H, Cardinality(Before(H, v, m)) = (Cardinality(H) - 1) \div 2
  PROVE  /\ 2 * Cardinality({s \in H : v[s] < v[m]}) < Cardinality(H)
         /\ 2 * Cardinality({s \in H : v[s] > v[m]}) <= Cardinality(H)
  <1> DEFINE n == Cardinality(H)
             k == (n - 1) \div 2
             B == Before(H, v, m)
             Below == {s \in H : v[s] < v[m]}
             Above == {s \in H : v[s] > v[m]}
             Rest == H \ (B \cup {m})
  <1>1. n \in Nat /\ n # 0 BY FS_CardinalityType, FS_EmptySet
  <1>2. k \in Nat /\ 2 * k < n /\ n - 1 <= 2 * k + 1
    <2> HIDE DEF n
    <2> QED BY <1>1
  <1>3. B \in SUBSET H /\ m \notin B /\ Below \in SUBSET B BY DEF Before
  <1>4. IsFiniteSet(B) /\ Cardinality(B) = k BY <1>3, FS_Subset
  <1>5. Cardinality(Below) <= k /\ Cardinality(Below) \in Nat
    BY <1>3, <1>4, FS_Subset, FS_CardinalityType
  <1>6. Above \in SUBSET Rest
    <2> SUFFICES ASSUME NEW s \in Above PROVE s \in H /\ s \notin B /\ s # m OBVIOUS
    <2>1. v[s] \in Int /\ v[m] \in Int /\ v[s] > v[m] /\ s \in H OBVIOUS
    <2> QED BY <2>1 DEF Before
  <1>7. IsFiniteSet(Rest) /\ Cardinality(Rest) = n - (k + 1)
    <2> DEFINE M == B \cup {m}
    <2> HIDE DEF B, k
    <2>1. Cardinality(M) = Cardinality(B) + 1 BY <1>3, <1>4, FS_AddElement
    <2>2. H \cap M = M BY <1>3
    <2> HIDE DEF M
    <2>3. /\ IsFiniteSet(H \ M)
          /\ Cardinality(H \ M) = Cardinality(H) - Cardinality(H \cap M)
      BY FS_Difference
    <2> QED BY <1>4, <2>1, <2>2, <2>3 DEF M
  <1>8. Cardinality(Above) <= n - (k + 1) /\ Cardinality(Above) \in Nat
    BY <1>6, <1>7, FS_Subset, FS_CardinalityType
  <1> HIDE DEF n, k, Below, Above
  <1>9. 2 * Cardinality(Below) < n /\ 2 * Cardinality(Above) <= n
    BY <1>1, <1>2, <1>5, <1>8
  <1> QED BY <1>9 DEF n, Below, Above

\* A lower median of the values of H, or nothing when H is empty.
LowerMedian(H, v, median) ==
  IF H = {} THEN median = NO_DELAY
  ELSE /\ \E s \in H : v[s] = median
       /\ 2 * Cardinality({s \in H : v[s] < median}) < Cardinality(H)
       /\ 2 * Cardinality({s \in H : v[s] > median}) <= Cardinality(H)

\* reflectors_recent_delay_us() of values that are known: the lower median.
LEMMA MedianOfHeard ==
  ASSUME NEW delays, NEW v \in [Slot -> Delay],
         \A s \in Slot : recent_delay_value(delays[s]) = v[s],
         NEW H, H = {s \in Slot : v[s] # NO_DELAY},
         NEW median, median = reflectors_recent_delay_us(delays)
  PROVE  LowerMedian(H, v, median)
  <1> DEFINE value(s) == recent_delay_value(delays[s])
             heard == {s \in Slot : value(s) # NO_DELAY}
             ahead(s) == {t \in heard : value(t) < value(s) \/ (value(t) = value(s) /\ t < s)}
             middle == (Cardinality(heard) - 1) \div 2
             chosen == CHOOSE s \in heard : Cardinality(ahead(s)) = middle
             w == [s \in H |-> v[s]]
  <1>1. median = IF heard = {} THEN NO_DELAY ELSE value(chosen)
    BY DEF reflectors_recent_delay_us
  <1>2. heard = H /\ H \in SUBSET Slot OBVIOUS
  <1>3. \A s \in H : ahead(s) = Before(H, w, s)
    <2>1. \A s, t \in H : value(s) = w[s] /\ value(t) = w[t] BY <1>2
    <2> SUFFICES ASSUME NEW s \in H PROVE ahead(s) = Before(H, w, s) OBVIOUS
    <2>2. ahead(s) = {t \in H : value(t) < value(s) \/ (value(t) = value(s) /\ t < s)}
      BY <1>2
    <2>3. Before(H, w, s) = {t \in H : w[t] < w[s] \/ (w[t] = w[s] /\ t < s)} BY DEF Before
    <2> HIDE DEF value, w, ahead
    <2> QED BY <2>1, <2>2, <2>3
  <1>4. H \in SUBSET Int /\ IsFiniteSet(H) /\ w \in [H -> Int]
    <2>1. Slot \in SUBSET Int /\ IsFiniteSet(Slot) BY Windows, FS_Interval DEF Slot
    <2>2. IsFiniteSet(H) BY <1>2, <2>1, FS_Subset
    <2>3. \A s \in H : v[s] \in Int BY <1>2 DEF Delay, NO_DELAY
    <2> QED BY <1>2, <2>1, <2>2, <2>3
  <1>5. CASE H = {} BY <1>1, <1>2, <1>5 DEF LowerMedian
  <1>6. CASE H # {}
    <2> DEFINE n == Cardinality(H)
    <2>1. n \in Nat /\ n # 0 BY <1>4, <1>6, FS_CardinalityType, FS_EmptySet
    <2>2. middle = (n - 1) \div 2 BY <1>2
    <2>3. middle \in 0 .. n - 1
      <3> HIDE DEF n, middle
      <3> QED BY <2>1, <2>2
    <2> HIDE DEF ahead, heard, value, chosen, middle, w, n
    <2>4. \E s \in H : Cardinality(Before(H, w, s)) = middle
      <3>1. middle \in 0 .. Cardinality(H) - 1 BY <2>3 DEF n
      <3> QED BY ONLY <1>4, <3>1, PositionsTaken, Zenon
    <2>5. \E s \in heard : Cardinality(ahead(s)) = middle BY <1>2, <1>3, <2>4
    <2>6. chosen \in heard /\ Cardinality(ahead(chosen)) = middle BY <2>5 DEF chosen
    <2>7. chosen \in H /\ Cardinality(Before(H, w, chosen)) = (n - 1) \div 2
      BY <1>2, <1>3, <2>2, <2>6
    <2>8. /\ 2 * Cardinality({s \in H : w[s] < w[chosen]}) < Cardinality(H)
          /\ 2 * Cardinality({s \in H : w[s] > w[chosen]}) <= Cardinality(H)
      <3>1. chosen \in H /\ Cardinality(Before(H, w, chosen)) = (Cardinality(H) - 1) \div 2
        BY <2>7 DEF n
      <3> QED BY ONLY <1>4, <3>1, HalfAround, Zenon
    <2>9. median = v[chosen] BY <1>1, <1>2, <1>6, <2>7 DEF value
    <2>10. /\ {s \in H : w[s] < w[chosen]} = {s \in H : v[s] < median}
           /\ {s \in H : w[s] > w[chosen]} = {s \in H : v[s] > median}
      BY <2>7, <2>9 DEF w
    <2>11. 2 * Cardinality({s \in H : v[s] < median}) < Cardinality(H)
      BY ONLY <2>8, <2>10
    <2>12. 2 * Cardinality({s \in H : v[s] > median}) <= Cardinality(H)
      BY ONLY <2>8, <2>10
    <2> QED BY <1>6, <2>7, <2>9, <2>11, <2>12, Zenon DEF LowerMedian
  <1> QED BY <1>5, <1>6

\* What is kept of each slot's replies is their largest delay of two seconds.
THEOREM DelaysInvariance == ReflectorsSpec => []DelaysInv
  BY DelaysStart, DelaysStep, ReflectorsInvariance, PTL DEF ReflectorsSpec

\* The recent delay is the lower median of what the slots' replies were delayed
\* most, for any number of slots and any replies.
LEMMA RecentIsMedian == DelaysInv => RecentDelayHeard
  <1> SUFFICES ASSUME DelaysInv PROVE RecentDelayHeard OBVIOUS
  <1> DEFINE largest(s) == Larger(replies[s][1], replies[s][2])
             v == [s \in Slot |-> largest(s)]
             H == {s \in Slot : largest(s) # NO_DELAY}
             G == {s \in Slot : v[s] # NO_DELAY}
             median == reflectors_recent_delay_us(recent)
  <1>1. \A s \in Slot : /\ recent_delay_value(recent[s]) = largest(s)
                        /\ largest(s) \in Delay
    <2> SUFFICES ASSUME NEW s \in Slot
                 PROVE  /\ recent_delay_value(recent[s]) = largest(s)
                        /\ largest(s) \in Delay
      OBVIOUS
    <2>1. /\ recent[s] \in RecentType /\ replies[s] \in Delay \X Delay
          /\ Remembers(recent[s], replies[s])
      BY DEF DelaysInv
    <2>2. /\ recent_delay_value(recent[s]) = largest(s)
          /\ recent_delay_value(recent[s]) \in Delay
      BY <2>1, ValueIsLargest
    <2> QED BY <2>2
  <1> HIDE DEF largest
  <1>2. v \in [Slot -> Delay] /\ \A s \in Slot : recent_delay_value(recent[s]) = v[s]
    BY <1>1
  <1>3. G = H /\ \A s \in Slot : v[s] = largest(s) OBVIOUS
  <1> HIDE DEF v
  <1>4. LowerMedian(G, v, median) BY <1>2, MedianOfHeard
  <1>5. /\ {s \in G : v[s] < median} = {s \in H : largest(s) < median}
        /\ {s \in G : v[s] > median} = {s \in H : largest(s) > median}
    BY <1>3
  <1> HIDE DEF G, median
  <1>6. IF H = {} THEN median = NO_DELAY
        ELSE /\ \E s \in H : largest(s) = median
             /\ 2 * Cardinality({s \in H : largest(s) < median}) < Cardinality(H)
             /\ 2 * Cardinality({s \in H : largest(s) > median}) <= Cardinality(H)
    BY <1>3, <1>4, <1>5 DEF LowerMedian
  <1> QED BY <1>6 DEF RecentDelayHeard, H, largest, median

\* Whatever replies, checks, scheduled rotations and comparisons, and restarts there
\* are: counts never drift from the windows they count, a slot within the threshold is
\* not left with a silent reflector for longer than a check for each slot before it,
\* nothing is known of the reflectors that wait, and the recent delay is the lower
\* median of what was heard.
THEOREM ReflectorsAreSound == ReflectorsSpec => []ReflectorsSound
  <1>1. ReflectorsInv /\ DelaysInv => ReflectorsSound
    <2> SUFFICES ASSUME ReflectorsInv, DelaysInv PROVE ReflectorsSound
      OBVIOUS
    <2> DEFINE r == reflectors
    <2>1. SoundReflectors(r) /\ silent \in [Slot -> Nat] /\ SilenceSeen(r, silent)
      BY DEF ReflectorsInv
    <2>2. OffencesCounted
      <3> SUFFICES ASSUME NEW s \in Slot
                   PROVE  r.health[s].count = Cardinality({k \in DOMAIN r.health[s].offences :
                                                             r.health[s].offences[k]})
        BY DEF OffencesCounted
      <3>1. r.health[s] \in HealthType /\ CountTrue(r.health[s])
        BY <2>1 DEF SoundReflectors, ReflectorsType
      <3>2. DOMAIN r.health[s].offences = Position
        BY <3>1 DEF HealthType
      <3> QED
        BY <3>1, <3>2 DEF CountTrue, OffencesOf
    <2>3. SilentReplaced
      <3> SUFFICES ASSUME ReflectorCount > ActiveCount, NEW s \in Slot,
                          s <= DetectionThreshold,
                          ~(silent[s] < DetectionThreshold + s - 1)
                   PROVE  FALSE
        BY DEF SilentReplaced
      <3> DEFINE w == TurnsOf(silent[s])
      <3>1. silent[s] \in Nat /\ s \in Nat /\ s >= 1
        BY <2>1, Windows DEF Slot
      <3>2. silent[s] >= DetectionThreshold /\ w >= s /\ w \in Int
        BY <3>1, Windows DEF TurnsOf
      <3>3. Cardinality(FreshBefore(r, s, w)) >= w
        BY <2>1, <3>2 DEF SilenceSeen
      <3>4. /\ Cardinality(FreshBefore(r, s, w)) \in Nat
            /\ Cardinality(FreshBefore(r, s, w)) <= s - 1
        BY FreshFinite
      <3> HIDE DEF w
      <3> QED
        BY <3>1, <3>2, <3>3, <3>4
    <2>4. StandbyUnlearned
      BY <2>1 DEF SoundReflectors, Unlearned, StandbyUnlearned
    <2>5. RecentDelayHeard
      BY RecentIsMedian
    <2> QED
      BY <2>2, <2>3, <2>4, <2>5 DEF ReflectorsSound
  <1> QED
    BY <1>1, ReflectorsInvariance, DelaysInvariance, PTL

-----------------------------------------------------------------------------
(* ChildPingers: a session and its processes.                               *)

SessionType ==
  [active : BOOLEAN, count : 0 .. ChildCount,
   processes : SUBSET Child, exited : SUBSET Child, watched : SUBSET Child,
   output : SUBSET Child, reading : SUBSET Child, stopping : SUBSET Child,
   killed : SUBSET Child, starts : [Child -> Nat], runtime : [Child -> Nat],
   start : Nat \cup {NO_TIMER}, stop : Nat \cup {NO_TIMER}, failure : BOOLEAN,
   retry : Nat, lost : BOOLEAN]

\* What is true of a session even in the middle of a handler: no process was lost,
\* those of an open session have their outputs open, and when none is open all are
\* told to stop.
Manned(s) ==
  /\ s \in SessionType /\ ~s.lost
  /\ s.stopping \cup s.exited \subseteq s.processes
  /\ s.active => s.stopping = {} /\ s.processes \subseteq Members(s) \cap s.output
  /\ ~s.active => s.processes \subseteq s.stopping

Registered(s) == Manned(s) /\ s.processes \subseteq s.watched

\* A child that does not run is started in time.
Scheduled(s) ==
  latency_irtt_start_pending(s) => \A c \in Pending(s) : s.start \in 0 .. s.starts[c]

Whole(s) == Registered(s) /\ Scheduled(s)

ChildInv == method \in {"FPING", "IRTT"} /\ wanted \in BOOLEAN /\ Whole(session)
-----------------------------------------------------------------------------
\* A session that was never opened.
LEMMA NoSessionWhole == Whole(NO_SESSION)
  <1>1. NO_SESSION \in SessionType
    <2>1. ChildCount \in Nat /\ 0 \in 0 .. ChildCount BY ChildAssumption
    <2>2. [c \in Child |-> 0] \in [Child -> Nat] OBVIOUS
    <2> HIDE DEF Child
    <2> QED BY <2>1, <2>2 DEF NO_SESSION, SessionType
  <1> QED BY <1>1 DEF NO_SESSION, Whole, Registered, Manned, Scheduled,
             latency_irtt_start_pending

\* When none is open, no start is pending.
LEMMA ClosedScheduled == ASSUME NEW s, Registered(s), ~s.active PROVE Whole(s)
  BY DEF Whole, Scheduled, latency_irtt_start_pending

\* Registering watches every process.
LEMMA RegisterKeeps ==
  ASSUME NEW s, Manned(s)
  PROVE  /\ Registered(child_pingers_register(s))
         /\ child_pingers_register(s).active = s.active
         /\ child_pingers_register(s).count = s.count
         /\ child_pingers_register(s).output = s.output
         /\ child_pingers_register(s).reading = s.reading
         /\ child_pingers_register(s).starts = s.starts
  <1> DEFINE watched == s.watched \cup s.processes
             r == [s EXCEPT !.watched = watched]
  <1>1. s \in SessionType BY DEF Manned
  <1>2. watched \in SUBSET Child /\ s.processes \subseteq watched
    BY <1>1 DEF SessionType
  <1>3. child_pingers_register(s) = r BY DEF child_pingers_register
  <1> HIDE DEF watched
  <1>4. /\ r \in SessionType /\ r.watched = watched /\ r.processes = s.processes
        /\ r.active = s.active /\ r.count = s.count /\ r.output = s.output
        /\ r.reading = s.reading /\ r.starts = s.starts /\ r.lost = s.lost
        /\ r.stopping = s.stopping /\ r.exited = s.exited
    BY <1>1, <1>2 DEF SessionType
  <1> HIDE DEF r
  <1>5. Members(r) = Members(s) BY <1>4 DEF Members
  <1> QED BY <1>2, <1>3, <1>4, <1>5 DEF Registered, Manned

\* Closing tells every process to stop.
LEMMA CloseKeeps ==
  ASSUME NEW s, Manned(s)
  PROVE  /\ Manned(latency_close(s)) /\ ~latency_close(s).active
         /\ Registered(s) => Registered(latency_close(s))
  <1> DEFINE stopping == s.stopping \cup s.processes
             r == [s EXCEPT !.active = FALSE, !.count = 0, !.output = {}, !.reading = {},
                            !.stopping = stopping]
  <1>1. s \in SessionType /\ s.stopping \subseteq s.processes BY DEF Manned
  <1>2. stopping \in SUBSET Child /\ stopping = s.processes
    BY <1>1 DEF SessionType
  <1>3. latency_close(s) = r BY DEF latency_close
  <1>4. 0 \in 0 .. ChildCount BY ChildAssumption
  <1> HIDE DEF stopping
  <1>5. /\ r \in SessionType /\ r.watched = s.watched /\ r.processes = s.processes
        /\ ~r.active /\ r.lost = s.lost
        /\ r.stopping = stopping /\ r.exited = s.exited
    BY <1>1, <1>2, <1>4 DEF SessionType
  <1> HIDE DEF r
  <1> QED BY <1>2, <1>3, <1>5 DEF Registered, Manned

\* What a change of a timer alone leaves of a session.
SameSession(r, s) ==
  /\ r.active = s.active /\ r.count = s.count /\ r.processes = s.processes
  /\ r.exited = s.exited /\ r.watched = s.watched /\ r.output = s.output
  /\ r.stopping = s.stopping /\ r.starts = s.starts /\ r.lost = s.lost

\* It keeps what is true of the processes.
LEMMA SameKeeps ==
  ASSUME NEW s, NEW r \in SessionType, SameSession(r, s), Manned(s)
  PROVE  Manned(r) /\ (Registered(s) => Registered(r)) /\ Pending(r) = Pending(s)
  <1>1. Members(r) = Members(s) BY DEF SameSession, Members
  <1> QED BY <1>1 DEF SameSession, Manned, Registered, Pending

\* A timer that is set, or stopped.
LEMMA TimerSet ==
  ASSUME NEW s, s \in SessionType, NEW time \in Nat \cup {NO_TIMER}
  PROVE  /\ [s EXCEPT !.start = time] \in SessionType
         /\ SameSession([s EXCEPT !.start = time], s)
         /\ [s EXCEPT !.start = time].start = time
         /\ [s EXCEPT !.stop = time] \in SessionType
         /\ SameSession([s EXCEPT !.stop = time], s)
         /\ [s EXCEPT !.stop = time].start = s.start
  <1>1. /\ [s EXCEPT !.start = time] \in SessionType
        /\ [s EXCEPT !.stop = time] \in SessionType
    BY DEF SessionType
  <1> QED BY <1>1 DEF SessionType, SameSession

\* An interval that is waited before the next session, and a failure.
LEMMA RetrySet ==
  ASSUME NEW s, s \in SessionType, NEW time \in Nat, NEW failure \in BOOLEAN
  PROVE  /\ [s EXCEPT !.retry = time] \in SessionType
         /\ SameSession([s EXCEPT !.retry = time], s)
         /\ [s EXCEPT !.retry = time].start = s.start
         /\ [s EXCEPT !.failure = failure] \in SessionType
         /\ SameSession([s EXCEPT !.failure = failure], s)
         /\ [s EXCEPT !.failure = failure].start = s.start
  <1>1. /\ [s EXCEPT !.retry = time] \in SessionType
        /\ [s EXCEPT !.failure = failure] \in SessionType
    BY DEF SessionType
  <1> QED BY <1>1 DEF SessionType, SameSession

\* Closing a session, and putting off the next.
LEMMA PingersClosed ==
  ASSUME NEW s, Manned(s)
  PROVE  /\ Whole(pingers_close(s)) /\ ~pingers_close(s).active
         /\ Whole(pingers_defer_retry(s)) /\ ~pingers_defer_retry(s).active
  <1> DEFINE a == [s EXCEPT !.start = NO_TIMER]
             b == child_pingers_register(a)
             d == latency_close(b)
             stop == IF latency_stopping(d) /\ d.stop = NO_TIMER THEN StopTimeout ELSE d.stop
             e == [d EXCEPT !.stop = stop]
             g == [e EXCEPT !.retry = SessionRetry]
  <1>1. s \in SessionType BY DEF Manned
  <1>2. Manned(a) BY <1>1, TimerSet, SameKeeps
  <1> HIDE DEF a
  <1>3. Registered(b) /\ Manned(b) BY <1>2, RegisterKeeps DEF Registered
  <1> HIDE DEF b
  <1>4. Registered(d) /\ ~d.active /\ Manned(d) /\ d \in SessionType
    BY <1>3, CloseKeeps DEF Registered, Manned
  <1> HIDE DEF d
  <1>5. stop \in Nat \cup {NO_TIMER} BY <1>4, ChildAssumption DEF SessionType
  <1>6. pingers_close(s) = e BY DEF pingers_close, ArmedStop, a, b, d
  <1> HIDE DEF stop
  <1>7. Registered(e) /\ ~e.active /\ e \in SessionType /\ Manned(e)
    <2>1. e \in SessionType /\ SameSession(e, d) BY <1>4, <1>5, TimerSet
    <2> HIDE DEF e
    <2>2. Manned(e) /\ Registered(e) BY <1>4, <2>1, SameKeeps
    <2> QED BY <1>4, <2>1, <2>2 DEF SameSession
  <1>8. pingers_defer_retry(s) = g BY <1>6 DEF pingers_defer_retry
  <1> HIDE DEF e
  <1>9. SessionRetry \in Nat /\ e.failure \in BOOLEAN
    BY <1>7, ChildAssumption DEF SessionType
  <1>10. Registered(g) /\ ~g.active
    <2>1. g \in SessionType /\ SameSession(g, e) BY <1>7, <1>9, RetrySet
    <2> HIDE DEF g
    <2>2. Registered(g) BY <1>7, <2>1, SameKeeps
    <2> QED BY <1>7, <2>1, <2>2 DEF SameSession
  <1> HIDE DEF g
  <1> QED BY <1>6, <1>7, <1>8, <1>10, ClosedScheduled

\* Starting processes in free slots of an open session loses none.
LEMMA StartKeeps ==
  ASSUME NEW s, Manned(s), s.active, NEW children \in SUBSET Pending(s)
  PROVE  /\ Manned(child_start(s, children)) /\ child_start(s, children).active
         /\ child_start(s, children).starts = s.starts
  <1> DEFINE lost == s.lost \/ children \cap s.processes # {}
             processes == s.processes \cup children
             output == s.output \cup children
             runtime == [c \in Child |-> IF c \in children THEN 0 ELSE s.runtime[c]]
             r == [s EXCEPT !.lost = lost, !.processes = processes, !.output = output,
                            !.runtime = runtime]
  <1>1. s \in SessionType /\ ~s.lost /\ s.processes \subseteq Members(s) \cap s.output
        /\ s.stopping = {} /\ s.exited \subseteq s.processes
    BY DEF Manned
  <1>2. children \subseteq Members(s) /\ children \cap s.output = {} BY DEF Pending
  <1>3. Members(s) \subseteq Child
    <2>1. ChildCount \in Nat /\ s.count \in 0 .. ChildCount
      BY <1>1, ChildAssumption DEF SessionType
    <2> QED BY <2>1 DEF Members, Child
  <1>4. /\ lost = FALSE /\ processes \in SUBSET Child /\ output \in SUBSET Child
        /\ processes \subseteq Members(s) \cap output
        /\ s.processes \subseteq processes
    BY <1>1, <1>2, <1>3 DEF SessionType
  <1>5. runtime \in [Child -> Nat] BY <1>1 DEF SessionType
  <1>6. child_start(s, children) = r BY <1>1 DEF child_start, spawn_child, SessionType
  <1> HIDE DEF lost, processes, output, runtime
  <1>7. /\ r \in SessionType /\ r.active = s.active /\ r.count = s.count
        /\ r.lost = lost /\ r.processes = processes /\ r.output = output
        /\ r.stopping = s.stopping /\ r.exited = s.exited /\ r.starts = s.starts
    BY <1>1, <1>4, <1>5 DEF SessionType
  <1> HIDE DEF r
  <1>8. Members(r) = Members(s) BY <1>7 DEF Members
  <1> QED BY <1>1, <1>4, <1>6, <1>7, <1>8 DEF Manned

\* Starting the children that are due, up to one that cannot be started.
LEMMA StartIrttKeeps ==
  ASSUME NEW s, Manned(s), s.active, NEW unstartable
  PROVE  Manned(latency_irtt_start_children(s, unstartable))
  <1> DEFINE first == {c \in DueChildren(s) : c < unstartable}
             all == DueChildren(s)
  <1>1. first \in SUBSET Pending(s) /\ all \in SUBSET Pending(s) BY DEF DueChildren
  <1>2. Manned(child_start(s, first)) /\ Manned(child_start(s, all))
    <2> HIDE DEF first, all
    <2> QED BY <1>1, StartKeeps
  <1>3. Manned(latency_close(child_start(s, first))) BY <1>2, CloseKeeps
  <1> QED BY <1>2, <1>3 DEF latency_irtt_start_children

\* Watching an open session: every process is watched, or the session is closed.
LEMMA WatchKeeps ==
  ASSUME NEW s, Manned(s), s.active, NEW unreadable
  PROVE  Registered(child_pingers_watch(s, unreadable))
  <1> DEFINE r == child_pingers_register(s)
             reading == r.reading \cup (Members(s) \cap s.output)
             t == [r EXCEPT !.reading = reading]
  <1>1. /\ Registered(r) /\ Manned(r) /\ r \in SessionType
        /\ s \in SessionType
    BY RegisterKeeps DEF Registered, Manned
  <1>2. reading \in SUBSET Child
    BY <1>1 DEF SessionType
  <1>3. child_pingers_watch(s, unreadable) \in {pingers_close(r), t}
    BY DEF child_pingers_watch
  <1> HIDE DEF r, reading
  <1>4. t \in SessionType /\ SameSession(t, r) BY <1>1, <1>2 DEF SessionType, SameSession
  <1> HIDE DEF t
  <1>5. Registered(t) BY <1>1, <1>4, SameKeeps
  <1>6. Registered(pingers_close(r)) BY <1>1, PingersClosed DEF Whole
  <1> QED BY <1>3, <1>5, <1>6

\* The start timer is set for the child that is due next.
LEMMA TimerStarts == ASSUME NEW s, Registered(s) PROVE Whole(WithStartTimer(s))
  <1> DEFINE times == {s.starts[c] : c \in Pending(s)}
             earliest == EarliestStart(s)
             r == [s EXCEPT !.start = earliest]
  <1>1. s \in SessionType /\ Manned(s) BY DEF Registered, Manned
  <1>2. CASE latency_irtt_start_pending(s)
    <2>1. Pending(s) # {} /\ Pending(s) \subseteq Child
      <3>1. ChildCount \in Nat /\ s.count \in 0 .. ChildCount
        BY <1>1, ChildAssumption DEF SessionType
      <3>2. Members(s) \subseteq Child BY <3>1 DEF Members, Child
      <3> QED BY <1>2, <3>2 DEF latency_irtt_start_pending, Pending
    <2>2. s.starts \in [Child -> Nat] BY <1>1 DEF SessionType
    <2>3. times \in SUBSET Nat /\ times # {} BY <2>1, <2>2
    <2>4. \E x \in times : \A y \in times : x <= y
      <3> HIDE DEF times
      <3>1. PICK x \in times : \A y \in times : ~(<<y, x>> \in OpToRel(<, Nat))
        BY <2>3, NatLessThanWellFounded, WFMin
      <3>2. SUFFICES ASSUME NEW y \in times PROVE x <= y BY <3>1
      <3>3. x \in Nat /\ y \in Nat /\ ~(y < x) BY <2>3, <3>1 DEF OpToRel
      <3> QED BY <3>3
    <2>5. \E x \in times : \A c \in Pending(s) : x <= s.starts[c] BY <2>4
    <2>6. earliest \in times /\ \A c \in Pending(s) : earliest <= s.starts[c]
      BY <2>5 DEF EarliestStart
    <2>7. earliest \in Nat BY <2>3, <2>6
    <2> HIDE DEF earliest, times
    <2>8. r \in SessionType /\ SameSession(r, s) /\ r.start = earliest
      BY <1>1, <2>7, TimerSet
    <2> HIDE DEF r
    <2>9. Registered(r) /\ Pending(r) = Pending(s) BY <1>1, <2>8, SameKeeps
    <2>10. \A c \in Pending(s) : s.starts[c] \in Nat BY <2>1, <2>2
    <2>11. Scheduled(r) BY <2>6, <2>7, <2>8, <2>9, <2>10 DEF Scheduled, SameSession
    <2>12. WithStartTimer(s) = r BY <1>2 DEF WithStartTimer, r, earliest
    <2> QED BY <2>9, <2>11, <2>12 DEF Whole
  <1>3. CASE ~latency_irtt_start_pending(s)
    BY <1>3 DEF WithStartTimer, Whole, Scheduled
  <1> QED BY <1>2, <1>3

\* The start timer's handler.
LEMMA StartIrttWhole ==
  ASSUME NEW s, Registered(s), NEW unstartable, NEW unreadable
  PROVE  Whole(child_pingers_start_irtt(s, unstartable, unreadable))
  <1> DEFINE started == latency_irtt_start_children(s, unstartable)
             none == [s EXCEPT !.start = NO_TIMER]
  <1>1. Manned(s) /\ s \in SessionType BY DEF Registered, Manned
  <1>2. CASE ~latency_irtt_start_pending(s)
    <2>1. none \in SessionType /\ SameSession(none, s) BY <1>1, TimerSet
    <2>2. child_pingers_start_irtt(s, unstartable, unreadable) = none
      BY <1>2 DEF child_pingers_start_irtt
    <2> HIDE DEF none
    <2>3. Registered(none) /\ Pending(none) = Pending(s) BY <1>1, <2>1, SameKeeps
    <2>4. ~latency_irtt_start_pending(none)
      BY <1>2, <2>1, <2>3 DEF latency_irtt_start_pending, SameSession
    <2> QED BY <2>2, <2>3, <2>4 DEF Whole, Scheduled
  <1>3. CASE latency_irtt_start_pending(s)
    <2>1. s.active BY <1>3 DEF latency_irtt_start_pending
    <2>2. Manned(started) BY <1>1, <2>1, StartIrttKeeps
    <2>3. child_pingers_start_irtt(s, unstartable, unreadable) =
            IF ~started.active THEN pingers_defer_retry(started)
            ELSE WithStartTimer(child_pingers_watch(started, unreadable))
      BY <1>3 DEF child_pingers_start_irtt
    <2> HIDE DEF started
    <2>4. Whole(pingers_defer_retry(started)) BY <2>2, PingersClosed
    <2>5. started.active => Registered(child_pingers_watch(started, unreadable))
      BY <2>2, WatchKeeps
    <2>6. started.active => Whole(WithStartTimer(child_pingers_watch(started, unreadable)))
      BY <2>5, TimerStarts
    <2> QED BY <2>3, <2>4, <2>6
  <1> QED BY <1>2, <1>3

\* A new session: no process is left of the one before.
LEMMA OpenKeeps ==
  ASSUME NEW s, Registered(s), may_open_session(s), NEW first \in 1 .. PingInterval,
         method \in {"FPING", "IRTT"}
  PROVE  /\ Manned(latency_open(s, first)) /\ latency_open(s, first).active
         /\ method = "IRTT" => Registered(latency_open(s, first))
  <1>1. /\ s \in SessionType /\ ~s.lost /\ ~s.active /\ s.stopping = {}
        /\ s.processes = {} /\ s.exited = {}
    BY DEF Registered, Manned, may_open_session, latency_stopping
  <1>2. ChildCount \in Nat \ {0} /\ PingInterval \in Nat \ {0} BY ChildAssumption
  <1>3. CASE method = "FPING"
    <2> DEFINE one == {1}
               lost == s.lost \/ one \cap s.processes # {}
               processes == s.processes \cup one
               output == s.output \cup one
               runtime == [c \in Child |-> IF c \in one THEN 0 ELSE s.runtime[c]]
               r == [s EXCEPT !.lost = lost, !.processes = processes, !.output = output,
                              !.runtime = runtime, !.active = TRUE, !.count = 1]
    <2>1. one \subseteq Child /\ 1 \in 0 .. ChildCount BY <1>2 DEF Child
    <2>2. /\ lost = FALSE /\ processes = one /\ processes \in SUBSET Child
          /\ output \in SUBSET Child /\ one \subseteq output
      BY <1>1, <2>1 DEF SessionType
    <2>3. runtime \in [Child -> Nat] BY <1>1 DEF SessionType
    <2>4. latency_open(s, first) = r
      BY <1>1, <1>3 DEF latency_open, child_start, spawn_child, SessionType
    <2>5. 1 .. 1 = one OBVIOUS
    <2> HIDE DEF lost, processes, output, runtime, one
    <2>6. /\ r \in SessionType /\ r.active /\ r.count = 1
          /\ r.lost = lost /\ r.processes = processes /\ r.output = output
          /\ r.stopping = s.stopping /\ r.exited = s.exited
      BY <1>1, <2>1, <2>2, <2>3 DEF SessionType
    <2> HIDE DEF r
    <2>7. Members(r) = one BY <2>5, <2>6 DEF Members
    <2> QED BY <1>1, <1>3, <2>2, <2>4, <2>6, <2>7 DEF Manned
  <1>4. CASE method = "IRTT"
    <2> DEFINE starts == [c \in Child |-> first + (c - 1) * (PingInterval \div ChildCount)]
               r == [s EXCEPT !.active = TRUE, !.count = ChildCount, !.starts = starts]
    <2>1. starts \in [Child -> Nat]
      <3> DEFINE gap == PingInterval \div ChildCount
      <3>1. gap \in Nat BY <1>2
      <3> HIDE DEF gap
      <3>2. \A a, b \in Nat : a * b \in Nat OBVIOUS
      <3>3. \A c \in Child : c - 1 \in Nat BY <1>2 DEF Child
      <3>4. \A c \in Child : first + (c - 1) * gap \in Nat
        <4> TAKE c \in Child
        <4>1. (c - 1) * gap \in Nat BY <3>1, <3>2, <3>3
        <4> QED BY <1>2, <4>1
      <3> QED BY <3>4 DEF gap
    <2>2. latency_open(s, first) = r BY <1>4 DEF latency_open
    <2> HIDE DEF starts
    <2> DEFINE most == ChildCount
    <2>4. most \in 0 .. ChildCount BY <1>2
    <2> HIDE DEF most
    <2> DEFINE o == [s EXCEPT !.active = TRUE, !.count = most, !.starts = starts]
    <2>5. /\ o \in SessionType /\ o.active /\ o.lost = s.lost
          /\ o.processes = s.processes /\ o.watched = s.watched
          /\ o.stopping = s.stopping /\ o.exited = s.exited
      BY <1>1, <2>1, <2>4 DEF SessionType
    <2>6. o = r BY DEF most
    <2> HIDE DEF o
    <2>3. /\ r \in SessionType /\ r.active /\ r.lost = s.lost
          /\ r.processes = s.processes /\ r.watched = s.watched
          /\ r.stopping = s.stopping /\ r.exited = s.exited
      BY <2>5, <2>6
    <2> HIDE DEF r
    <2> QED BY <1>1, <2>2, <2>3 DEF Manned, Registered
  <1> QED BY <1>3, <1>4

\* Watching a session that is open: its children are started in time.
LEMMA WatchedOpenWhole ==
  ASSUME NEW s, Manned(s), s.active, method = "IRTT" => Registered(s),
         method \in {"FPING", "IRTT"}, NEW unstartable, NEW unreadable
  PROVE  Whole(WatchedOpen(s, unstartable, unreadable))
  <1>1. CASE method = "IRTT" BY <1>1, StartIrttWhole DEF WatchedOpen
  <1>2. CASE method = "FPING"
    <2>1. Registered(child_pingers_watch(s, unreadable)) BY WatchKeeps
    <2> QED BY <1>2, <2>1
            DEF WatchedOpen, Whole, Scheduled, latency_irtt_start_pending
  <1> QED BY <1>1, <1>2

\* pingers_watch, however it ends.
LEMMA WatchedWhole ==
  ASSUME NEW s, Registered(s), method \in {"FPING", "IRTT"}, NEW r \in Watched(s)
  PROVE  Whole(r)
  <1>1. PICK first \in 1 .. PingInterval, unstartable \in {NO_CHILD} \cup Child,
             unreadable \in {NO_CHILD} \cup Child :
          r = pingers_watch(s, first, unstartable, unreadable)
    BY DEF Watched
  <1>2. Manned(s) /\ s \in SessionType BY DEF Registered, Manned
  <1>3. CASE s.active
    <2>1. r = WatchedOpen(s, unstartable, unreadable)
      BY <1>1, <1>3 DEF pingers_watch, may_open_session
    <2> QED BY <1>2, <1>3, <2>1, WatchedOpenWhole
  <1>4. CASE ~s.active /\ ~may_open_session(s)
    BY <1>1, <1>4, ClosedScheduled DEF pingers_watch
  <1>5. CASE may_open_session(s)
    <2>1. ~s.active BY <1>5 DEF may_open_session
    <2>2. r = IF method = "FPING" /\ unstartable = 1
              THEN [s EXCEPT !.retry = SessionRetry]
              ELSE WatchedOpen(latency_open(s, first), unstartable, unreadable)
      BY <1>1, <1>5, <2>1 DEF pingers_watch
    <2>3. CASE method = "FPING" /\ unstartable = 1
      <3>1. SessionRetry \in Nat /\ s.failure \in BOOLEAN
        BY <1>2, ChildAssumption DEF SessionType
      <3>2. r \in SessionType /\ SameSession(r, s) BY <1>2, <2>2, <2>3, <3>1, RetrySet
      <3>3. Registered(r) /\ ~r.active BY <1>2, <2>1, <3>2, SameKeeps DEF SameSession
      <3> QED BY <3>3, ClosedScheduled
    <2>4. CASE ~(method = "FPING" /\ unstartable = 1)
      <3> DEFINE opened == latency_open(s, first)
      <3>1. Manned(opened) /\ opened.active /\ (method = "IRTT" => Registered(opened))
        BY <1>5, OpenKeeps
      <3> HIDE DEF opened
      <3>2. Whole(WatchedOpen(opened, unstartable, unreadable))
        BY <3>1, WatchedOpenWhole
      <3> QED BY <2>2, <2>4, <3>2 DEF opened
    <2> QED BY <2>3, <2>4
  <1> QED BY <1>3, <1>4, <1>5 DEF may_open_session

\* The slot of a process that is gone is free.
LEMMA ExitedKeeps ==
  ASSUME NEW s, Registered(s), NEW c \in s.exited
  PROVE  /\ Registered(latency_child_exited(s, c))
         /\ c \in s.stopping => ~latency_child_exited(s, c).active
  <1> DEFINE gone == {c}
             restarts == method = "IRTT" /\ c \notin s.stopping
             processes == s.processes \ gone
             exited == s.exited \ gone
             watched == s.watched \ gone
             stopping == s.stopping \ gone
             killed == s.killed \ gone
             output == IF c \in s.stopping THEN s.output ELSE s.output \ gone
             time == IF restarts THEN RestartTime(s, c) ELSE s.starts[c]
             starts == [s.starts EXCEPT ![c] = time]
             r == [s EXCEPT !.processes = processes, !.exited = exited,
                            !.watched = watched, !.stopping = stopping, !.killed = killed,
                            !.output = output, !.starts = starts]
  <1>1. /\ s \in SessionType /\ ~s.lost /\ s.processes \subseteq s.watched
        /\ s.stopping \cup s.exited \subseteq s.processes
        /\ s.active => s.stopping = {} /\ s.processes \subseteq Members(s) \cap s.output
        /\ ~s.active => s.processes \subseteq s.stopping
    BY DEF Registered, Manned
  <1>2. c \in Child /\ c \in s.processes BY <1>1 DEF SessionType
  <1>3. latency_child_exited(s, c) = r
    BY <1>1 DEF latency_child_exited, SessionType
  <1>4. time \in Nat
    <2>1. s.starts[c] \in Nat BY <1>1, <1>2 DEF SessionType
    <2>2. RestartTime(s, c) \in Nat BY ChildAssumption DEF RestartTime
    <2> QED BY <2>1, <2>2
  <1> HIDE DEF time
  <1>5. starts \in [Child -> Nat] BY <1>1, <1>4 DEF SessionType
  <1>6. /\ {processes, exited, watched, stopping, killed, output} \subseteq SUBSET Child
        /\ processes \subseteq watched /\ stopping \cup exited \subseteq processes
        /\ s.active => stopping = {} /\ processes \subseteq Members(s) \cap output
        /\ ~s.active => processes \subseteq stopping
    <2>1. {processes, exited, watched, stopping, killed, output} \subseteq SUBSET Child
      BY <1>1 DEF SessionType
    <2>2. s.active => processes \subseteq Members(s) \cap output BY <1>1
    <2> QED BY <1>1, <2>1, <2>2
  <1> HIDE DEF processes, exited, watched, stopping, killed, output, starts
  <1>7. /\ r \in SessionType /\ r.active = s.active /\ r.count = s.count
        /\ r.lost = s.lost /\ r.processes = processes /\ r.output = output
        /\ r.stopping = stopping /\ r.exited = exited /\ r.watched = watched
    BY <1>1, <1>5, <1>6 DEF SessionType
  <1> HIDE DEF r
  <1>8. Members(r) = Members(s) BY <1>7 DEF Members
  <1>9. Registered(r) BY <1>1, <1>6, <1>7, <1>8 DEF Registered, Manned
  <1> QED BY <1>1, <1>3, <1>7, <1>9

\* A change that leaves the processes and the start timer alone.
LEMMA SameWhole ==
  ASSUME NEW s, Whole(s), NEW r \in SessionType, SameSession(r, s), r.start = s.start
  PROVE  Whole(r)
  <1>1. Manned(s) /\ Registered(s) /\ Scheduled(s) BY DEF Whole, Registered
  <1>2. Registered(r) /\ Pending(r) = Pending(s) BY <1>1, SameKeeps
  <1>3. Scheduled(r)
    BY <1>1, <1>2 DEF Scheduled, latency_irtt_start_pending, SameSession
  <1> QED BY <1>2, <1>3 DEF Whole

\* A process exits and its exit is handled.
LEMMA ReapedWhole ==
  ASSUME ChildInv, NEW c \in Child, NEW unread \in BOOLEAN, ChildReaped(c, unread)
  PROVE  Whole(session')
  <1> DEFINE failure == session.failure \/ (unread /\ c \in session.reading)
             reading == session.reading \ {c}
             read == [session EXCEPT !.failure = failure, !.reading = reading]
             s == latency_child_exited(read, c)
             t == [s EXCEPT !.stop = NO_TIMER]
  <1>1. /\ Registered(session) /\ Manned(session) /\ session \in SessionType
        /\ method \in {"FPING", "IRTT"}
    BY DEF ChildInv, Whole, Registered, Manned
  <1>2. /\ c \in session.exited
        /\ session' \in CASE c \in session.stopping ->
                               IF wanted /\ ~latency_stopping(s)
                               THEN Watched(ChildStopped(s)) ELSE {ChildStopped(s)}
                          [] c \notin session.stopping /\ method = "IRTT" -> StartedIrtt(s)
                          [] c \notin session.stopping /\ method = "FPING" ->
                               {pingers_defer_retry(s)}
    BY DEF ChildReaped
  <1>3. failure \in BOOLEAN /\ reading \in SUBSET Child BY <1>1 DEF SessionType
  <1> HIDE DEF failure, reading
  <1>4. read \in SessionType /\ SameSession(read, session)
    BY <1>1, <1>3 DEF SessionType, SameSession
  <1> HIDE DEF read
  <1>5. Registered(read) /\ c \in read.exited /\ read.stopping = session.stopping
    BY <1>1, <1>2, <1>4, SameKeeps DEF SameSession
  <1>6. Registered(s) /\ (c \in session.stopping => ~s.active)
    BY <1>5, ExitedKeeps
  <1>7. Manned(s) /\ s \in SessionType BY <1>6 DEF Registered, Manned
  <1> HIDE DEF s
  <1>8. CASE c \in session.stopping
    <2>1. NO_TIMER \in Nat \cup {NO_TIMER} OBVIOUS
    <2>2. t \in SessionType /\ SameSession(t, s) BY <1>7, <2>1, TimerSet
    <2>3. ChildStopped(s) \in {s, t} BY DEF ChildStopped
    <2> HIDE DEF t
    <2>4. Registered(t) /\ ~t.active BY <1>6, <1>7, <1>8, <2>2, SameKeeps DEF SameSession
    <2>5. Registered(ChildStopped(s)) /\ Whole(ChildStopped(s))
      BY <1>6, <1>8, <2>3, <2>4, ClosedScheduled
    <2>6. session' \in Watched(ChildStopped(s)) \cup {ChildStopped(s)} BY <1>2, <1>8
    <2> QED BY <1>1, <2>5, <2>6, WatchedWhole
  <1>9. CASE c \notin session.stopping /\ method = "IRTT"
    <2>1. session' \in StartedIrtt(s) BY <1>2, <1>9
    <2>2. PICK unstartable, unreadable :
            session' = child_pingers_start_irtt(s, unstartable, unreadable)
      BY <2>1 DEF StartedIrtt
    <2> QED BY <1>6, <2>2, StartIrttWhole
  <1>10. CASE c \notin session.stopping /\ method = "FPING"
    <2>1. session' = pingers_defer_retry(s) BY <1>2, <1>10
    <2> QED BY <1>7, <2>1, PingersClosed
  <1> QED BY <1>1, <1>8, <1>9, <1>10

\* Time that passes brings no start timer behind its child.
LEMMA ChildTimeWhole == ASSUME ChildInv, ChildTime PROVE Whole(session')
  <1> DEFINE s == session
             start == Shorter(s.start)
             stop == Shorter(s.stop)
             retry == Shorter(s.retry)
             starts == [c \in Child |-> Shorter(s.starts[c])]
             runtime == [c \in Child |-> IF c \in s.processes /\ s.runtime[c] < FastExit
                                         THEN s.runtime[c] + 1 ELSE s.runtime[c]]
             r == [s EXCEPT !.start = start, !.stop = stop, !.retry = retry,
                            !.starts = starts, !.runtime = runtime]
  <1>1. Whole(s) /\ Registered(s) /\ Manned(s) /\ s \in SessionType
    BY DEF ChildInv, Whole, Registered, Manned
  <1>2. session' = r BY <1>1 DEF ChildTime, SessionType
  <1>3. \A time \in Nat : Shorter(time) \in Nat BY DEF Shorter
  <1>4. Shorter(NO_TIMER) = NO_TIMER BY DEF Shorter, NO_TIMER
  <1>5. s.starts \in [Child -> Nat] /\ s.runtime \in [Child -> Nat] /\ s.retry \in Nat
        /\ s.start \in Nat \cup {NO_TIMER} /\ s.stop \in Nat \cup {NO_TIMER}
    BY <1>1 DEF SessionType
  <1>6. /\ start \in Nat \cup {NO_TIMER} /\ stop \in Nat \cup {NO_TIMER} /\ retry \in Nat
        /\ starts \in [Child -> Nat]
    BY <1>3, <1>4, <1>5
  <1>7. runtime \in [Child -> Nat] BY <1>5
  <1>8. \A a \in Int, b \in Nat : a \in 0 .. b => Shorter(a) \in 0 .. Shorter(b)
    BY DEF Shorter
  <1>9. \A c \in Child : starts[c] = Shorter(s.starts[c]) /\ s.starts[c] \in Nat
    BY <1>5
  <1> HIDE DEF s, stop, retry, starts, runtime, start
  <1>10. /\ r \in SessionType /\ r.active = s.active /\ r.count = s.count
         /\ r.lost = s.lost /\ r.processes = s.processes /\ r.output = s.output
         /\ r.stopping = s.stopping /\ r.exited = s.exited /\ r.watched = s.watched
         /\ r.starts = starts /\ r.start = start
    BY <1>1, <1>6, <1>7 DEF SessionType
  <1> HIDE DEF r
  <1>11. Members(r) = Members(s) /\ Pending(r) = Pending(s) BY <1>10 DEF Members, Pending
  <1>12. Registered(r) BY <1>1, <1>10, <1>11 DEF Registered, Manned
  <1>13. Scheduled(r)
    <2> SUFFICES ASSUME latency_irtt_start_pending(r), NEW c \in Pending(r)
                 PROVE  start \in 0 .. starts[c]
      BY <1>10 DEF Scheduled
    <2>1. latency_irtt_start_pending(s)
      BY <1>10, <1>11 DEF latency_irtt_start_pending
    <2>2. s.start \in 0 .. s.starts[c] BY <1>1, <1>11, <2>1 DEF Whole, Scheduled
    <2>3. c \in Child
      <3>1. ChildCount \in Nat /\ s.count \in 0 .. ChildCount
        BY <1>1, ChildAssumption DEF SessionType
      <3>2. Members(s) \subseteq Child BY <3>1 DEF Members, Child
      <3> QED BY <1>11, <3>2 DEF Pending
    <2>4. s.starts[c] \in Nat /\ starts[c] = Shorter(s.starts[c]) BY <1>9, <2>3
    <2>5. s.start \in Int BY <2>2, <2>4
    <2> QED BY <1>8, <2>2, <2>4, <2>5 DEF start
  <1> QED BY <1>2, <1>12, <1>13 DEF Whole

\* The other steps of the loop.
LEMMA ChildStepWhole ==
  ASSUME ChildInv,
         \/ ChildTick \/ ReopenChildren \/ StartTimer \/ StopTimer \/ FailureTimer
         \/ \E c \in Child : OutputFails(c) \/ OutputEnds(c) \/ ChildExits(c)
  PROVE  Whole(session')
  <1>1. /\ Whole(session) /\ Registered(session) /\ Manned(session)
        /\ session \in SessionType /\ method \in {"FPING", "IRTT"}
    BY DEF ChildInv, Whole, Registered, Manned
  <1>2. CASE ChildTick
    <2>1. session' \in Watched(session) \cup {pingers_close(session)}
      BY <1>2 DEF ChildTick
    <2> QED BY <1>1, <2>1, WatchedWhole, PingersClosed
  <1>3. CASE ReopenChildren
    <2> DEFINE closed == pingers_close(session)
               time == 0
               r == [closed EXCEPT !.retry = time]
    <2>1. session' \in Watched(r) BY <1>3 DEF ReopenChildren
    <2>2. Registered(closed) /\ Manned(closed) /\ closed \in SessionType
      BY <1>1, PingersClosed DEF Whole, Registered, Manned
    <2>3. time \in Nat OBVIOUS
    <2> HIDE DEF closed, time
    <2>4. closed.failure \in BOOLEAN BY <2>2 DEF SessionType
    <2>5. r \in SessionType /\ SameSession(r, closed) BY <2>2, <2>3, <2>4, RetrySet
    <2> HIDE DEF r
    <2>6. Registered(r) BY <2>2, <2>5, SameKeeps
    <2> QED BY <1>1, <2>1, <2>6, WatchedWhole
  <1>4. CASE StartTimer
    <2> DEFINE r == [session EXCEPT !.start = NO_TIMER]
    <2>1. session' \in StartedIrtt(r) BY <1>4 DEF StartTimer
    <2>2. r \in SessionType /\ SameSession(r, session)
      BY <1>1, TimerSet
    <2> HIDE DEF r
    <2>3. Registered(r) BY <1>1, <2>2, SameKeeps
    <2>4. PICK unstartable, unreadable :
            session' = child_pingers_start_irtt(r, unstartable, unreadable)
      BY <2>1 DEF StartedIrtt
    <2> QED BY <2>3, <2>4, StartIrttWhole
  <1>5. CASE StopTimer
    <2> DEFINE killed == session.stopping
               r == [session EXCEPT !.stop = NO_TIMER, !.killed = killed]
    <2>1. session' = r /\ killed \in SUBSET Child BY <1>1, <1>5 DEF StopTimer, SessionType
    <2> HIDE DEF killed
    <2>2. r \in SessionType /\ SameSession(r, session) /\ r.start = session.start
      BY <1>1, <2>1 DEF SessionType, SameSession
    <2> HIDE DEF r
    <2> QED BY <1>1, <2>1, <2>2, SameWhole
  <1>6. CASE FailureTimer
    <2> DEFINE r == [session EXCEPT !.failure = FALSE]
    <2>1. session' = pingers_defer_retry(r) BY <1>6 DEF FailureTimer
    <2>2. session.retry \in Nat BY <1>1 DEF SessionType
    <2>3. r \in SessionType /\ SameSession(r, session) BY <1>1, <2>2, RetrySet
    <2> HIDE DEF r
    <2>4. Manned(r) BY <1>1, <2>3, SameKeeps
    <2> QED BY <2>1, <2>4, PingersClosed
  <1>7. ASSUME NEW c \in Child, OutputFails(c) PROVE Whole(session')
    <2> DEFINE r == [session EXCEPT !.failure = TRUE]
    <2>1. session' = r BY <1>7 DEF OutputFails
    <2>2. session.retry \in Nat BY <1>1 DEF SessionType
    <2>3. r \in SessionType /\ SameSession(r, session) /\ r.start = session.start
      BY <1>1, <2>2, RetrySet
    <2> HIDE DEF r
    <2> QED BY <1>1, <2>1, <2>3, SameWhole
  <1>8. ASSUME NEW c \in Child, OutputEnds(c) PROVE Whole(session')
    <2> DEFINE reading == session.reading \ {c}
               r == [session EXCEPT !.reading = reading]
    <2>1. session' = r /\ reading \in SUBSET Child
      BY <1>1, <1>8 DEF OutputEnds, SessionType
    <2> HIDE DEF reading
    <2>2. r \in SessionType /\ SameSession(r, session) /\ r.start = session.start
      BY <1>1, <2>1 DEF SessionType, SameSession
    <2> HIDE DEF r
    <2> QED BY <1>1, <2>1, <2>2, SameWhole
  <1>9. ASSUME NEW c \in Child, ChildExits(c) PROVE Whole(session')
    <2> DEFINE exited == session.exited \cup {c}
               r == [session EXCEPT !.exited = exited]
    <2>1. session' = r BY <1>1, <1>9 DEF ChildExits, SessionType
    <2>2. exited \in SUBSET Child /\ exited \subseteq session.processes
      BY <1>1, <1>9 DEF ChildExits, SessionType, Manned
    <2> HIDE DEF exited
    <2>3. /\ r \in SessionType /\ r.active = session.active /\ r.count = session.count
          /\ r.lost = session.lost /\ r.processes = session.processes
          /\ r.output = session.output /\ r.stopping = session.stopping
          /\ r.exited = exited /\ r.watched = session.watched
          /\ r.starts = session.starts /\ r.start = session.start
      BY <1>1, <2>2 DEF SessionType
    <2> HIDE DEF r
    <2>4. Members(r) = Members(session) /\ Pending(r) = Pending(session)
      BY <2>3 DEF Members, Pending
    <2>5. Registered(r) BY <1>1, <2>2, <2>3, <2>4 DEF Registered, Manned
    <2>6. Scheduled(r)
      BY <1>1, <2>3, <2>4 DEF Whole, Scheduled, latency_irtt_start_pending
    <2> QED BY <2>1, <2>5, <2>6 DEF Whole
  <1> QED BY <1>2, <1>3, <1>4, <1>5, <1>6, <1>7, <1>8, <1>9

\* No handler loses a process, leaves one unwatched, or forgets a start: every process
\* that runs is watched, and is its session's or told to stop (child_pingers.c,
\* irtt.c), for any number of children, failures and exits.
THEOREM ChildInvariance == ChildSpec => []ChildInv
  <1>1. ChildInit => ChildInv BY NoSessionWhole DEF ChildInit, ChildInv
  <1>2. ChildInv /\ [ChildNext]_childVars => ChildInv'
    <2> SUFFICES ASSUME ChildInv, [ChildNext]_childVars PROVE ChildInv' OBVIOUS
    <2>1. method' = method /\ wanted' \in BOOLEAN
      BY DEF ChildInv, ChildNext, childVars, ChildTick, ReopenChildren, StartTimer,
             StopTimer, FailureTimer, OutputFails, OutputEnds, ChildExits, ChildReaped,
             ChildTime
    <2>2. Whole(session')
      <3>1. CASE UNCHANGED childVars BY <3>1 DEF childVars, ChildInv
      <3>2. CASE ChildTime BY <3>2, ChildTimeWhole
      <3>3. ASSUME NEW c \in Child, NEW unread \in BOOLEAN, ChildReaped(c, unread)
            PROVE  Whole(session')
        BY <3>3, ReapedWhole
      <3>4. CASE \/ ChildTick \/ ReopenChildren \/ StartTimer \/ StopTimer \/ FailureTimer
                 \/ \E c \in Child : OutputFails(c) \/ OutputEnds(c) \/ ChildExits(c)
        BY <3>4, ChildStepWhole
      <3> QED BY <3>1, <3>2, <3>3, <3>4 DEF ChildNext
    <2>3. Whole(session)' <=> Whole(session')
      BY <2>1 DEF Whole, Scheduled, latency_irtt_start_pending
    <2> QED BY <2>1, <2>2, <2>3 DEF ChildInv
  <1> QED BY <1>1, <1>2, PTL DEF ChildSpec

\* Every process that runs is known, and every start that is pending has its timer.
THEOREM ChildrenAreSound == ChildSpec => []ChildrenSound
  <1>1. ChildInv => ChildrenSound
    BY DEF ChildInv, Whole, Registered, Manned, Scheduled, ChildrenSound, ChildrenKept,
           StartScheduled
  <1> QED BY <1>1, ChildInvariance, PTL
=============================================================================

------------------------- MODULE StaticArenaProofs -------------------------
(***************************************************************************)
(* Proofs about StaticArena, for all lifetimes, alignments and byte widths *)
(* of the arena: the types, that no two conflicting tensors ever overlap,  *)
(* that the plan returned passes the verifier and never costs more for     *)
(* having been allowed aliases, that a tensor is placed at the least       *)
(* offset it could get, and that a pass fails only when there is none.     *)
(***************************************************************************)
EXTENDS StaticArena, TLAPS

(* What TypeOK and PlacedApart need to be inductive: the scan has passed   *)
(* only conflicts that end at or before the candidate; what is placed is   *)
(* aligned and ends within ByteMax; nothing is placed after the last pass, *)
(* an aliasing pass runs only if it may, and finished plans verify.        *)
ScannedEndBelow == \A c \in scanned : End(c) <= candidate
PlacedFit == \A t \in Placed : End(t) <= ByteMax
PlacedAligned == \A t \in Placed : offset[t] % EffectiveAlignment(t) = 0
PlacedWhilePlanning == current # NoTensor \/ Placed # {} => Planning
AliasPassAllowed == pass = "alias" => config.aliasing
PlansVerify ==
    \A p \in {"noAlias", "alias"} : plans[p].ok => Verifies(plans[p])

IInv == /\ TypeOK
        /\ ScannedEndBelow
        /\ PlacedFit
        /\ PlacedAligned
        /\ PlacedApart
        /\ PlacedWhilePlanning
        /\ AliasPassAllowed
        /\ PlansVerify
-----------------------------------------------------------------------------
(* Rounding.                                                               *)

LEMMA RoundingBounds ==
    ASSUME NEW v \in Nat, NEW a \in Nat \ {0}
    PROVE  AlignUp(v, a) \in Nat /\ v <= AlignUp(v, a) /\ AlignUp(v, a) <= v + (a - 1)
<1>1. v % a \in 0..a - 1
  OBVIOUS
<1>2. a - (v % a) \in Int
  BY <1>1
<1>3. (a - (v % a)) % a \in 0..a - 1
  BY <1>2
<1> QED
  BY <1>3 DEF AlignUp

LEMMA Division ==
    ASSUME NEW v \in Nat, NEW a \in Nat \ {0}
    PROVE  v = a * (v \div a) + (v % a) /\ v \div a \in Nat /\ v % a \in 0..a - 1
OBVIOUS

LEMMA MultipleRemainder ==
    ASSUME NEW k \in Nat, NEW a \in Nat \ {0}
    PROVE  (a * k) % a = 0
OBVIOUS

LEMMA SmallRemainder ==
    ASSUME NEW a \in Nat \ {0}, NEW k \in 0..a - 1
    PROVE  k % a = k /\ a % a = 0
OBVIOUS

(* align_up returns a multiple of the alignment. *)
LEMMA RoundingAligns ==
    ASSUME NEW v \in Nat, NEW a \in Nat \ {0}
    PROVE  AlignUp(v, a) % a = 0
<1> DEFINE q == v \div a
           r == v % a
<1>1. v = a * q + r /\ q \in Nat /\ r \in 0..a - 1
  BY Division
<1>2. CASE r = 0
  <2>1. a - r = a
    BY <1>2
  <2>2. AlignUp(v, a) = v
    BY <1>2, SmallRemainder DEF AlignUp
  <2> QED
    BY <1>2, <2>2
<1>3. CASE r # 0
  <2>1. a - r \in 0..a - 1
    BY <1>1, <1>3
  <2>2. (a - r) % a = a - r
    BY <2>1, SmallRemainder
  <2>3. AlignUp(v, a) = v + (a - r)
    BY <2>2 DEF AlignUp
  <2>4. AlignUp(v, a) = a * q + a
    BY <2>3, <1>1, <2>1
  <2>5. a * q + a = a * (q + 1)
    BY <1>1
  <2>6. (a * (q + 1)) % a = 0
    BY <1>1, MultipleRemainder
  <2> QED
    BY <2>4, <2>5, <2>6
<1> QED
  BY <1>2, <1>3
-----------------------------------------------------------------------------
(* What the types say of one tensor. *)
LEMMA LifetimeTypes ==
    ASSUME TypeOK, NEW t \in DOMAIN life
    PROVE  /\ life[t].size \in Nat \ {0}
           /\ EffectiveAlignment(t) \in Nat \ {0}
           /\ life[t].first \in Nat /\ life[t].last \in Nat
           /\ t \in Nat
BY SizeIsPositive, AlignmentIsPositive, StageIsNat, TensorIsNat
   DEF TypeOK, Lifetime, Config, EffectiveAlignment, Larger

(* The aligned candidate, when it does not overflow. *)
LEMMA AlignedCandidate ==
    ASSUME TypeOK, current # NoTensor, ~CandidateOverflows
    PROVE  /\ current \in DOMAIN life /\ current \notin Placed
           /\ Aligned \in Nat /\ candidate <= Aligned
           /\ Aligned + life[current].size <= ByteMax
           /\ Aligned % EffectiveAlignment(current) = 0
<1>1. current \in DOMAIN life /\ current \notin Placed
  BY DEF TypeOK, Unplaced
<1>2. EffectiveAlignment(current) \in Nat \ {0} /\ life[current].size \in Nat \ {0}
  BY <1>1, LifetimeTypes
<1>3. candidate \in Nat
  BY ByteMaxIsNat DEF TypeOK
<1>4. Aligned \in Nat /\ candidate <= Aligned
  BY <1>2, <1>3, RoundingBounds DEF Aligned
<1>5. Aligned % EffectiveAlignment(current) = 0
  BY <1>2, <1>3, RoundingAligns DEF Aligned
<1>6. Aligned + life[current].size <= ByteMax
  BY <1>2, <1>4, ByteMaxIsNat DEF CandidateOverflows
<1> QED
  BY <1>1, <1>4, <1>5, <1>6

LEMMA InitInv == Init => IInv
<1> SUFFICES ASSUME Init PROVE IInv
  OBVIOUS
<1>1. life \in [DOMAIN life -> Lifetime] /\ DOMAIN life \subseteq Tensor
  BY DEF Init
<1>2. Placed = {}
  BY DEF Init, Nothing, Placed
<1>3. \A p \in {"noAlias", "alias"} :
        plans[p] = IF DOMAIN life = {} THEN EmptyPlan ELSE Overflow
  BY DEF Init
<1>4. TypeOK
  BY <1>1, <1>2, <1>3, ByteMaxIsNat
     DEF Init, TypeOK, Nothing, Placed, EmptyPlan, Overflow
<1>5. PlansVerify
  <2> SUFFICES ASSUME NEW p \in {"noAlias", "alias"}, plans[p].ok
               PROVE  Verifies(plans[p])
    BY DEF PlansVerify
  <2>1. DOMAIN life = {} /\ plans[p] = EmptyPlan
    BY <1>3 DEF Overflow
  <2>2. config.arena \in Nat \ {0}
    BY AlignmentIsPositive DEF Init, Config
  <2>3. 0 % config.arena = 0
    BY <2>2, SmallRemainder
  <2> QED
    BY <2>1, <2>3 DEF Verifies, EmptyPlan, Nothing
<1>6. AliasPassAllowed
  BY DEF Init, AliasPassAllowed
<1>7. scanned = {} /\ current = NoTensor
  BY DEF Init
<1> QED
  BY <1>2, <1>4, <1>5, <1>6, <1>7
     DEF IInv, ScannedEndBelow, PlacedFit, PlacedAligned, PlacedApart,
         PlacedWhilePlanning

LEMMA PickInv == ASSUME IInv, Pick PROVE IInv'
<1> USE DEF IInv
<1>1. TypeOK'
  BY ByteMaxIsNat DEF Pick, TypeOK, Placed, Unplaced
<1>2. ScannedEndBelow'
  BY DEF Pick, ScannedEndBelow
<1>3. PlacedFit' /\ PlacedAligned' /\ PlacedApart' /\ AliasPassAllowed'
  BY DEF Pick, PlacedFit, PlacedAligned, PlacedApart, AliasPassAllowed, Placed,
         End, EffectiveAlignment, RangesOverlap
<1>4. PlansVerify' /\ PlacedWhilePlanning'
  BY DEF Pick, PlansVerify, Verifies, RangesOverlap, EffectiveAlignment,
         PlacedWhilePlanning, Planning
<1> QED
  BY <1>1, <1>2, <1>3, <1>4

(* A tensor is placed apart from every conflict: those already scanned end *)
(* below the candidate, the others begin behind its end.                   *)
LEMMA PlaceInv ==
    ASSUME IInv, current # NoTensor, ~CandidateOverflows, Place,
           \A d \in Unscanned : Aligned + life[current].size <= offset[d]
    PROVE  IInv'
<1> USE DEF IInv
<1> DEFINE a == Aligned
           n == life[current].size
<1>1. /\ current \in DOMAIN life /\ current \notin Placed
      /\ a \in Nat /\ candidate <= a /\ a + n <= ByteMax
      /\ a % EffectiveAlignment(current) = 0
  BY AlignedCandidate
<1>2. n \in Nat \ {0}
  BY <1>1, LifetimeTypes
<1>3. /\ Placed' = Placed \cup {current}
      /\ offset'[current] = a
      /\ \A t \in Placed : offset'[t] = offset[t]
      /\ offset' \in [Placed' -> 0..ByteMax]
  <2>1. offset \in [Placed -> 0..ByteMax]
    BY DEF TypeOK
  <2>2. a \in 0..ByteMax
    BY <1>1, <1>2, ByteMaxIsNat
  <2> QED
    BY <1>1, <2>1, <2>2 DEF Place, Placed
<1>4. /\ life' = life /\ config' = config /\ pass' = pass /\ plans' = plans
      /\ current' = NoTensor /\ scanned' = {} /\ candidate' = 0
  BY DEF Place
<1>5. TypeOK'
  BY <1>1, <1>3, <1>4, ByteMaxIsNat DEF TypeOK, Unplaced
<1>6. ScannedEndBelow'
  BY <1>4 DEF ScannedEndBelow
<1>7. PlacedFit'
  BY <1>1, <1>3, <1>4 DEF PlacedFit, End
<1>8. PlacedAligned'
  BY <1>1, <1>3, <1>4 DEF PlacedAligned, EffectiveAlignment
<1>9. ASSUME NEW u \in Placed, u \in Conflicts(current)
      PROVE  a + n <= offset[u] \/ offset[u] + life[u].size <= a
  <2>1. CASE u \in scanned
    <3>1. End(u) <= candidate
      BY <2>1 DEF ScannedEndBelow
    <3>2. End(u) \in Nat /\ candidate \in Nat
      BY LifetimeTypes, ByteMaxIsNat DEF TypeOK, End
    <3> QED
      BY <1>1, <3>1, <3>2 DEF End
  <2>2. CASE u \notin scanned
    BY <1>9, <2>2 DEF Unscanned
  <2> QED
    BY <2>1, <2>2
<1>10. ASSUME NEW u \in Placed,
              a < offset[u] + life[u].size, offset[u] < a + n
       PROVE  /\ pass = "alias"
              /\ ~LifetimesOverlap(life[current], life[u])
              /\ ~LifetimesOverlap(life[u], life[current])
  <2>1. offset[u] \in Nat /\ life[u].size \in Nat
    BY LifetimeTypes, ByteMaxIsNat DEF TypeOK
  <2>2. u \notin Conflicts(current)
    BY <1>1, <1>2, <1>9, <1>10, <2>1
  <2>3. pass # "noAlias" /\ ~LifetimesOverlap(life[current], life[u])
    BY <2>2 DEF Conflicts
  <2>4. pass # "done"
    BY DEF PlacedWhilePlanning, Planning
  <2> QED
    BY <2>3, <2>4 DEF TypeOK, LifetimesOverlap
<1>11. PlacedApart'
  <2> SUFFICES ASSUME NEW t \in Placed', NEW u \in Placed', t # u,
                      RangesOverlap(offset, t, u)'
               PROVE  pass' = "alias" /\ ~LifetimesOverlap(life'[t], life'[u])
    BY DEF PlacedApart
  <2>1. CASE t \in Placed /\ u \in Placed
    BY <2>1, <1>3, <1>4 DEF PlacedApart, RangesOverlap
  <2>2. CASE t = current
    BY <2>2, <1>3, <1>4, <1>10 DEF RangesOverlap
  <2>3. CASE u = current
    BY <2>3, <1>3, <1>4, <1>10 DEF RangesOverlap
  <2> QED
    BY <1>3, <2>1, <2>2, <2>3
<1>12. AliasPassAllowed' /\ PlansVerify'
  BY <1>4 DEF AliasPassAllowed, PlansVerify, Verifies, RangesOverlap,
              EffectiveAlignment
<1>13. PlacedWhilePlanning'
  BY <1>4 DEF PlacedWhilePlanning, Planning
<1> QED
  BY <1>13, <1>5, <1>6, <1>7, <1>8, <1>11, <1>12

(* The least unscanned conflict begins behind the gap: all do. *)
LEMMA GapIsFree ==
    ASSUME IInv, PlaceInGap
    PROVE  \A d \in Unscanned : Aligned + life[current].size <= offset[d]
<1>1. PICK c \in Unscanned :
         /\ \A d \in Unscanned : ScanBefore(c, d)
         /\ Aligned + life[current].size <= offset[c]
  BY DEF PlaceInGap
<1>2. \A d \in Unscanned : offset[d] \in Nat
  BY ByteMaxIsNat DEF IInv, TypeOK, Unscanned, Conflicts
<1>3. \A d \in Unscanned : offset[c] <= offset[d]
  BY <1>1, <1>2 DEF ScanBefore
<1>4. Aligned \in Nat /\ life[current].size \in Nat
  BY AlignedCandidate, LifetimeTypes DEF IInv, PlaceInGap
<1> QED
  BY <1>1, <1>2, <1>3, <1>4

LEMMA PlaceInGapInv == ASSUME IInv, PlaceInGap PROVE IInv'
BY GapIsFree, PlaceInv DEF PlaceInGap

LEMMA PlaceAtEndInv == ASSUME IInv, PlaceAtEnd PROVE IInv'
BY PlaceInv DEF PlaceAtEnd

(* The candidate only grows, and passes the end of the conflict. *)
LEMMA PassConflictInv == ASSUME IInv, PassConflict PROVE IInv'
<1> USE DEF IInv
<1>1. PICK c \in Unscanned :
         /\ candidate' = Larger(Aligned, End(c))
         /\ scanned' = scanned \cup {c}
  BY DEF PassConflict
<1>2. /\ life' = life /\ config' = config /\ pass' = pass /\ plans' = plans
      /\ offset' = offset /\ current' = current
  BY DEF PassConflict
<1>3. /\ Aligned \in Nat /\ candidate <= Aligned
      /\ Aligned + life[current].size <= ByteMax
      /\ life[current].size \in Nat
  BY AlignedCandidate, LifetimeTypes DEF PassConflict
<1>4. c \in Placed
  BY DEF Unscanned, Conflicts
<1>5. \A t \in Placed : End(t) \in Nat /\ End(t) <= ByteMax
  BY LifetimeTypes, ByteMaxIsNat DEF TypeOK, End, PlacedFit
<1>6. candidate' \in 0..ByteMax /\ Aligned <= candidate' /\ End(c) <= candidate'
  BY <1>1, <1>3, <1>4, <1>5, ByteMaxIsNat DEF Larger
<1>7. TypeOK'
  BY <1>1, <1>2, <1>4, <1>6 DEF TypeOK, Placed, Unplaced
<1>8. ScannedEndBelow'
  <2>1. candidate \in Nat /\ scanned \subseteq Placed
    BY ByteMaxIsNat DEF TypeOK
  <2>2. \A t \in scanned : End(t) <= candidate'
    BY <1>3, <1>5, <1>6, <2>1, ByteMaxIsNat DEF ScannedEndBelow
  <2>3. \A t : End(t)' = End(t)
    BY <1>2 DEF End
  <2> QED
    BY <1>1, <1>6, <2>2, <2>3 DEF ScannedEndBelow
<1>9. PlacedFit' /\ PlacedAligned' /\ PlacedApart' /\ AliasPassAllowed'
  BY <1>2 DEF PlacedFit, PlacedAligned, PlacedApart, AliasPassAllowed, Placed,
              End, EffectiveAlignment, RangesOverlap
<1>10. PlansVerify' /\ PlacedWhilePlanning'
  BY <1>2 DEF PlansVerify, Verifies, RangesOverlap, EffectiveAlignment,
              PlacedWhilePlanning, Planning, Placed
<1> QED
  BY <1>7, <1>8, <1>9, <1>10

(* A pass may end with any plan that verifies. *)
LEMMA EndPassInv ==
    ASSUME IInv, Planning, NEW plan, EndPass(plan),
           plan.ok \in BOOLEAN, plan.bytes \in 0..ByteMax,
           plan.ok => /\ DOMAIN plan.offset = DOMAIN life
                      /\ plan.offset \in [DOMAIN life -> 0..ByteMax]
                      /\ Verifies(plan)
    PROVE  IInv'
<1> USE DEF IInv
<1>1. /\ life' = life /\ config' = config /\ offset' = Nothing
      /\ current' = NoTensor /\ scanned' = {} /\ candidate' = 0
      /\ pass' = IF pass = "noAlias" /\ config.aliasing THEN "alias" ELSE "done"
  BY DEF EndPass
<1>2. /\ DOMAIN plans' = {"noAlias", "alias"}
      /\ \A p \in {"noAlias", "alias"} : plans'[p] = plan \/ plans'[p] = plans[p]
  BY DEF EndPass, TypeOK
<1>3. Placed' = {}
  BY <1>1 DEF Placed, Nothing
<1>4. TypeOK'
  BY <1>1, <1>2, <1>3, ByteMaxIsNat DEF TypeOK, Nothing
<1>5. PlansVerify'
  <2> SUFFICES ASSUME NEW p \in {"noAlias", "alias"}, plans'[p].ok
               PROVE  Verifies(plans[p])'
    BY DEF PlansVerify
  <2>1. Verifies(plans'[p])
    BY <1>2 DEF PlansVerify
  <2> QED
    BY <1>1, <2>1 DEF Verifies, RangesOverlap, EffectiveAlignment
<1>6. AliasPassAllowed'
  BY <1>1 DEF AliasPassAllowed
<1> QED
  BY <1>1, <1>3, <1>4, <1>5, <1>6
     DEF ScannedEndBelow, PlacedFit, PlacedAligned, PlacedApart,
         PlacedWhilePlanning

LEMMA FailInv == ASSUME IInv, Fail PROVE IInv'
<1>1. Planning /\ EndPass(Overflow)
  BY DEF Fail, IInv, PlacedWhilePlanning
<1>2. ~Overflow.ok /\ Overflow.ok \in BOOLEAN /\ Overflow.bytes \in 0..ByteMax
  BY ByteMaxIsNat DEF Overflow
<1> QED
  BY <1>1, <1>2, EndPassInv

(* The arena's end is the largest end, rounded up. *)
LEMMA FinalizeInv == ASSUME IInv, Finalize PROVE IInv'
<1> USE DEF IInv
<1>1. PICK peak \in {End(t) : t \in Placed} :
         /\ \A t \in Placed : End(t) <= peak
         /\ EndPass(IF AlignOverflows(peak, config.arena) THEN Overflow
                    ELSE [ok |-> TRUE, bytes |-> AlignUp(peak, config.arena),
                          offset |-> offset])
  BY DEF Finalize
<1>2. Planning /\ Placed = DOMAIN life
  BY DEF Finalize, Unplaced, TypeOK
<1>3. CASE AlignOverflows(peak, config.arena)
  <2>1. EndPass(Overflow)
    BY <1>1, <1>3
  <2>2. ~Overflow.ok /\ Overflow.ok \in BOOLEAN /\ Overflow.bytes \in 0..ByteMax
    BY ByteMaxIsNat DEF Overflow
  <2> QED
    BY <1>2, <2>1, <2>2, EndPassInv
<1>4. CASE ~AlignOverflows(peak, config.arena)
  <2> DEFINE b == AlignUp(peak, config.arena)
             plan == [ok |-> TRUE, bytes |-> b, offset |-> offset]
  <2>1. config.arena \in Nat \ {0}
    BY AlignmentIsPositive DEF TypeOK, Config
  <2>2. \A t \in Placed : End(t) \in Nat /\ End(t) <= ByteMax
    BY LifetimeTypes, ByteMaxIsNat DEF TypeOK, End, PlacedFit
  <2>3. peak \in Nat
    BY <2>2
  <2>4. b \in Nat /\ peak <= b /\ b <= peak + (config.arena - 1)
    BY <2>1, <2>3, RoundingBounds
  <2>5. b % config.arena = 0
    BY <2>1, <2>3, RoundingAligns
  <2>6. b \in 0..ByteMax
    BY <1>4, <2>1, <2>3, <2>4, ByteMaxIsNat DEF AlignOverflows
  <2>7. offset \in [DOMAIN life -> 0..ByteMax] /\ DOMAIN offset = DOMAIN life
    BY <1>2 DEF TypeOK, Placed
  <2>8. \A t \in DOMAIN life : /\ offset[t] % EffectiveAlignment(t) = 0
                               /\ offset[t] + life[t].size <= b
                               /\ offset[t] + life[t].size <= ByteMax
    BY <1>1, <1>2, <2>2, <2>3, <2>4 DEF PlacedAligned, End
  <2>9. \A t, u \in DOMAIN life :
           t # u /\ RangesOverlap(offset, t, u) =>
               config.aliasing /\ ~LifetimesOverlap(life[t], life[u])
    BY <1>2 DEF PlacedApart, AliasPassAllowed
  <2> HIDE DEF b
  <2>10. Verifies(plan)
    BY <2>5, <2>7, <2>8, <2>9 DEF Verifies
  <2>11. EndPass(plan)
    BY <1>1, <1>4 DEF b
  <2>12. plan.ok \in BOOLEAN /\ plan.bytes \in 0..ByteMax /\ plan.offset = offset
    BY <2>6
  <2> HIDE DEF plan
  <2> QED
    BY <1>2, <2>7, <2>10, <2>11, <2>12, EndPassInv
<1> QED
  BY <1>3, <1>4

LEMMA NextInv == ASSUME IInv, [Next]_vars PROVE IInv'
<1>1. CASE UNCHANGED vars
  BY <1>1 DEF vars, IInv, TypeOK, ScannedEndBelow, PlacedFit, PlacedAligned,
              PlacedApart, PlacedWhilePlanning, AliasPassAllowed, PlansVerify,
              Placed, Unplaced, Planning, End, EffectiveAlignment, RangesOverlap,
              Verifies
<1> QED
  BY <1>1, PickInv, PlaceInGapInv, PassConflictInv, PlaceAtEndInv, FailInv,
     FinalizeInv DEF Next
-----------------------------------------------------------------------------
(* The strengthened invariant: what plan_no_aliasing and                   *)
(* plan_aliasing_first_fit keep true from one iteration to the next.       *)
THEOREM InductiveInvariant == Spec => []IInv
BY InitInv, NextInv, PTL DEF Spec

(* Offsets, candidates and arena sizes never leave the u64 range: no       *)
(* arithmetic of the planner wraps.                                        *)
THEOREM TypeCorrect == Spec => []TypeOK
<1>1. IInv => TypeOK
  BY DEF IInv
<1> QED
  BY <1>1, InductiveInvariant, PTL

(* Whatever the lifetimes, no two conflicting buffers get common bytes. *)
THEOREM PlacementIsSafe == Spec => []PlacedApart
<1>1. IInv => PlacedApart
  BY DEF IInv
<1> QED
  BY <1>1, InductiveInvariant, PTL

(* plan_static_arena returns only plans verify_static_arena_plan accepts. *)
THEOREM ReturnedPlanVerifies == Spec => []ResultVerifies
<1>1. IInv => ResultVerifies
  BY DEF IInv, PlansVerify, ResultVerifies, Result
<1> QED
  BY <1>1, InductiveInvariant, PTL

(* The smaller of two plans is returned: an aliasing pass that fails or    *)
(* needs more bytes never displaces the plan without aliases.              *)
THEOREM AliasingIsFree == Spec => []AliasingNeverCosts
<1>1. TypeOK => AliasingNeverCosts
  <2> SUFFICES ASSUME TypeOK, plans.noAlias.ok
               PROVE  Result.ok /\ Result.bytes <= plans.noAlias.bytes
    BY DEF AliasingNeverCosts
  <2>1. \A p \in {"noAlias", "alias"} : plans[p].bytes \in Nat
    BY ByteMaxIsNat DEF TypeOK
  <2>2. plans.alias.bytes \in Nat /\ plans.noAlias.bytes \in Nat
    BY <2>1
  <2>3. CASE Result = plans.noAlias
    BY <2>2, <2>3
  <2>4. CASE Result # plans.noAlias
    <3>1. Result = plans.alias /\ plans.alias.ok
          /\ ~(plans.alias.bytes > plans.noAlias.bytes)
      BY <2>4 DEF Result
    <3> QED
      BY <2>2, <3>1
  <2> QED
    BY <2>3, <2>4
<1> QED
  BY <1>1, TypeCorrect, PTL
-----------------------------------------------------------------------------
(* The first fit is the least fit.                                         *)

(* Two multiples of a are at least a apart. *)
LEMMA MultiplesApart ==
    ASSUME NEW a \in Nat \ {0}, NEW m \in Nat, NEW n \in Nat,
           m % a = 0, n % a = 0, m < n
    PROVE  m + a <= n
<1>1. PICK q \in Nat : m = a * q
  <2>1. m = a * (m \div a) + (m % a) /\ m \div a \in Nat
    BY Division
  <2>2. m = a * (m \div a)
    BY <2>1
  <2> QED
    BY <2>1, <2>2, Zenon
<1>2. PICK k \in Nat : n = a * k
  <2>1. n = a * (n \div a) + (n % a) /\ n \div a \in Nat
    BY Division
  <2>2. n = a * (n \div a)
    BY <2>1
  <2> QED
    BY <2>1, <2>2, Zenon
<1>3. q < k
  <2> SUFFICES ASSUME k <= q PROVE FALSE
    BY <1>1, <1>2
  <2>1. a * k <= a * q
    OBVIOUS
  <2> QED
    BY <1>1, <1>2, <2>1
<1>4. a * (q + 1) <= a * k
  BY <1>3
<1>5. a * (q + 1) = m + a
  BY <1>1
<1> QED
  BY <1>2, <1>4, <1>5

(* align_up returns the least multiple that is not below its argument. *)
LEMMA RoundingIsLeast ==
    ASSUME NEW v \in Nat, NEW a \in Nat \ {0}, NEW m \in Nat,
           v <= m, m % a = 0
    PROVE  AlignUp(v, a) <= m
<1>1. /\ AlignUp(v, a) \in Nat /\ AlignUp(v, a) <= v + (a - 1)
      /\ AlignUp(v, a) % a = 0
  BY RoundingBounds, RoundingAligns
<1>2. AlignUp(v, a) > m => m + a <= AlignUp(v, a)
  BY <1>1, MultiplesApart
<1> QED
  BY <1>1, <1>2

(* checked_add fails in align_up only if there is no multiple within u64:  *)
(* the next one is the number of addresses at least.                       *)
LEMMA NoMultipleAbove ==
    ASSUME NEW v \in Nat, NEW a \in Alignment, AlignOverflows(v, a),
           NEW m \in 0..ByteMax, v <= m
    PROVE  m % a # 0
<1> SUFFICES ASSUME m % a = 0 PROVE FALSE
  BY Zenon
<1>1. (ByteMax + 1) % a = 0
  BY AlignmentDividesRange, Zenon
<1>2. a \in Nat \ {0} /\ ByteMax + 1 \in Nat /\ m \in Nat /\ m < ByteMax + 1
  BY AlignmentIsPositive, ByteMaxIsNat
<1>3. m + a <= ByteMax + 1
  BY <1>1, <1>2, MultiplesApart
<1>4. v + (a - 1) > ByteMax
  BY DEF AlignOverflows
<1> QED
  BY <1>2, <1>3, <1>4, ByteMaxIsNat

LEMMA AlignmentTypes ==
    ASSUME TypeOK, NEW t \in DOMAIN life
    PROVE  EffectiveAlignment(t) \in Alignment /\ config.arena \in Alignment
BY DEF TypeOK, Lifetime, Config, EffectiveAlignment, Larger

(* The scan has skipped no offset the tensor could get. *)
CandidateLowest == current # NoTensor => \A v \in Feasible(current) : candidate <= v

(* A feasible offset is not below the aligned candidate either. *)
LEMMA AlignedLowest ==
    ASSUME IInv, CandidateLowest, current # NoTensor, ~CandidateOverflows,
           NEW v \in Feasible(current)
    PROVE  Aligned <= v /\ v \in Nat
<1>1. current \in DOMAIN life
  BY DEF IInv, TypeOK, Unplaced
<1>2. EffectiveAlignment(current) \in Nat \ {0} /\ candidate \in Nat
  BY <1>1, LifetimeTypes, ByteMaxIsNat DEF IInv, TypeOK
<1>3. v \in Nat /\ candidate <= v /\ v % EffectiveAlignment(current) = 0
  BY ByteMaxIsNat DEF CandidateLowest, Feasible
<1> QED
  BY <1>2, <1>3, RoundingIsLeast DEF Aligned

(* Passing a conflict skips only offsets that overlap it. *)
LEMMA PassConflictLowest ==
    ASSUME IInv, CandidateLowest, PassConflict
    PROVE  CandidateLowest'
<1>1. current # NoTensor /\ ~CandidateOverflows
  BY DEF PassConflict
<1>2. PICK c \in Unscanned : /\ Aligned + life[current].size > offset[c]
                             /\ candidate' = Larger(Aligned, End(c))
  BY DEF PassConflict
<1>3. /\ current' = current
      /\ Feasible(current)' = Feasible(current)
  BY DEF PassConflict, Feasible, EffectiveAlignment, Conflicts, End, Placed
<1> SUFFICES ASSUME NEW v \in Feasible(current) PROVE candidate' <= v
  BY <1>3 DEF CandidateLowest
<1>4. Aligned <= v /\ v \in Nat
  BY <1>1, AlignedLowest
<1>5. c \in Placed /\ c \in Conflicts(current)
  BY DEF Unscanned, Conflicts
<1>6. v + life[current].size <= offset[c] \/ End(c) <= v
  BY <1>5 DEF Feasible
<1>7. Aligned \in Nat /\ life[current].size \in Nat /\ offset[c] \in Nat
  BY <1>1, <1>5, AlignedCandidate, LifetimeTypes, ByteMaxIsNat DEF IInv, TypeOK
<1>8. End(c) <= v
  BY <1>2, <1>4, <1>6, <1>7
<1> QED
  BY <1>2, <1>4, <1>8 DEF Larger

LEMMA InitLowest == Init => CandidateLowest
BY DEF Init, CandidateLowest

LEMMA NextLowest == IInv /\ CandidateLowest /\ [Next]_vars => CandidateLowest'
<1> SUFFICES ASSUME IInv, CandidateLowest, [Next]_vars PROVE CandidateLowest'
  OBVIOUS
<1>1. CASE Pick
  BY <1>1, ByteMaxIsNat DEF Pick, CandidateLowest, Feasible
<1>2. CASE PlaceInGap \/ PlaceAtEnd
  BY <1>2 DEF PlaceInGap, PlaceAtEnd, Place, CandidateLowest
<1>3. CASE Fail \/ Finalize
  BY <1>3 DEF Fail, Finalize, EndPass, CandidateLowest
<1>4. CASE UNCHANGED vars
  BY <1>4 DEF vars, CandidateLowest, Feasible, EffectiveAlignment, Conflicts,
              End, Placed
<1> QED
  BY <1>1, <1>2, <1>3, <1>4, PassConflictLowest DEF Next

LEMMA LowestAlways == Spec => [](IInv /\ CandidateLowest)
<1>1. Init => IInv /\ CandidateLowest
  BY InitInv, InitLowest
<1>2. IInv /\ CandidateLowest /\ [Next]_vars => IInv' /\ CandidateLowest'
  BY NextInv, NextLowest
<1> QED
  BY <1>1, <1>2, PTL DEF Spec

(* Place puts the tensor where the scan stopped. *)
LEMMA PlaceIsLowest ==
    ASSUME IInv, CandidateLowest, current # NoTensor, ~CandidateOverflows, Place,
           \A d \in Unscanned : Aligned + life[current].size <= offset[d],
           NEW t \in DOMAIN offset' \ Placed
    PROVE  offset'[t] \in Feasible(t) /\ \A v \in Feasible(t) : offset'[t] <= v
<1>1. /\ current \in DOMAIN life /\ current \notin Placed
      /\ Aligned \in Nat /\ candidate <= Aligned
      /\ Aligned + life[current].size <= ByteMax
      /\ Aligned % EffectiveAlignment(current) = 0
  BY AlignedCandidate DEF IInv
<1>2. t = current /\ offset'[t] = Aligned
  BY DEF Place, Placed
<1>3. \A v \in Feasible(current) : Aligned <= v
  BY AlignedLowest
<1>4. life[current].size \in Nat \ {0}
  BY <1>1, LifetimeTypes DEF IInv
<1>5. ASSUME NEW u \in Conflicts(current)
      PROVE  Aligned + life[current].size <= offset[u] \/ End(u) <= Aligned
  <2>1. CASE u \in scanned
    <3>1. End(u) <= candidate
      BY <2>1 DEF IInv, ScannedEndBelow
    <3>2. End(u) \in Nat /\ candidate \in Nat
      BY LifetimeTypes, ByteMaxIsNat DEF IInv, TypeOK, End, Conflicts
    <3> QED
      BY <1>1, <3>1, <3>2
  <2>2. CASE u \notin scanned
    BY <2>2 DEF Unscanned
  <2> QED
    BY <2>1, <2>2
<1>6. Aligned \in 0..ByteMax
  BY <1>1, <1>4, ByteMaxIsNat
<1>7. Aligned \in Feasible(current)
  BY <1>1, <1>5, <1>6 DEF Feasible
<1> QED
  BY <1>2, <1>3, <1>7

(* lowest_available_offset returns the lowest offset available: aligned,   *)
(* within u64, apart from every conflict, and below every other such one.  *)
THEOREM FirstFitIsLowest == Spec => PlacedLowest
<1> DEFINE Lowest ==
       \A t \in DOMAIN offset' \ Placed :
          /\ offset'[t] \in Feasible(t)
          /\ \A v \in Feasible(t) : offset'[t] <= v
<1>1. IInv /\ CandidateLowest /\ [Next]_vars => [Lowest]_vars
  <2> SUFFICES ASSUME IInv, CandidateLowest, Next PROVE Lowest
    OBVIOUS
  <2>1. CASE PlaceInGap
    BY <2>1, GapIsFree, PlaceIsLowest DEF PlaceInGap
  <2>2. CASE PlaceAtEnd
    BY <2>2, PlaceIsLowest DEF PlaceAtEnd
  <2>3. CASE Pick \/ PassConflict
    BY <2>3 DEF Pick, PassConflict, Placed
  <2>4. CASE Fail \/ Finalize
    BY <2>4 DEF Fail, Finalize, EndPass, Nothing
  <2> QED
    BY <2>1, <2>2, <2>3, <2>4 DEF Next
<1> QED
  BY <1>1, LowestAlways, PTL DEF Spec, PlacedLowest

(* The scan overflows only when no offset is left. *)
LEMMA FailIsFull ==
    ASSUME IInv, CandidateLowest, current # NoTensor, CandidateOverflows
    PROVE  Feasible(current) = {}
<1> SUFFICES ASSUME NEW v \in Feasible(current) PROVE FALSE
  OBVIOUS
<1> DEFINE a == EffectiveAlignment(current)
<1>1. current \in DOMAIN life
  BY DEF IInv, TypeOK, Unplaced
<1>2. /\ a \in Alignment /\ a \in Nat \ {0} /\ candidate \in Nat
      /\ life[current].size \in Nat \ {0}
  BY <1>1, AlignmentTypes, LifetimeTypes, ByteMaxIsNat DEF IInv, TypeOK
<1>3. /\ v \in 0..ByteMax /\ v \in Nat /\ candidate <= v /\ v % a = 0
      /\ v + life[current].size <= ByteMax
  BY ByteMaxIsNat DEF CandidateLowest, Feasible
<1> HIDE DEF a
<1>4. ~AlignOverflows(candidate, a)
  BY <1>2, <1>3, NoMultipleAbove
<1>5. Aligned <= v /\ Aligned \in Nat
  BY <1>2, <1>3, RoundingIsLeast, RoundingBounds DEF Aligned, a
<1>6. Aligned + life[current].size > ByteMax
  BY <1>4 DEF CandidateOverflows, a
<1> QED
  BY <1>2, <1>3, <1>5, <1>6, ByteMaxIsNat

LEMMA FinalizeIsFull ==
    ASSUME IInv, Finalize, ~plans'[pass].ok
    PROVE  \E t \in Placed : \A e \in End(t)..ByteMax : e % config.arena # 0
<1>1. PICK t \in Placed :
         EndPass(IF AlignOverflows(End(t), config.arena) THEN Overflow
                 ELSE [ok |-> TRUE, bytes |-> AlignUp(End(t), config.arena),
                       offset |-> offset])
  BY DEF Finalize
<1>2. pass \in DOMAIN plans
  BY DEF Finalize, Planning, IInv, TypeOK
<1>3. AlignOverflows(End(t), config.arena)
  BY <1>1, <1>2 DEF EndPass
<1>4. End(t) \in Nat
  BY LifetimeTypes, ByteMaxIsNat DEF IInv, TypeOK, End
<1>5. config.arena \in Alignment
  BY DEF IInv, TypeOK, Config
<1>6. ASSUME NEW e \in End(t)..ByteMax PROVE e % config.arena # 0
  <2>1. e \in 0..ByteMax /\ End(t) <= e
    BY <1>4, ByteMaxIsNat
  <2> QED
    BY <1>3, <1>4, <1>5, <2>1, NoMultipleAbove
<1> QED
  BY <1>6

(* A pass fails for one reason only: u64 has no room for a tensor among    *)
(* its conflicts, or for the rounded end of the arena.                     *)
THEOREM FailureIsJustified == Spec => FailsOnlyWhenFull
<1> DEFINE Full ==
       (Planning /\ pass' # pass /\ ~plans'[pass].ok) =>
          IF current # NoTensor THEN Feasible(current) = {}
          ELSE \E t \in Placed : \A e \in End(t)..ByteMax :
                   e % config.arena # 0
<1>1. IInv /\ CandidateLowest /\ [Next]_vars => [Full]_vars
  <2> SUFFICES ASSUME IInv, CandidateLowest, Next PROVE Full
    OBVIOUS
  <2>1. CASE Fail
    BY <2>1, FailIsFull DEF Fail
  <2>2. CASE Finalize
    <3>1. current = NoTensor
      BY <2>2 DEF Finalize
    <3> QED
      BY <2>2, <3>1, FinalizeIsFull
  <2>3. CASE Pick \/ PassConflict \/ PlaceInGap \/ PlaceAtEnd
    BY <2>3 DEF Pick, PassConflict, PlaceInGap, PlaceAtEnd, Place
  <2> QED
    BY <2>1, <2>2, <2>3 DEF Next
<1> QED
  BY <1>1, LowestAlways, PTL DEF Spec, FailsOnlyWhenFull
=============================================================================

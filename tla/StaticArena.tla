---------------------------- MODULE StaticArena ----------------------------
(***************************************************************************)
(* The static arena planner of pvlc-memory/src/lib.rs: it places buffers   *)
(* with known lifetimes in one arena, first without aliasing and then, if  *)
(* allowed, letting buffers that never live together share bytes, and      *)
(* keeps the smaller plan.  One behaviour is one call of plan_static_arena *)
(* on valid lifetimes; a step is one iteration of its loops.               *)
(*                                                                         *)
(* The loops over sorted vectors are steps that take a least remaining     *)
(* element.  An allocation is the offset of its tensor: the rest of it is  *)
(* copied from the lifetime.                                               *)
(***************************************************************************)
EXTENDS Integers, FiniteSets

CONSTANTS Tensor,       \* identifiers, compared as the code's strings
          Size,         \* byte sizes
          Alignment,    \* powers of two
          Stage,        \* first_write and last_use
          ByteMax       \* u64::MAX

ASSUME TensorIsNat == Tensor \subseteq Nat
ASSUME SizeIsPositive == Size \subseteq Nat \ {0}
ASSUME AlignmentIsPositive == Alignment \subseteq Nat \ {0}
ASSUME StageIsNat == Stage \subseteq Nat
ASSUME ByteMaxIsNat == ByteMax \in Nat
(* Powers of two divide the number of addresses, two to the 64th.          *)
ASSUME AlignmentDividesRange == \A a \in Alignment : (ByteMax + 1) % a = 0

VARIABLES
    life,       \* the lifetimes: tensor to size, alignment, first, last
    config,     \* the ArenaConfig
    pass,       \* "noAlias", "alias" or "done"
    offset,     \* the placed tensors with their offsets
    current,    \* the tensor being placed, or NoTensor
    scanned,    \* the conflicts already passed while placing it
    candidate,  \* its candidate offset
    plans       \* the plan or the failure of each finished pass

vars == <<life, config, pass, offset, current, scanned, candidate, plans>>

NoTensor == -1
Lifetime == {l \in [size : Size, alignment : Alignment, first : Stage,
                    last : Stage] : l.first <= l.last}
Config == [aliasing : BOOLEAN, base : Alignment, arena : Alignment]

Nothing == [t \in {} |-> 0]
Overflow == [ok |-> FALSE, bytes |-> 0, offset |-> Nothing]
EmptyPlan == [ok |-> TRUE, bytes |-> 0, offset |-> Nothing]

Init ==
    /\ \E T \in SUBSET Tensor : life \in [T -> Lifetime]
    /\ config \in Config
    /\ pass = IF DOMAIN life = {} THEN "done" ELSE "noAlias"
    /\ plans = [p \in {"noAlias", "alias"} |->
                   IF DOMAIN life = {} THEN EmptyPlan ELSE Overflow]
    /\ offset = Nothing
    /\ current = NoTensor
    /\ scanned = {}
    /\ candidate = 0
-----------------------------------------------------------------------------
Larger(m, n) == IF m >= n THEN m ELSE n

(* align_up: the least multiple of alignment a that is not below v.        *)
(* Mutant: rounding down.                                                  *)
AlignDown(v, a) == v - (v % a)
AlignUp(v, a) == v + ((a - (v % a)) % a)

(* Its checked_add.  Mutant: unchecked. *)
AlignUnchecked(v, a) == FALSE
AlignOverflows(v, a) == v + (a - 1) > ByteMax

EffectiveAlignment(t) == Larger(config.base, life[t].alignment)

LifetimesOverlap(l, m) == l.first <= m.last /\ m.first <= l.last

End(t) == offset[t] + life[t].size

Placed == DOMAIN offset
Unplaced == DOMAIN life \ Placed

(* The lexicographic orders of the code's sorts. *)
CanonicalBefore(t, u) ==
    \/ life[t].first < life[u].first
    \/ life[t].first = life[u].first /\ t <= u

AliasBefore(t, u) ==
    \/ life[t].size > life[u].size
    \/ /\ life[t].size = life[u].size
       /\ \/ EffectiveAlignment(t) > EffectiveAlignment(u)
          \/ /\ EffectiveAlignment(t) = EffectiveAlignment(u)
             /\ CanonicalBefore(t, u)

Before(t, u) == IF pass = "noAlias" THEN CanonicalBefore(t, u)
                ELSE AliasBefore(t, u)

(* Mutant: the conflicts are visited in any order. *)
ScanAnyOrder(t, u) == TRUE
ScanBefore(t, u) ==
    \/ offset[t] < offset[u]
    \/ /\ offset[t] = offset[u]
       /\ \/ life[t].size < life[u].size
          \/ life[t].size = life[u].size /\ t <= u

(* The placed tensors that t must not overlap.                             *)
(* Mutant: lifetimes that meet in one stage do not conflict.               *)
ConflictsOpen(t) ==
    {u \in Placed : \/ pass = "noAlias"
                    \/ /\ life[t].first < life[u].last
                       /\ life[u].first < life[t].last}
Conflicts(t) ==
    {u \in Placed : pass = "noAlias" \/ LifetimesOverlap(life[t], life[u])}

Unscanned == Conflicts(current) \ scanned
-----------------------------------------------------------------------------
Planning == pass \in {"noAlias", "alias"}

(* lowest_available_offset starts for the next tensor. *)
Pick ==
    /\ Planning
    /\ current = NoTensor
    /\ \E t \in Unplaced :
          /\ \A u \in Unplaced : Before(t, u)
          /\ current' = t
    /\ scanned' = {}
    /\ candidate' = 0
    /\ UNCHANGED <<life, config, pass, offset, plans>>

Aligned == AlignUp(candidate, EffectiveAlignment(current))

(* The candidate is aligned, and the tensor ends within u64.               *)
(* Mutant: the last byte is not used.                                      *)
CandidateOverflowsEarly ==
    \/ AlignOverflows(candidate, EffectiveAlignment(current))
    \/ Aligned + life[current].size >= ByteMax
CandidateOverflows ==
    \/ AlignOverflows(candidate, EffectiveAlignment(current))
    \/ Aligned + life[current].size > ByteMax

Place ==
    /\ offset' = [t \in Placed \cup {current} |->
                     IF t = current THEN Aligned ELSE offset[t]]
    /\ current' = NoTensor
    /\ scanned' = {}
    /\ candidate' = 0
    /\ UNCHANGED <<life, config, pass, plans>>

(* The tensor ends before the next conflict. *)
PlaceInGap ==
    /\ current # NoTensor
    /\ ~CandidateOverflows
    /\ \E c \in Unscanned :
          /\ \A d \in Unscanned : ScanBefore(c, d)
          /\ Aligned + life[current].size <= offset[c]
    /\ Place

(* The candidate moves behind the next conflict, unless it is there. *)
PassConflict ==
    /\ current # NoTensor
    /\ ~CandidateOverflows
    /\ \E c \in Unscanned :
          /\ \A d \in Unscanned : ScanBefore(c, d)
          /\ Aligned + life[current].size > offset[c]
          /\ candidate' = Larger(Aligned, End(c))
          /\ scanned' = scanned \cup {c}
    /\ UNCHANGED <<life, config, pass, offset, current, plans>>

PlaceAtEnd ==
    /\ current # NoTensor
    /\ Unscanned = {}
    /\ ~CandidateOverflows
    /\ Place

(* The pass ends with `plan`; aliasing is tried second. *)
EndPass(plan) ==
    /\ plans' = [plans EXCEPT ![pass] = plan]
    /\ pass' = IF pass = "noAlias" /\ config.aliasing THEN "alias" ELSE "done"
    /\ offset' = Nothing
    /\ current' = NoTensor
    /\ scanned' = {}
    /\ candidate' = 0
    /\ UNCHANGED <<life, config>>

Fail ==
    /\ current # NoTensor
    /\ CandidateOverflows
    /\ EndPass(Overflow)

(* finalize_plan. *)
Finalize ==
    /\ Planning
    /\ current = NoTensor
    /\ Unplaced = {}
    /\ \E peak \in {End(t) : t \in Placed} :
          /\ \A t \in Placed : End(t) <= peak
          /\ EndPass(IF AlignOverflows(peak, config.arena) THEN Overflow
                     ELSE [ok |-> TRUE, bytes |-> AlignUp(peak, config.arena),
                           offset |-> offset])

Next == Pick \/ PlaceInGap \/ PassConflict \/ PlaceAtEnd \/ Fail \/ Finalize

Spec == Init /\ [][Next]_vars
-----------------------------------------------------------------------------
(* The result of plan_static_arena.  Mutant: the aliasing plan, always. *)
ResultAliasing == IF config.aliasing THEN plans.alias ELSE plans.noAlias
Result ==
    IF ~config.aliasing THEN plans.noAlias
    ELSE IF /\ plans.noAlias.ok
            /\ plans.alias.ok => plans.alias.bytes > plans.noAlias.bytes
    THEN plans.noAlias ELSE plans.alias

(* verify_static_arena_plan. *)
RangesOverlap(o, t, u) ==
    o[t] < o[u] + life[u].size /\ o[u] < o[t] + life[t].size

Verifies(plan) ==
    /\ plan.bytes % config.arena = 0
    /\ DOMAIN plan.offset = DOMAIN life
    /\ \A t \in DOMAIN life :
          /\ plan.offset[t] % EffectiveAlignment(t) = 0
          /\ plan.offset[t] + life[t].size <= plan.bytes
          /\ plan.offset[t] + life[t].size <= ByteMax
    /\ \A t, u \in DOMAIN life :
          t # u /\ RangesOverlap(plan.offset, t, u) =>
              config.aliasing /\ ~LifetimesOverlap(life[t], life[u])
-----------------------------------------------------------------------------
TypeOK ==
    /\ DOMAIN life \subseteq Tensor /\ life \in [DOMAIN life -> Lifetime]
    /\ config \in Config
    /\ pass \in {"noAlias", "alias", "done"}
    /\ Placed \subseteq DOMAIN life /\ offset \in [Placed -> 0..ByteMax]
    /\ current \in Unplaced \cup {NoTensor}
    /\ scanned \subseteq Placed
    /\ candidate \in 0..ByteMax
    /\ DOMAIN plans = {"noAlias", "alias"}
    /\ \A p \in {"noAlias", "alias"} :
          /\ plans[p].ok \in BOOLEAN
          /\ plans[p].bytes \in 0..ByteMax
          /\ plans[p].ok => /\ DOMAIN plans[p].offset = DOMAIN life
                            /\ plans[p].offset \in [DOMAIN life -> 0..ByteMax]

(* Tensors that are alive together never share a byte, and without         *)
(* aliasing no two do, at any moment of the placement.                     *)
PlacedApart ==
    \A t, u \in Placed :
        t # u /\ RangesOverlap(offset, t, u) =>
            pass = "alias" /\ ~LifetimesOverlap(life[t], life[u])

(* A plan that is returned passes verify_static_arena_plan: the planner    *)
(* and the verifier, which share no code for it, agree.                    *)
ResultVerifies == pass = "done" /\ Result.ok => Verifies(Result)

(* Allowing aliases never costs memory nor makes a plan fail. *)
AliasingNeverCosts ==
    pass = "done" /\ plans.noAlias.ok =>
        Result.ok /\ Result.bytes <= plans.noAlias.bytes

(* The offsets tensor t could get among the placed ones. *)
Feasible(t) ==
    {v \in 0..ByteMax :
        /\ v % EffectiveAlignment(t) = 0
        /\ v + life[t].size <= ByteMax
        /\ \A u \in Conflicts(t) :
              v + life[t].size <= offset[u] \/ End(u) <= v}

(* A tensor is placed at the least offset it could get, gaps included. *)
PlacedLowest ==
    [][\A t \in DOMAIN offset' \ Placed :
          /\ offset'[t] \in Feasible(t)
          /\ \A v \in Feasible(t) : offset'[t] <= v]_vars

(* A pass overflows only if a tensor has no offset at all, or the arena    *)
(* has no aligned end.                                                     *)
FailsOnlyWhenFull ==
    [][(Planning /\ pass' # pass /\ ~plans'[pass].ok) =>
          IF current # NoTensor THEN Feasible(current) = {}
          ELSE \E t \in Placed : \A e \in End(t)..ByteMax :
                   e % config.arena # 0]_vars
=============================================================================

-------------------------- MODULE VisionStackProofs --------------------------
(***************************************************************************)
(* Proofs about VisionStackSession, for any number of runtimes, models and *)
(* layers.                                                                 *)
(***************************************************************************)
EXTENDS VisionStackSession, FiniteSetTheorems, SequenceTheorems, TLAPS

(* The types of TypeOK.                                                    *)
SessionState ==
    [mode : Mode, key : Key \union {NoKey}, pos : 0..2 * Shards,
     pure : BOOLEAN]
OperationState ==
    [pc : {"none", "gpu", "drain"}, kind : Kind, left : 0..Checked,
     dirty : BOOLEAN, hurt : BOOLEAN]
RuntimeState ==
    [slot : {"idle", "stored", "lent", "doomed"}, x : SessionState,
     busy : BOOLEAN, healthy : BOOLEAN, occupied : BOOLEAN,
     op : OperationState]
Scope == [kind : 1..Checked, hit : BOOLEAN]
Entry == [key : Key \union {NoKey}, sound : BOOLEAN]
LayerEntry == [key : Key, sound : BOOLEAN]
CacheState ==
    [key : Key \union {NoKey}, layers : Seq(LayerEntry), post : Entry,
     ready : BOOLEAN]
DeviceTyped == scopes \in Seq(Scope) /\ late \in BOOLEAN /\ sink \in BOOLEAN

(* BusyIsSession of one runtime, and what makes it inductive: a session is *)
(* lent exactly while its operation is in progress.                        *)
BusyIsOwn(s) ==
    /\ s.busy = (s.slot # "idle")
    /\ s.occupied = (s.op.pc # "none")
    /\ s.occupied => (s.slot = "idle") = (s.op.kind = "oneShot")
    /\ s.occupied => s.slot # "stored"
    /\ s.slot \in {"lent", "doomed"} => s.occupied

(* A cold session knows its model; one that is going to be kept is not at  *)
(* its end; a poisoned runtime has no operation.                           *)
SessionHolds(x) == x.pure /\ (x.mode = "cold" => x.key \in Key)
MayAdvance(s) ==
    s.slot = "lent" /\ s.op.kind \in {"start", "layer"} => s.x.pos < 2 * Shards
RuntimeInv(s) ==
    /\ BusyIsOwn(s) /\ SessionHolds(s.x) /\ MayAdvance(s)
    /\ ~s.healthy => ~s.occupied

OneModel(c) ==
    /\ Len(c.layers) <= Layers
    /\ \A i \in DOMAIN c.layers : c.layers[i].key = c.key
    /\ c.ready => Len(c.layers) = Layers /\ c.post.key = c.key

(* Owed and Owed \union Abandoned count per runtime: what it still has to  *)
(* pop, and what it may have on the stack at most.                         *)
AtMost(s) == IF s.healthy THEN ToPop(s) ELSE Checked
OnStack == {e \in Runtime \X (1..Checked) : e[2] <= AtMost(rt[e[1]])}
Counted ==
    /\ IsFiniteSet(Owed) /\ Cardinality(Owed) <= Len(scopes)
    /\ IsFiniteSet(OnStack) /\ Len(scopes) <= Cardinality(OnStack)

Inv ==
    /\ rt \in [Runtime -> RuntimeState]
    /\ cache \in CacheState
    /\ DeviceTyped
    /\ \A r \in Runtime : RuntimeInv(rt[r])
    /\ OneModel(cache)
    /\ Counted
-----------------------------------------------------------------------------
(* Counting.                                                               *)

(* S is R with n more, all of r.                                           *)
Adds(S, R, r, n) == \A e : e \in S <=> e \in R \/ \E i \in 1..n : e = <<r, i>>

LEMMA OneCounts ==
    ASSUME NEW R, IsFiniteSet(R), NEW r, \A e \in R : e[1] # r,
           NEW n \in 0..3, NEW S, Adds(S, R, r, n)
    PROVE  /\ IsFiniteSet(S) /\ Cardinality(S) = Cardinality(R) + n
           /\ Cardinality(R) \in Nat
<1> DEFINE A == R \union {<<r, 1>>}
           B == A \union {<<r, 2>>}
           C == B \union {<<r, 3>>}
<1>1. IsFiniteSet(A) /\ Cardinality(A) = Cardinality(R) + 1
  BY FS_AddElement
<1>2. <<r, 2>> \notin A
  OBVIOUS
<1>3. <<r, 3>> \notin B
  OBVIOUS
<1>4. n = 0 => S = R
  BY DEF Adds
<1>5. n = 1 => S = A
  BY DEF Adds
<1>6. n = 2 => S = B
  BY DEF Adds
<1>7. n = 3 => S = C
  BY DEF Adds
<1>8. Cardinality(R) \in Nat
  BY FS_CardinalityType
<1> HIDE DEF A
<1>9. IsFiniteSet(B) /\ Cardinality(B) = Cardinality(A) + 1
  BY <1>1, <1>2, FS_AddElement
<1> HIDE DEF B
<1>10. IsFiniteSet(C) /\ Cardinality(C) = Cardinality(B) + 1
  BY <1>3, <1>9, FS_AddElement
<1> HIDE DEF C
<1> QED
  BY <1>1, <1>4, <1>5, <1>6, <1>7, <1>8, <1>9, <1>10

(* f[r] pairs of each runtime r.                                           *)
Pairs(f) == {e \in Runtime \X (1..Checked) : e[2] <= f[e[1]]}

(* When a single runtime changes, so does its part of the count alone.     *)
LEMMA OneRecounts ==
    ASSUME NEW f \in [Runtime -> 0..3], IsFiniteSet(Pairs(f)), NEW r \in Runtime,
           NEW n \in 0..3, NEW g, g = [f EXCEPT ![r] = n]
    PROVE  /\ IsFiniteSet(Pairs(g)) /\ Cardinality(Pairs(g)) \in Nat
           /\ Cardinality(Pairs(f)) \in Nat /\ f[r] <= Cardinality(Pairs(f))
           /\ Cardinality(Pairs(g)) + f[r] = Cardinality(Pairs(f)) + n
<1> DEFINE R == {e \in Pairs(f) : e[1] # r}
<1>1. IsFiniteSet(R) /\ \A e \in R : e[1] # r
  BY FS_Subset
<1>2. Adds(Pairs(f), R, r, f[r])
  BY DEF Adds, Pairs, Checked
<1>3. Adds(Pairs(g), R, r, n)
  BY DEF Adds, Pairs, Checked
<1> HIDE DEF R
<1>4. Cardinality(Pairs(f)) = Cardinality(R) + f[r] /\ Cardinality(R) \in Nat
  BY <1>1, <1>2, OneCounts
<1>5. IsFiniteSet(Pairs(g)) /\ Cardinality(Pairs(g)) = Cardinality(R) + n
  BY <1>1, <1>3, OneCounts
<1> QED
  BY <1>4, <1>5

LEMMA ShardsAreCounted == Shards \in Nat /\ Shards > 2 /\ Checked = 3
  BY LayersIsCount DEF Shards, Checked

LEMMA PopsAreFew ==
    ASSUME NEW s \in RuntimeState
    PROVE  ToPop(s) \in 0..3 /\ AtMost(s) \in 0..3 /\ ToPop(s) <= AtMost(s)
  BY DEF RuntimeState, OperationState, ToPop, AtMost, Checked
-----------------------------------------------------------------------------
(* The cache.                                                              *)

LEMMA PrepareKeepsOneModel ==
    ASSUME cache \in CacheState, OneModel(cache), NEW k \in Key
    PROVE  AfterPrepare(k) \in CacheState /\ OneModel(AfterPrepare(k))
<1>1. Prepared(k) \in CacheState
  BY DEF Prepared, NoEntry, CacheState, Entry
<1>2. OneModel(Prepared(k))
  BY LayersIsCount DEF Prepared, NoEntry, OneModel
<1> QED
  BY <1>1, <1>2 DEF AfterPrepare

(* A layer that is taken is of the model that the cache is prepared for.   *)
LEMMA StoreLayerKeepsOneModel ==
    ASSUME cache \in CacheState, OneModel(cache), NEW k \in Key, IsPreparedFor(k),
           NEW layer \in Int, layer <= Layers, TakesLayer(layer),
           NEW b \in BOOLEAN,
           cache' = [cache EXCEPT !.layers =
                        Append(@, [key |-> k, sound |-> b])]
    PROVE  (cache \in CacheState /\ OneModel(cache))'
<1> DEFINE entry == [key |-> k, sound |-> b]
<1>1. cache.layers \in Seq(LayerEntry) /\ entry \in LayerEntry
  BY DEF CacheState, LayerEntry
<1>2. cache' = [cache EXCEPT !.layers = Append(cache.layers, entry)]
  OBVIOUS
<1> HIDE DEF entry
<1>3. Append(cache.layers, entry) \in Seq(LayerEntry)
  BY <1>1
<1>4. /\ cache' \in CacheState
      /\ cache'.layers = Append(cache.layers, entry)
      /\ cache'.key = cache.key /\ cache'.ready = cache.ready
  BY <1>2, <1>3 DEF CacheState
<1>5. /\ Len(Append(cache.layers, entry)) = Len(cache.layers) + 1
      /\ \A i \in DOMAIN Append(cache.layers, entry) :
            Append(cache.layers, entry)[i] =
                IF i = Len(cache.layers) + 1 THEN entry ELSE cache.layers[i]
      /\ \A i \in DOMAIN Append(cache.layers, entry) :
            i = Len(cache.layers) + 1 \/ i \in DOMAIN cache.layers
  BY <1>1
<1>6. ~cache.ready /\ Len(cache.layers) + 1 <= Layers
  BY <1>1 DEF TakesLayer
<1>7. entry.key = cache.key
  BY DEF IsPreparedFor, entry
<1> QED
  BY <1>4, <1>5, <1>6, <1>7 DEF OneModel

(* So is a post norm, and it makes the weights of that model complete.     *)
LEMMA StorePostNormKeepsOneModel ==
    ASSUME cache \in CacheState, OneModel(cache),
           NEW k \in Key \union {NoKey}, IsPreparedFor(k),
           TakesPostNorm, NEW b \in BOOLEAN,
           cache' = [cache EXCEPT !.post = [key |-> k, sound |-> b],
                                  !.ready = TRUE]
    PROVE  (cache \in CacheState /\ OneModel(cache))'
<1>1. /\ cache' \in CacheState
      /\ cache'.layers = cache.layers
      /\ cache'.key = cache.key
      /\ cache'.post.key = k
  BY DEF CacheState, Entry
<1> QED
  BY <1>1 DEF OneModel, IsPreparedFor, TakesPostNorm
-----------------------------------------------------------------------------
(* A runtime that changes alone.                                           *)

(* What the session of a runtime has no part in.                           *)
SameOperation(s, t) ==
    t.occupied = s.occupied /\ t.op = s.op /\ t.healthy = s.healthy

LEMMA FreshStates ==
    /\ NoSession \in SessionState /\ SessionHolds(NoSession)
    /\ NoOp \in OperationState /\ NoOp.pc = "none"
<1>1. 0 \in 0..2 * Shards /\ 0 \in 0..Checked
  BY ShardsAreCounted
<1> QED
  BY <1>1 DEF NoSession, SessionState, Mode, NoOp, OperationState, Kind,
     SessionHolds

LEMMA Advanced ==
    ASSUME NEW x \in SessionState, SessionHolds(x), x.pos < 2 * Shards
    PROVE  LET y == [x EXCEPT !.pos = @ + 1]
           IN  y \in SessionState /\ SessionHolds(y)
<1>1. x.pos + 1 \in 0..2 * Shards
  BY ShardsAreCounted DEF SessionState
<1> QED
  BY <1>1 DEF SessionState, SessionHolds

LEMMA AdvancedPurely ==
    ASSUME NEW x \in SessionState, SessionHolds(x), x.pos < 2 * Shards
    PROVE  LET y == [x EXCEPT !.pos = @ + 1, !.pure = TRUE]
           IN  y \in SessionState /\ SessionHolds(y)
<1> DEFINE y == [x EXCEPT !.pos = @ + 1]
<1>1. y \in SessionState /\ SessionHolds(y)
  BY Advanced
<1>2. [x EXCEPT !.pos = @ + 1, !.pure = TRUE] = [y EXCEPT !.pure = TRUE]
  BY Zenon
<1> HIDE DEF y
<1>3. /\ [y EXCEPT !.pure = TRUE] \in SessionState
      /\ [y EXCEPT !.pure = TRUE].pure = TRUE
      /\ [y EXCEPT !.pure = TRUE].mode = y.mode
      /\ [y EXCEPT !.pure = TRUE].key = y.key
  BY <1>1 DEF SessionState
<1>4. SessionHolds([y EXCEPT !.pure = TRUE])
  BY <1>1, <1>3 DEF SessionHolds
<1> QED
  BY <1>2, <1>3, <1>4, Zenon

LEMMA EmptiedHasNoSession ==
    ASSUME NEW s \in RuntimeState
    PROVE  /\ Emptied(s) \in RuntimeState
           /\ Emptied(s).slot = "idle" /\ Emptied(s).busy = FALSE
           /\ Emptied(s).x = NoSession
           /\ SameOperation(s, Emptied(s))
  BY FreshStates DEF Emptied, RuntimeState, SameOperation

(* The stack gets longer and shorter by what the runtime is to pop.        *)
Balanced(s, t) ==
    /\ Len(scopes) + ToPop(t) <= Len(scopes') + ToPop(s)
    /\ Len(scopes') + AtMost(s) <= Len(scopes) + AtMost(t)

LEMMA CountedStep ==
    ASSUME Inv, NEW r \in Runtime, NEW s \in RuntimeState,
           rt' = [rt EXCEPT ![r] = s], DeviceTyped', Balanced(rt[r], s)
    PROVE  Counted'
<1>1. /\ rt[r] \in RuntimeState /\ rt'[r] = s
      /\ \A q \in Runtime \ {r} : rt'[q] = rt[q]
      /\ Len(scopes) \in Nat /\ Len(scopes') \in Nat
  BY DEF Inv, DeviceTyped
<1>2. /\ ToPop(rt[r]) \in 0..3 /\ ToPop(s) \in 0..3
      /\ AtMost(rt[r]) \in 0..3 /\ AtMost(s) \in 0..3
  BY <1>1, PopsAreFew
<1> DEFINE f == [q \in Runtime |-> ToPop(rt[q])]
           g == [q \in Runtime |-> AtMost(rt[q])]
           f1 == [f EXCEPT ![r] = ToPop(s)]
           g1 == [g EXCEPT ![r] = AtMost(s)]
<1>3. /\ Owed = Pairs(f) /\ Owed' = Pairs(f1)
      /\ OnStack = Pairs(g) /\ OnStack' = Pairs(g1)
  BY <1>1 DEF Owed, OnStack, Pairs
<1>4. /\ f \in [Runtime -> 0..3] /\ f[r] = ToPop(rt[r])
      /\ g \in [Runtime -> 0..3] /\ g[r] = AtMost(rt[r])
  BY PopsAreFew DEF Inv
<1>5. /\ IsFiniteSet(Pairs(f)) /\ Cardinality(Pairs(f)) <= Len(scopes)
      /\ IsFiniteSet(Pairs(g)) /\ Len(scopes) <= Cardinality(Pairs(g))
  BY <1>3 DEF Inv, Counted
<1>6. /\ f1 = [f EXCEPT ![r] = ToPop(s)] /\ g1 = [g EXCEPT ![r] = AtMost(s)]
       /\ ToPop(s) \in 0..3 /\ AtMost(s) \in 0..3
  BY <1>2
<1> HIDE DEF f, g, f1, g1
<1>7. /\ IsFiniteSet(Pairs(f1)) /\ Cardinality(Pairs(f1)) \in Nat
      /\ Cardinality(Pairs(f)) \in Nat
      /\ Cardinality(Pairs(f1)) + f[r] = Cardinality(Pairs(f)) + ToPop(s)
  <2>1. f \in [Runtime -> 0..3] /\ IsFiniteSet(Pairs(f)) /\ ToPop(s) \in 0..3
    BY <1>4, <1>5, <1>6
  <2>2. f1 = [f EXCEPT ![r] = ToPop(s)]
    BY <1>6
  <2> QED
    BY <2>1, <2>2, OneRecounts, Zenon
<1>8. /\ IsFiniteSet(Pairs(g1)) /\ Cardinality(Pairs(g1)) \in Nat
      /\ Cardinality(Pairs(g)) \in Nat
      /\ Cardinality(Pairs(g1)) + g[r] = Cardinality(Pairs(g)) + AtMost(s)
  <2>1. g \in [Runtime -> 0..3] /\ IsFiniteSet(Pairs(g)) /\ AtMost(s) \in 0..3
    BY <1>4, <1>5, <1>6
  <2>2. g1 = [g EXCEPT ![r] = AtMost(s)]
    BY <1>6
  <2> QED
    BY <2>1, <2>2, OneRecounts, Zenon
<1>9. /\ Len(scopes) + ToPop(s) <= Len(scopes') + f[r]
      /\ Len(scopes') + g[r] <= Len(scopes) + AtMost(s)
  BY <1>4 DEF Balanced
<1>10. Cardinality(Pairs(f1)) <= Len(scopes')
  BY <1>1, <1>2, <1>4, <1>5, <1>7, <1>9
<1>11. Len(scopes') <= Cardinality(Pairs(g1))
  BY <1>1, <1>2, <1>4, <1>5, <1>8, <1>9
<1> QED
  BY <1>3, <1>7, <1>8, <1>10, <1>11 DEF Counted

LEMMA OneRuntimeChanges ==
    ASSUME Inv, NEW r \in Runtime, NEW s \in RuntimeState, RuntimeInv(s),
           rt' = [rt EXCEPT ![r] = s], (cache \in CacheState /\ OneModel(cache))',
           DeviceTyped', Balanced(rt[r], s)
    PROVE  Inv'
<1>1. Counted'
  BY CountedStep
<1> QED
  BY <1>1 DEF Inv

(* Its session changes, and GPU work may raise an error in a scope.        *)
LEMMA OneSessionChanges ==
    ASSUME Inv, NEW r \in Runtime, NEW s \in RuntimeState, RuntimeInv(s),
           rt' = [rt EXCEPT ![r] = s], (cache \in CacheState /\ OneModel(cache))',
           SameOperation(rt[r], s), DeviceTyped', Len(scopes') = Len(scopes)
    PROVE  Inv'
<1>1. ToPop(s) = ToPop(rt[r]) /\ AtMost(s) = AtMost(rt[r])
  BY DEF SameOperation, ToPop, AtMost
<1>2. Len(scopes) \in Nat /\ ToPop(s) \in 0..3 /\ AtMost(s) \in 0..3
  BY PopsAreFew DEF Inv, DeviceTyped
<1>3. Balanced(rt[r], s)
  BY <1>1, <1>2 DEF Balanced
<1> QED
  BY <1>3, OneRuntimeChanges

(* A pop finds a scope: none of an operation in progress is missing.       *)
LEMMA ScopesAreThere ==
    ASSUME Inv, NEW r \in Runtime
    PROVE  ToPop(rt[r]) <= Len(scopes) /\ ToPop(rt[r]) \in 0..3
<1> DEFINE f == [q \in Runtime |-> ToPop(rt[q])]
<1>1. /\ f \in [Runtime -> 0..3] /\ f[r] = ToPop(rt[r]) /\ f[r] \in 0..3
      /\ f = [f EXCEPT ![r] = f[r]]
  BY PopsAreFew DEF Inv
<1>2. /\ Owed = Pairs(f) /\ IsFiniteSet(Owed)
      /\ Cardinality(Owed) <= Len(scopes) /\ Len(scopes) \in Nat
  BY DEF Inv, Counted, DeviceTyped, Owed, Pairs
<1> HIDE DEF f
<1>3. f[r] <= Cardinality(Pairs(f)) /\ Cardinality(Pairs(f)) \in Nat
  BY <1>1, <1>2, OneRecounts
<1> QED
  BY <1>1, <1>2, <1>3

(* The session of an operation in progress leaves it or is kept; a runtime *)
(* that leaves scopes behind is poisoned.                                  *)
LEMMA CompletionFreesTheSession ==
    ASSUME NEW s \in RuntimeState, RuntimeInv(s), s.occupied, NEW left \in 0..3,
           NEW keep \in BOOLEAN, keep => s.op.kind \in {"start", "layer"}
    PROVE  LET t == Completed(DroppedAuthority(s, left), keep)
           IN  /\ t \in RuntimeState /\ RuntimeInv(t) /\ t.op.pc = "none"
               /\ t.healthy = (s.healthy /\ left = 0)
<1> DEFINE healthy == s.healthy /\ left = 0
           d == DroppedAuthority(s, left)
<1>1. /\ d \in RuntimeState
      /\ d.occupied = FALSE /\ d.op = NoOp /\ d.slot = s.slot
      /\ d.busy = s.busy /\ d.x = s.x /\ d.healthy = healthy
  <2>1. healthy \in BOOLEAN /\ FALSE \in BOOLEAN
    BY Zenon
  <2>2. d = [s EXCEPT !.occupied = FALSE, !.op = NoOp, !.healthy = healthy]
    BY Zenon DEF DroppedAuthority
  <2> HIDE DEF healthy, d
  <2> QED
    BY <2>1, <2>2, FreshStates DEF RuntimeState
<1>2. /\ d.slot # "stored" /\ d.busy = (d.slot # "idle") /\ SessionHolds(d.x)
      /\ d.slot = "lent" /\ keep => d.x.pos < 2 * Shards
  BY <1>1 DEF RuntimeInv, BusyIsOwn, MayAdvance
<1> HIDE DEF d, healthy
<1>3. /\ Emptied(d) \in RuntimeState /\ RuntimeInv(Emptied(d))
      /\ Emptied(d).op = NoOp /\ Emptied(d).healthy = healthy
  BY <1>1, FreshStates, EmptiedHasNoSession
     DEF RuntimeInv, BusyIsOwn, SameOperation, MayAdvance
<1> DEFINE kept == [d EXCEPT !.slot = "stored", !.x.pos = @ + 1]
<1>4. d.slot = "lent" /\ keep => /\ kept \in RuntimeState /\ RuntimeInv(kept)
                                /\ kept.op = NoOp /\ kept.healthy = healthy
  <2> SUFFICES ASSUME d.slot = "lent", keep
               PROVE  /\ kept \in RuntimeState /\ RuntimeInv(kept)
                      /\ kept.op = NoOp /\ kept.healthy = healthy
    OBVIOUS
  <2> DEFINE x == [d.x EXCEPT !.pos = @ + 1]
  <2>1. d.x \in SessionState
    BY <1>1 DEF RuntimeState
  <2>2. x \in SessionState /\ SessionHolds(x)
    BY <1>2, <2>1, Advanced
  <2>3. kept = [d EXCEPT !.slot = "stored", !.x = x]
    BY Zenon
  <2> HIDE DEF x, kept
  <2>4. /\ kept \in RuntimeState /\ kept.slot = "stored" /\ kept.x = x
        /\ kept.busy = d.busy /\ kept.occupied = FALSE /\ kept.op = NoOp
        /\ kept.healthy = healthy
    BY <1>1, <2>2, <2>3 DEF RuntimeState
  <2> QED
    BY <1>2, <2>2, <2>4, FreshStates DEF RuntimeInv, BusyIsOwn, MayAdvance
<1> HIDE DEF kept
<1>5. d.slot = "idle" => RuntimeInv(d)
  BY <1>1, <1>2, FreshStates DEF RuntimeInv, BusyIsOwn, MayAdvance
<1>6. Completed(d, keep) = CASE d.slot = "doomed" -> Emptied(d)
                             [] d.slot = "lent" /\ keep -> kept
                             [] d.slot = "lent" /\ ~keep -> Emptied(d)
                             [] OTHER -> d
  BY DEF Completed, kept
<1>7. d.slot \in {"idle", "lent", "doomed"}
  BY <1>1, <1>2 DEF RuntimeState
<1> DEFINE t == Completed(d, keep)
<1>8. t \in RuntimeState /\ RuntimeInv(t) /\ t.op = NoOp /\ t.healthy = healthy
  <2>1. CASE d.slot = "doomed" \/ (d.slot = "lent" /\ ~keep)
    <3>1. t = Emptied(d)
      BY <2>1, <1>6
    <3> QED
      BY <3>1, <1>3
  <2>2. CASE d.slot = "lent" /\ keep
    <3>1. t = kept
      BY <2>2, <1>6
    <3> QED
      BY <2>2, <3>1, <1>4
  <2>3. CASE d.slot = "idle"
    <3>1. t = d
      BY <2>3, <1>6
    <3> QED
      BY <2>3, <3>1, <1>1, <1>5
  <2> QED
    BY <1>7, <2>1, <2>2, <2>3
<1> QED
  BY <1>8, FreshStates DEF d, healthy
-----------------------------------------------------------------------------
(* Completion.                                                             *)

(* The operation s of runtime r, about to pop the rest of its scopes: n of *)
(* them are on the stack.                                                  *)
Draining(r, s, n, stack) ==
    /\ RuntimeInv(s) /\ s.occupied = TRUE /\ s.healthy = TRUE
    /\ rt[r].healthy = TRUE
    /\ stack \in Seq(Scope) /\ Len(stack) + ToPop(rt[r]) = Len(scopes) + n

LEMMA SettleKeepsInv ==
    ASSUME Inv, NEW r \in Runtime, NEW s \in RuntimeState, NEW left \in 0..3,
           NEW stack, Draining(r, s, left, stack), NEW errors \in BOOLEAN,
           Settle(r, s, left, stack, errors)
    PROVE  Inv'
<1> DEFINE keep == /\ ~s.op.dirty /\ left = 0
                   /\ ~errors /\ s.op.kind \in {"start", "layer"}
           t == Completed(DroppedAuthority(s, left), keep)
<1>1. /\ t \in RuntimeState /\ RuntimeInv(t) /\ t.op.pc = "none"
      /\ t.healthy = (s.healthy /\ left = 0)
  <2>1. keep \in BOOLEAN /\ (keep => s.op.kind \in {"start", "layer"})
    OBVIOUS
  <2>2. RuntimeInv(s) /\ s.occupied
    BY DEF Draining
  <2> HIDE DEF keep
  <2> QED
    BY <2>1, <2>2, CompletionFreesTheSession
<1>2. rt' = [rt EXCEPT ![r] = t]
  BY Zenon DEF Settle
<1>3. (cache \in CacheState /\ OneModel(cache))'
  <2> DEFINE commits == /\ ~s.op.dirty /\ left = 0 /\ ~errors
                        /\ s.op.kind = "finish" /\ s.x.mode = "cold"
                        /\ IsPreparedFor(s.x.key) /\ TakesPostNorm
             filled == [cache EXCEPT
                           !.post = [key |-> s.x.key, sound |-> ~s.op.hurt],
                           !.ready = TRUE]
  <2>1. cache' = IF commits THEN filled ELSE cache
    BY Zenon DEF Settle
  <2>2. CASE ~commits
    BY <2>1, <2>2 DEF Inv
  <2>3. CASE commits
    <3>1. s.x.key \in Key \union {NoKey} /\ (~s.op.hurt) \in BOOLEAN
      BY DEF RuntimeState, SessionState
    <3>2. cache' = filled
      BY <2>1, <2>3
    <3> QED
      BY <2>3, <3>1, <3>2, StorePostNormKeepsOneModel DEF Inv
  <2> QED
    BY <2>2, <2>3
<1>4. DeviceTyped' /\ scopes' = stack
  <2>1. sink' \in BOOLEAN
    BY Zenon DEF Settle
  <2> QED
    BY <2>1 DEF Settle, DeviceTyped, Draining, Inv
<1> HIDE DEF t
<1>5. Balanced(rt[r], t)
  <2>1. /\ ToPop(t) = 0 /\ AtMost(t) = IF left = 0 THEN 0 ELSE 3
        /\ AtMost(rt[r]) = ToPop(rt[r])
    BY <1>1 DEF ToPop, AtMost, Checked, Draining
  <2>2. /\ Len(stack) + ToPop(rt[r]) = Len(scopes) + left
        /\ Len(stack) \in Nat /\ Len(scopes) \in Nat /\ ToPop(rt[r]) \in 0..3
    BY ScopesAreThere DEF Draining, Inv, DeviceTyped
  <2> QED
    BY <1>4, <2>1, <2>2 DEF Balanced
<1> QED
  BY <1>1, <1>2, <1>3, <1>4, <1>5, OneRuntimeChanges

LEMMA PopTakesOne ==
    ASSUME NEW stack \in Seq(Scope), stack # <<>>
    PROVE  LET rest == SubSeq(stack, 1, Len(stack) - 1)
           IN  rest \in Seq(Scope) /\ Len(rest) = Len(stack) - 1
<1> DEFINE n == Len(stack) - 1
<1>1. n \in Nat /\ n \in Int /\ \A i \in 1..n : stack[i] \in Scope
  OBVIOUS
<1> HIDE DEF n
<1>2. /\ SubSeq(stack, 1, n) \in Seq(Scope)
      /\ Len(SubSeq(stack, 1, n)) = IF 1 <= n THEN n - 1 + 1 ELSE 0
  BY <1>1, SubSeqProperties
<1>3. Len(SubSeq(stack, 1, n)) = n
  BY <1>1, <1>2
<1> QED
  BY <1>2, <1>3 DEF n

LEMMA DrainKeepsInv ==
    ASSUME Inv, NEW r \in Runtime, NEW s \in RuntimeState, NEW n \in 0..3,
           NEW stack, Draining(r, s, n, stack), NEW errors \in BOOLEAN,
           Drain(r, s, n, stack, errors)
    PROVE  Inv'
<1>1. ASSUME NEW left \in {0, n}, n = left, Settle(r, s, left, stack, errors)
      PROVE  Inv'
  BY <1>1, SettleKeepsInv
<1> DEFINE dirty == s.op.dirty \/ stack[Len(stack)].hit
           op == [s.op EXCEPT !.pc = "drain", !.left = n - 1, !.dirty = dirty]
           t == [s EXCEPT !.op = op]
           rest == SubSeq(stack, 1, Len(stack) - 1)
<1>2. ASSUME n > 0,
             rt' = [rt EXCEPT ![r] =
                      [s EXCEPT !.op.pc = "drain", !.op.left = n - 1,
                                !.op.dirty = @ \/ stack[Len(stack)].hit]],
             scopes' = rest, sink' = errors, UNCHANGED <<late, cache>>
      PROVE  Inv'
  <2>1. /\ op \in OperationState /\ op.pc = "drain" /\ op.left = n - 1
        /\ op.kind = s.op.kind
    <3>1. s.op \in OperationState
      BY DEF RuntimeState
    <3>2. dirty \in BOOLEAN
      BY Zenon
    <3>3. n - 1 \in 0..Checked
      BY <1>2 DEF Checked
    <3>4. op = [s.op EXCEPT !.pc = "drain", !.left = n - 1, !.dirty = dirty]
      OBVIOUS
    <3> HIDE DEF dirty, op
    <3> QED
      BY <3>1, <3>2, <3>3, <3>4 DEF OperationState
  <2>2. /\ t.slot = s.slot /\ t.busy = s.busy /\ t.x = s.x
        /\ t.occupied = s.occupied /\ t.healthy = s.healthy /\ t.op = op
        /\ t \in RuntimeState
    <3> HIDE DEF op
    <3> QED
      BY <2>1 DEF RuntimeState
  <2>3. RuntimeInv(s) /\ s.op.pc # "none" /\ s.occupied = TRUE
    BY DEF RuntimeInv, BusyIsOwn, Draining
  <2>4. rt' = [rt EXCEPT ![r] = t]
    BY <1>2
  <2> HIDE DEF op, t
  <2>5. RuntimeInv(t)
    BY <2>1, <2>2, <2>3 DEF RuntimeInv, BusyIsOwn, MayAdvance
  <2>6. /\ stack \in Seq(Scope) /\ Len(stack) + ToPop(rt[r]) = Len(scopes) + n
        /\ Len(stack) \in Nat /\ Len(scopes) \in Nat /\ ToPop(rt[r]) \in 0..3
        /\ ToPop(rt[r]) <= Len(scopes)
    BY ScopesAreThere DEF Draining, Inv, DeviceTyped
  <2>7. rest \in Seq(Scope) /\ Len(rest) = Len(stack) - 1
    <3>1. Len(stack) > 0
      BY <1>2, <2>6
    <3> QED
      BY <2>6, <3>1, PopTakesOne
  <2> HIDE DEF rest
  <2>8. DeviceTyped'
    BY <1>2, <2>7 DEF DeviceTyped, Inv
  <2>9. Balanced(rt[r], t)
    <3>1. ToPop(t) = n - 1 /\ AtMost(t) = n - 1 /\ AtMost(rt[r]) = ToPop(rt[r])
      BY <2>1, <2>2 DEF ToPop, AtMost, Draining
    <3>2. Len(scopes') = Len(stack) - 1
      BY <1>2, <2>7
    <3> QED
      BY <2>6, <3>1, <3>2 DEF Balanced
  <2> QED
    BY <1>2, <2>2, <2>4, <2>5, <2>8, <2>9, OneRuntimeChanges DEF Inv
<1> QED
  BY <1>1, <1>2 DEF Drain
-----------------------------------------------------------------------------
(* The scoped operations.                                                  *)

(* A resident finish binds the post norm of its session's own model, and   *)
(* what the start or a layer may keep has positions left.                  *)
LEMMA RunningHoldsItsSession ==
    ASSUME Inv, NEW r \in Runtime, NEW kind \in Kind \ {"none"},
           Takes(r, kind), NEW dirty \in BOOLEAN, NEW hurt \in BOOLEAN
    PROVE  LET s == Running(r, kind, dirty, hurt)
           IN  /\ s \in RuntimeState /\ RuntimeInv(s) /\ s.occupied = TRUE
               /\ s.healthy = TRUE /\ s.op.pc = "gpu"
<1> DEFINE old == rt[r]
           op == [NoOp EXCEPT !.pc = "gpu", !.kind = kind, !.dirty = dirty,
                              !.hurt = hurt]
           binds == kind = "finishResident" => cache.post.key = old.x.key
           slot == IF old.slot = "stored" THEN "lent" ELSE old.slot
           x == [old.x EXCEPT !.pure = @ /\ binds]
           s == Running(r, kind, dirty, hurt)
<1>1. /\ old \in RuntimeState /\ RuntimeInv(old)
      /\ old.occupied = FALSE /\ old.healthy = TRUE
  BY DEF Inv, Takes, ScopesAdmit, RuntimeState
<1>2. op \in OperationState /\ op.pc = "gpu" /\ op.kind = kind
  BY FreshStates DEF OperationState
<1>3. binds
  <2>1. CASE kind = "finishResident"
    <3>1. IsReadyFor(rt[r].x.key)
      BY <2>1 DEF Takes, Admits
    <3> QED
      BY <3>1 DEF IsReadyFor, Inv, OneModel
  <2>2. CASE kind # "finishResident"
    BY <2>2
  <2> QED
    BY <2>1, <2>2
<1>4. /\ x \in SessionState /\ x.pure = TRUE
      /\ x.pos = old.x.pos /\ SessionHolds(x)
  <2>1. old.x \in SessionState /\ SessionHolds(old.x)
    BY <1>1 DEF RuntimeState, RuntimeInv
  <2>2. (old.x.pure /\ binds) = TRUE
    BY <1>3, <2>1 DEF SessionHolds
  <2> HIDE DEF binds
  <2>3. /\ x \in SessionState /\ x.pure = TRUE /\ x.pos = old.x.pos
        /\ x.mode = old.x.mode /\ x.key = old.x.key
    BY <2>1, <2>2 DEF SessionState
  <2> QED
    BY <2>1, <2>3 DEF SessionHolds
<1>5. slot \in {"idle", "lent"} /\ (slot = "idle") = (kind = "oneShot")
  <2>1. old.slot \in {"idle", "stored"}
    BY <1>1 DEF RuntimeInv, BusyIsOwn, RuntimeState
  <2>2. kind \in {"start", "layer", "finish", "finishResident", "oneShot"}
    BY DEF Kind
  <2> QED
    BY <2>1, <2>2 DEF Takes, Admits, Stored
<1>6. old.busy = (slot # "idle")
  BY <1>1 DEF RuntimeInv, BusyIsOwn
<1>7. kind \in {"start", "layer"} => x.pos < 2 * Shards
  <2>1. old.x.pos \in 0..2 * Shards
    BY <1>1 DEF RuntimeState, SessionState
  <2>2. CASE kind = "start"
    BY <1>4, <2>1, <2>2, LayersIsCount
       DEF Takes, Admits, Stored, InputPos, Shards
  <2>3. CASE kind = "layer"
    BY <1>4, <2>1, <2>3, LayersIsCount DEF Takes, Admits, IsLayer, Shards
  <2> QED
    BY <2>2, <2>3
<1>8. s = [old EXCEPT !.occupied = TRUE, !.op = op, !.slot = slot, !.x = x]
  BY Zenon DEF Running
<1> HIDE DEF op, slot, x, s, binds
<1>9. /\ s \in RuntimeState
      /\ s.occupied = TRUE /\ s.op = op /\ s.slot = slot /\ s.x = x
      /\ s.busy = old.busy /\ s.healthy = TRUE
  BY <1>1, <1>2, <1>4, <1>5, <1>8 DEF RuntimeState
<1>10. RuntimeInv(s)
  BY <1>2, <1>4, <1>5, <1>6, <1>7, <1>9 DEF RuntimeInv, BusyIsOwn, MayAdvance
<1> QED
  BY <1>2, <1>9, <1>10 DEF s

(* It is the first operation of its runtime: it has nothing left to pop.   *)
LEMMA NothingToPop ==
    ASSUME Inv, NEW r \in Runtime, NEW kind, Takes(r, kind)
    PROVE  rt[r].healthy = TRUE /\ ToPop(rt[r]) = 0 /\ AtMost(rt[r]) = 0
  BY DEF Inv, RuntimeInv, BusyIsOwn, RuntimeState, Takes, ScopesAdmit, ToPop,
     AtMost

LEMMA PushedIsStack ==
    ASSUME Inv, NEW n \in 0..3, NEW hit
    PROVE  Pushed(n, hit) \in Seq(Scope) /\ Len(Pushed(n, hit)) = Len(scopes) + n
<1> DEFINE more == [i \in 1..n |-> [kind |-> i, hit |-> i = hit]]
<1>1. more \in Seq(Scope) /\ Len(more) = n
  <2>1. \A i \in 1..n : (i = hit) \in BOOLEAN /\ i \in 1..Checked
    BY DEF Checked
  <2>2. \A i \in 1..n : more[i] \in Scope
    BY <2>1 DEF Scope
  <2>3. more \in [1..n -> Scope]
    BY <2>2
  <2> HIDE DEF more
  <2> QED
    BY <2>3
<1> HIDE DEF more
<1>2. Pushed(n, hit) = scopes \o more
  BY DEF Pushed, more
<1> QED
  BY <1>1, <1>2 DEF Inv, DeviceTyped

(* The error of work outside of a scoped operation: no scope is lost.      *)
LEMMA RaisedKeepsScopes ==
    ASSUME Inv, NEW hit, Raised(hit), UNCHANGED sink
    PROVE  DeviceTyped' /\ Len(scopes') = Len(scopes)
<1> DEFINE open == {i \in DOMAIN scopes : scopes[i].kind = hit}
           k == Max(open)
<1>1. CASE UNCHANGED scopes
  BY <1>1 DEF Raised, DeviceTyped, Inv
<1>2. CASE scopes' = [scopes EXCEPT ![k].hit = TRUE] /\ UNCHANGED late
  <2> HIDE DEF k
  <2>1. \A x \in Scope : [x EXCEPT !.hit = TRUE] \in Scope
    BY DEF Scope
  <2>2. scopes \in Seq(Scope) /\ Len(scopes) \in Nat
    BY DEF Inv, DeviceTyped
  <2> DEFINE x == [scopes[k] EXCEPT !.hit = TRUE]
  <2>3. /\ scopes' = [scopes EXCEPT ![k] = x] /\ DOMAIN scopes = 1..Len(scopes)
        /\ k \in 1..Len(scopes) => x \in Scope
    BY <1>2, <2>1, <2>2
  <2> HIDE DEF x
  <2>4. scopes' \in [1..Len(scopes) -> Scope]
    <3>1. \A i \in 1..Len(scopes) : scopes[i] \in Scope
      BY <2>2
    <3>2. \A i \in 1..Len(scopes) : [scopes EXCEPT ![k] = x][i] \in Scope
      BY <2>3, <3>1
    <3> QED
      BY <2>3, <3>2
  <2>5. scopes' \in Seq(Scope) /\ Len(scopes') = Len(scopes)
    BY <2>2, <2>4
  <2> QED
    BY <1>2, <2>5 DEF DeviceTyped, Inv
<1> QED
  BY <1>1, <1>2 DEF Raised
-----------------------------------------------------------------------------
(* The actions.                                                            *)

LEMMA RuntimesUnchanged ==
    ASSUME Inv, UNCHANGED <<rt, scopes>>, DeviceTyped',
           (cache \in CacheState /\ OneModel(cache))'
    PROVE  Inv'
  BY DEF Inv, Counted, Owed, OnStack

LEMMA DeviceUnchanged ==
    ASSUME Inv, UNCHANGED <<scopes, late, sink>>
    PROVE  DeviceTyped' /\ Len(scopes') = Len(scopes)
  BY DEF Inv, DeviceTyped

LEMMA CacheUnchanged ==
    ASSUME Inv, UNCHANGED cache
    PROVE  (cache \in CacheState /\ OneModel(cache))'
  BY DEF Inv

LEMMA BegunHasASession ==
    ASSUME NEW s \in RuntimeState, RuntimeInv(s), AdmitsBegin(s),
           NEW mode \in Mode, NEW k \in Key \union {NoKey},
           mode = "cold" => k \in Key
    PROVE  LET t == Begun(s, mode, k)
           IN  t \in RuntimeState /\ RuntimeInv(t) /\ SameOperation(s, t)
<1> DEFINE x == [NoSession EXCEPT !.mode = mode, !.key = k]
           t == [s EXCEPT !.slot = "stored", !.busy = TRUE, !.x = x]
<1>1. x \in SessionState /\ SessionHolds(x)
  <2>1. NoSession \in SessionState /\ SessionHolds(NoSession)
    BY FreshStates
  <2>2. /\ x \in SessionState /\ x.pure = NoSession.pure
        /\ x.mode = mode /\ x.key = k
    BY <2>1 DEF SessionState
  <2> QED
    BY <2>1, <2>2 DEF SessionHolds
<1>2. Begun(s, mode, k) = t
  BY DEF Begun
<1> HIDE DEF x
<1>3. /\ t \in RuntimeState /\ SameOperation(s, t)
      /\ t.slot = "stored" /\ t.busy = TRUE /\ t.x = x
  BY <1>1 DEF RuntimeState, SameOperation
<1>4. s.occupied = FALSE /\ s.op.pc = "none"
  BY DEF AdmitsBegin, ScopesAdmit, RuntimeInv, BusyIsOwn, RuntimeState
<1> HIDE DEF t
<1>5. RuntimeInv(t)
  BY <1>1, <1>3, <1>4 DEF RuntimeInv, BusyIsOwn, MayAdvance, SameOperation
<1> QED
  BY <1>2, <1>3, <1>5

LEMMA BeginKeepsInv ==
    ASSUME Inv, NEW r \in Runtime, Begin(r) PROVE Inv'
<1>1. rt[r] \in RuntimeState /\ RuntimeInv(rt[r])
  BY DEF Inv
<1>2. AdmitsBegin(rt[r]) /\ rt' = [rt EXCEPT ![r] = Begun(rt[r], "plain", NoKey)]
  BY DEF Begin
<1>3. "plain" \in Mode
  BY DEF Mode
<1>4. /\ (cache \in CacheState /\ OneModel(cache))'
      /\ DeviceTyped' /\ Len(scopes') = Len(scopes)
  BY CacheUnchanged, DeviceUnchanged DEF Begin
<1> DEFINE s == Begun(rt[r], "plain", NoKey)
<1>5. s \in RuntimeState /\ RuntimeInv(s) /\ SameOperation(rt[r], s)
  BY <1>1, <1>2, <1>3, BegunHasASession
<1> HIDE DEF s
<1> QED
  BY <1>2, <1>4, <1>5, OneSessionChanges DEF s

(* The cache is prepared even if the begin is not admitted.                *)
LEMMA BeginResidentKeepsInv ==
    ASSUME Inv, NEW r \in Runtime, NEW k \in Key, BeginResident(r, k)
    PROVE  Inv'
<1>1. rt[r] \in RuntimeState /\ RuntimeInv(rt[r])
  BY DEF Inv
<1>2. (cache \in CacheState /\ OneModel(cache))'
  <2>1. cache' = AfterPrepare(k)
    BY DEF BeginResident
  <2> QED
    BY <2>1, PrepareKeepsOneModel DEF Inv
<1>3. DeviceTyped' /\ Len(scopes') = Len(scopes)
  BY DeviceUnchanged DEF BeginResident
<1>4. CASE AdmitsBegin(rt[r])
  <2> DEFINE mode == IF IsReadyFor(k) THEN "ready" ELSE "cold"
  <2>1. rt' = [rt EXCEPT ![r] = Begun(rt[r], mode, k)]
    BY <1>4 DEF BeginResident
  <2>2. mode \in Mode
    BY DEF Mode
  <2> HIDE DEF mode
  <2> DEFINE s == Begun(rt[r], mode, k)
  <2>3. s \in RuntimeState /\ RuntimeInv(s) /\ SameOperation(rt[r], s)
    BY <1>1, <1>4, <2>2, BegunHasASession
  <2> HIDE DEF s
  <2> QED
    BY <1>2, <1>3, <2>1, <2>3, OneSessionChanges DEF s
<1>5. CASE ~AdmitsBegin(rt[r])
  <2>1. rt' = rt /\ UNCHANGED scopes
    BY <1>5 DEF BeginResident
  <2> QED
    BY <1>2, <1>3, <2>1, RuntimesUnchanged
<1> QED
  BY <1>4, <1>5

(* A session that stays where it is and moves on by one position.          *)
LEMMA SteppedKeepsItsSession ==
    ASSUME NEW s \in RuntimeState, RuntimeInv(s), s.slot = "stored",
           s.x.pos < 2 * Shards, NEW pure \in BOOLEAN, pure,
           NEW t, t = Stepped(s, pure)
    PROVE  t \in RuntimeState /\ RuntimeInv(t) /\ SameOperation(s, t)
<1> DEFINE x == [s.x EXCEPT !.pos = @ + 1, !.pure = @ /\ pure]
<1>1. s.x \in SessionState /\ SessionHolds(s.x)
  BY DEF RuntimeState, RuntimeInv
<1>2. x \in SessionState /\ SessionHolds(x)
  <2> DEFINE both == s.x.pure /\ pure
  <2>1. both = TRUE
    BY <1>1 DEF SessionHolds
  <2> HIDE DEF both
  <2>2. x = [s.x EXCEPT !.pos = @ + 1, !.pure = TRUE]
    BY <2>1, Zenon DEF both
  <2> HIDE DEF x
  <2> QED
    BY <1>1, <2>1, <2>2, AdvancedPurely, Zenon
<1>3. t = [s EXCEPT !.x = x]
  BY Zenon DEF Stepped
<1> HIDE DEF x
<1>4. /\ t \in RuntimeState /\ t.x = x /\ SameOperation(s, t)
      /\ t.slot = s.slot /\ t.busy = s.busy
  BY <1>2, <1>3 DEF RuntimeState, SameOperation
<1> QED
  BY <1>2, <1>4 DEF RuntimeInv, BusyIsOwn, MayAdvance, SameOperation

LEMMA PreflightKeepsInv ==
    ASSUME Inv, NEW r \in Runtime, Preflight(r) PROVE Inv'
<1> DEFINE x == [rt[r].x EXCEPT !.pos = @ + 1]
           t == [rt[r] EXCEPT !.x = x]
<1>1. rt[r] \in RuntimeState /\ RuntimeInv(rt[r])
  BY DEF Inv
<1>2. rt[r].x \in SessionState /\ SessionHolds(rt[r].x)
  BY <1>1 DEF RuntimeState, RuntimeInv
<1>3. x \in SessionState /\ SessionHolds(x)
  <2>1. rt[r].x.pos < 2 * Shards
    BY <1>2, ShardsAreCounted DEF SessionState, Preflight
  <2> QED
    BY <1>2, <2>1, Advanced
<1>4. rt' = [rt EXCEPT ![r] = t] /\ rt[r].slot = "stored"
  BY DEF Preflight
<1> HIDE DEF x
<1>5. /\ t \in RuntimeState /\ t.x = x /\ SameOperation(rt[r], t)
      /\ t.slot = rt[r].slot /\ t.busy = rt[r].busy
  BY <1>1, <1>3 DEF RuntimeState, SameOperation
<1> HIDE DEF t
<1>6. RuntimeInv(t)
  BY <1>1, <1>3, <1>4, <1>5
     DEF RuntimeInv, BusyIsOwn, MayAdvance, SameOperation
<1>7. /\ (cache \in CacheState /\ OneModel(cache))'
      /\ DeviceTyped' /\ Len(scopes') = Len(scopes)
  BY CacheUnchanged, DeviceUnchanged DEF Preflight
<1> QED
  BY <1>4, <1>5, <1>6, <1>7, OneSessionChanges

LEMMA EmptiedKeepsInv ==
    ASSUME NEW s \in RuntimeState, RuntimeInv(s), s.slot = "stored"
    PROVE  /\ Emptied(s) \in RuntimeState /\ RuntimeInv(Emptied(s))
           /\ SameOperation(s, Emptied(s))
<1>1. s.occupied = FALSE /\ s.op.pc = "none"
  BY DEF RuntimeInv, BusyIsOwn, RuntimeState
<1> QED
  BY <1>1, FreshStates, EmptiedHasNoSession
     DEF RuntimeInv, BusyIsOwn, MayAdvance, SameOperation

LEMMA AbortKeepsInv ==
    ASSUME Inv, NEW r \in Runtime, Abort(r) PROVE Inv'
<1>1. rt[r] \in RuntimeState /\ RuntimeInv(rt[r])
  BY DEF Inv
<1>2. /\ (cache \in CacheState /\ OneModel(cache))'
      /\ DeviceTyped' /\ Len(scopes') = Len(scopes)
  BY CacheUnchanged, DeviceUnchanged DEF Abort
<1>3. CASE rt[r].slot = "stored"
  <2>1. rt' = [rt EXCEPT ![r] = Emptied(rt[r])]
    BY <1>3 DEF Abort
  <2> QED
    BY <1>1, <1>2, <1>3, <2>1, EmptiedKeepsInv, OneSessionChanges
<1>4. CASE rt[r].slot = "lent"
  <2> DEFINE t == [rt[r] EXCEPT !.slot = "doomed"]
  <2>1. rt' = [rt EXCEPT ![r] = t]
    BY <1>4 DEF Abort
  <2>2. /\ t \in RuntimeState /\ t.slot = "doomed"
        /\ t.x = rt[r].x /\ t.busy = rt[r].busy /\ SameOperation(rt[r], t)
    BY <1>1 DEF RuntimeState, SameOperation
  <2> HIDE DEF t
  <2>3. RuntimeInv(t)
    BY <1>1, <1>4, <2>2 DEF RuntimeInv, BusyIsOwn, MayAdvance, SameOperation
  <2> QED
    BY <1>2, <2>1, <2>2, <2>3, OneSessionChanges
<1> QED
  BY <1>3, <1>4 DEF Abort

(* An enqueued layer: the weights bound are pure, or the session is gone.  *)
LEMMA EnqueuedKeepsInv ==
    ASSUME Inv, NEW r \in Runtime, rt[r].slot = "stored", IsLayer(rt[r].x.pos),
           NEW failed \in BOOLEAN, NEW pure \in BOOLEAN, pure,
           Enqueued(r, failed, pure), NEW hit, Raised(hit), UNCHANGED sink,
           (cache \in CacheState /\ OneModel(cache))'
    PROVE  Inv'
<1>1. rt[r] \in RuntimeState /\ RuntimeInv(rt[r])
  BY DEF Inv
<1>2. DeviceTyped' /\ Len(scopes') = Len(scopes)
  BY RaisedKeepsScopes
<1>3. CASE failed
  <2>1. rt' = [rt EXCEPT ![r] = Emptied(rt[r])]
    BY <1>3 DEF Enqueued
  <2> QED
    BY <1>1, <1>2, <2>1, EmptiedKeepsInv, OneSessionChanges
<1>4. CASE ~failed
  <2> DEFINE t == Stepped(rt[r], pure)
  <2>1. rt' = [rt EXCEPT ![r] = t]
    BY <1>4 DEF Enqueued
  <2>2. rt[r].x.pos < 2 * Shards
    <3>1. rt[r].x.pos \in 0..2 * Shards
      BY <1>1 DEF RuntimeState, SessionState
    <3> QED
      BY <3>1, LayersIsCount DEF IsLayer, Shards
  <2>3. t \in RuntimeState /\ RuntimeInv(t) /\ SameOperation(rt[r], t)
    BY <1>1, <2>2, SteppedKeepsItsSession, Zenon
  <2> HIDE DEF t
  <2> QED
    BY <1>2, <2>1, <2>3, OneSessionChanges
<1> QED
  BY <1>3, <1>4

LEMMA EnqueuePlainKeepsInv ==
    ASSUME Inv, NEW r \in Runtime, NEW hit \in Hit, NEW failed \in BOOLEAN,
           EnqueuePlain(r, hit, failed)
    PROVE  Inv'
<1>1. /\ rt[r].slot = "stored" /\ IsLayer(rt[r].x.pos)
      /\ Enqueued(r, failed, TRUE) /\ Raised(hit) /\ UNCHANGED <<sink, cache>>
  BY DEF EnqueuePlain
<1>2. TRUE \in BOOLEAN
  OBVIOUS
<1>3. (cache \in CacheState /\ OneModel(cache))'
  BY <1>1, CacheUnchanged
<1> QED
  BY <1>1, <1>2, <1>3, EnqueuedKeepsInv, Zenon

(* What a cold session stores is of the model the cache is prepared for.   *)
LEMMA EnqueueColdKeepsInv ==
    ASSUME Inv, NEW r \in Runtime, NEW hit \in Hit, NEW failed \in BOOLEAN,
           EnqueueCold(r, hit, failed)
    PROVE  Inv'
<1> DEFINE x == rt[r].x
           layer == LayerOf(x.pos)
           stores == ~failed /\ TakesLayer(layer)
<1>1. /\ rt[r].slot = "stored" /\ Enqueued(r, ~stores, TRUE)
      /\ x.mode = "cold" /\ IsPreparedFor(x.key) /\ IsLayer(x.pos)
      /\ Raised(hit) /\ UNCHANGED sink
  BY DEF EnqueueCold
<1>2. (cache \in CacheState /\ OneModel(cache))'
  <2>1. CASE stores
    <3>1. x \in SessionState /\ SessionHolds(x)
      BY DEF Inv, RuntimeState, RuntimeInv
    <3>2. x.key \in Key /\ x.pos \in Int
      BY <1>1, <3>1, ShardsAreCounted DEF SessionState, SessionHolds
    <3>3. layer \in Int /\ layer <= Layers
      BY <1>1, <3>2, LayersIsCount DEF LayerOf, IsLayer, Shards
    <3>4. cache' = [cache EXCEPT !.layers =
                      Append(@, [key |-> x.key, sound |-> hit = 0])]
      BY <2>1 DEF EnqueueCold
    <3>5. (hit = 0) \in BOOLEAN
      OBVIOUS
    <3>6. TakesLayer(layer)
      BY <2>1
    <3> HIDE DEF x, layer
    <3> QED
      BY <1>1, <3>2, <3>3, <3>4, <3>5, <3>6, StoreLayerKeepsOneModel DEF Inv
  <2>2. CASE ~stores
    <3>1. UNCHANGED cache
      BY <2>2 DEF EnqueueCold
    <3> QED
      BY <3>1, CacheUnchanged
  <2> QED
    BY <2>1, <2>2
<1>3. (~stores) \in BOOLEAN /\ TRUE \in BOOLEAN
  BY Zenon
<1> HIDE DEF stores
<1> QED
  BY <1>1, <1>2, <1>3, EnqueuedKeepsInv, Zenon

(* A resident session looks at the cache again: all of it is of its model. *)
LEMMA EnqueueResidentKeepsInv ==
    ASSUME Inv, NEW r \in Runtime, NEW hit \in Hit, NEW failed \in BOOLEAN,
           EnqueueResident(r, hit, failed)
    PROVE  Inv'
<1> DEFINE x == rt[r].x
           layer == LayerOf(x.pos)
           pure == cache.layers[layer].key = x.key
<1>1. /\ rt[r].slot = "stored" /\ IsLayer(x.pos) /\ IsReadyFor(x.key)
      /\ Enqueued(r, failed, pure) /\ Raised(hit) /\ UNCHANGED <<sink, cache>>
  BY DEF EnqueueResident
<1>2. pure
  <2>1. x.pos \in Int
    BY ShardsAreCounted DEF Inv, RuntimeState, SessionState
  <2>2. cache.layers \in Seq(LayerEntry) /\ Len(cache.layers) = Layers
    BY <1>1 DEF Inv, CacheState, OneModel, IsReadyFor
  <2>3. layer \in 1..Layers
    BY <1>1, <2>1, LayersIsCount DEF LayerOf, IsLayer, Shards
  <2>4. layer \in DOMAIN cache.layers
    BY <2>2, <2>3
  <2> HIDE DEF layer, x
  <2> QED
    BY <1>1, <2>4 DEF Inv, OneModel, IsReadyFor
<1>3. pure \in BOOLEAN
  OBVIOUS
<1>4. (cache \in CacheState /\ OneModel(cache))'
  BY <1>1, CacheUnchanged
<1> HIDE DEF pure
<1> QED
  BY <1>1, <1>2, <1>3, <1>4, EnqueuedKeepsInv

(* Scopes were pushed for the operation s that a runtime takes.            *)
LEMMA PushedIsDraining ==
    ASSUME Inv, NEW r \in Runtime, NEW kind, Takes(r, kind),
           NEW n \in 0..3, NEW hit, NEW s, RuntimeInv(s), s.occupied = TRUE,
           s.healthy = TRUE
    PROVE  Draining(r, s, n, Pushed(n, hit))
<1>1. Pushed(n, hit) \in Seq(Scope) /\ Len(Pushed(n, hit)) = Len(scopes) + n
  BY PushedIsStack
<1>2. rt[r].healthy = TRUE /\ ToPop(rt[r]) = 0
  BY NothingToPop
<1> HIDE DEF Pushed
<1> QED
  BY <1>1, <1>2 DEF Draining, Inv, DeviceTyped

LEMMA RunUnpushedKeepsInv ==
    ASSUME Inv, NEW r \in Runtime, NEW kind \in Kind \ {"none"},
           NEW n \in 1..Checked, RunUnpushed(r, kind, n)
    PROVE  Inv'
<1> DEFINE s == Running(r, kind, TRUE, FALSE)
           stack == Pushed(n - 1, 0)
<1>1. Takes(r, kind) /\ Drain(r, s, n - 1, stack, FALSE)
  BY DEF RunUnpushed
<1>2. /\ s \in RuntimeState /\ RuntimeInv(s) /\ s.occupied = TRUE
      /\ s.healthy = TRUE
  BY <1>1, RunningHoldsItsSession
<1>3. n - 1 \in 0..3 /\ FALSE \in BOOLEAN
  BY DEF Checked
<1> HIDE DEF s
<1>4. Draining(r, s, n - 1, stack)
  BY <1>1, <1>2, <1>3, PushedIsDraining
<1> HIDE DEF stack
<1> QED
  BY <1>1, <1>2, <1>3, <1>4, DrainKeepsInv

LEMMA RunAtOnceKeepsInv ==
    ASSUME Inv, NEW r \in Runtime, NEW kind \in Kind \ {"none"},
           NEW hit \in Hit, NEW failed \in BOOLEAN,
           RunAtOnce(r, kind, hit, failed)
    PROVE  Inv'
<1> DEFINE hurt == hit # 0
           s == Running(r, kind, failed, hurt)
           stack == Pushed(Checked, hit)
<1>1. Takes(r, kind) /\ Drain(r, s, Checked, stack, FALSE)
  BY DEF RunAtOnce
<1>2. hurt \in BOOLEAN
  OBVIOUS
<1> HIDE DEF hurt
<1>3. /\ s \in RuntimeState /\ RuntimeInv(s) /\ s.occupied = TRUE
      /\ s.healthy = TRUE
  BY <1>1, <1>2, RunningHoldsItsSession
<1>4. Checked \in 0..3 /\ FALSE \in BOOLEAN
  BY DEF Checked
<1> HIDE DEF s
<1>5. Draining(r, s, Checked, stack)
  BY <1>1, <1>3, <1>4, PushedIsDraining
<1> HIDE DEF stack
<1> QED
  BY <1>1, <1>3, <1>4, <1>5, DrainKeepsInv

LEMMA RunKeepsInv ==
    ASSUME Inv, NEW r \in Runtime, NEW kind \in Kind \ {"none"},
           NEW hit \in Hit, Run(r, kind, hit)
    PROVE  Inv'
<1> DEFINE hurt == hit # 0
           s == Running(r, kind, FALSE, hurt)
<1>1. /\ Takes(r, kind) /\ rt' = [rt EXCEPT ![r] = s] /\ UNCHANGED <<late, cache>>
      /\ scopes' = Pushed(Checked, hit) /\ sink' = FALSE
  BY DEF Run
<1>2. hurt \in BOOLEAN /\ FALSE \in BOOLEAN
  OBVIOUS
<1> HIDE DEF hurt
<1>3. /\ s \in RuntimeState /\ RuntimeInv(s)
      /\ s.healthy = TRUE /\ s.op.pc = "gpu"
  BY <1>1, <1>2, RunningHoldsItsSession
<1> HIDE DEF s
<1>4. scopes' \in Seq(Scope) /\ Len(scopes') = Len(scopes) + 3
  <2>1. Checked \in 0..3 /\ Checked = 3
    BY DEF Checked
  <2> QED
    BY <1>1, <2>1, PushedIsStack
<1>5. DeviceTyped'
  BY <1>1, <1>4 DEF DeviceTyped, Inv
<1>6. Balanced(rt[r], s)
  <2>1. ToPop(rt[r]) = 0 /\ AtMost(rt[r]) = 0
    BY <1>1, NothingToPop
  <2>2. ToPop(s) = 3 /\ AtMost(s) = 3
    BY <1>3 DEF ToPop, AtMost, Checked
  <2>3. Len(scopes) \in Nat
    BY DEF Inv, DeviceTyped
  <2> QED
    BY <1>4, <2>1, <2>2, <2>3 DEF Balanced
<1>7. (cache \in CacheState /\ OneModel(cache))'
  BY <1>1, CacheUnchanged
<1> QED
  BY <1>1, <1>3, <1>5, <1>6, <1>7, OneRuntimeChanges

LEMMA GpuReturnsKeepsInv ==
    ASSUME Inv, NEW r \in Runtime, NEW failed \in BOOLEAN,
           GpuReturns(r, failed)
    PROVE  Inv'
<1> DEFINE op == [rt[r].op EXCEPT !.dirty = failed]
           s == [rt[r] EXCEPT !.op = op]
<1>1. rt[r] \in RuntimeState /\ RuntimeInv(rt[r]) /\ rt[r].op \in OperationState
  BY DEF Inv, RuntimeState
<1>2. rt[r].op.pc = "gpu" /\ Drain(r, s, Checked, scopes, sink)
  BY DEF GpuReturns
<1>3. op \in OperationState /\ op.pc = "gpu" /\ op.kind = rt[r].op.kind
  BY <1>1, <1>2 DEF OperationState
<1> HIDE DEF op
<1>4. /\ s \in RuntimeState /\ s.op = op
      /\ s.slot = rt[r].slot /\ s.busy = rt[r].busy /\ s.x = rt[r].x
      /\ s.occupied = rt[r].occupied /\ s.healthy = rt[r].healthy
  BY <1>1, <1>3 DEF RuntimeState
<1> HIDE DEF s
<1>5. /\ RuntimeInv(s) /\ s.occupied = TRUE /\ s.healthy = TRUE
      /\ rt[r].healthy = TRUE
  BY <1>1, <1>2, <1>3, <1>4
     DEF RuntimeInv, BusyIsOwn, MayAdvance, RuntimeState
<1>6. Checked \in 0..3 /\ ToPop(rt[r]) = Checked
  BY <1>2 DEF Checked, ToPop
<1>7. Draining(r, s, Checked, scopes) /\ sink \in BOOLEAN
  BY <1>5, <1>6 DEF Draining, Inv, DeviceTyped
<1> QED
  BY <1>2, <1>4, <1>6, <1>7, DrainKeepsInv

LEMMA PoppedKeepsInv ==
    ASSUME Inv, NEW r \in Runtime, Popped(r) PROVE Inv'
<1>1. rt[r] \in RuntimeState /\ RuntimeInv(rt[r]) /\ rt[r].op \in OperationState
  BY DEF Inv, RuntimeState
<1>2. rt[r].op.left \in 0..3
  BY <1>1 DEF OperationState, Checked
<1>3. rt[r].op.pc = "drain" /\ Drain(r, rt[r], rt[r].op.left, scopes, sink)
  BY DEF Popped
<1>4. rt[r].occupied = TRUE /\ rt[r].healthy = TRUE
  BY <1>1, <1>3 DEF RuntimeInv, BusyIsOwn, RuntimeState
<1>5. ToPop(rt[r]) = rt[r].op.left
  BY <1>3 DEF ToPop
<1>6. Draining(r, rt[r], rt[r].op.left, scopes) /\ sink \in BOOLEAN
  BY <1>1, <1>2, <1>4, <1>5 DEF Draining, Inv, DeviceTyped
<1> QED
  BY <1>1, <1>2, <1>3, <1>6, DrainKeepsInv
-----------------------------------------------------------------------------
(* The invariant.                                                          *)

LEMMA InitInv == Init => Inv
<1> SUFFICES ASSUME Init PROVE Inv
  OBVIOUS
<1>1. /\ NewRuntime \in RuntimeState /\ RuntimeInv(NewRuntime)
      /\ ToPop(NewRuntime) = 0 /\ AtMost(NewRuntime) = 0
  BY FreshStates
     DEF NewRuntime, RuntimeState, RuntimeInv, BusyIsOwn, MayAdvance, ToPop,
         AtMost
<1>2. rt \in [Runtime -> RuntimeState] /\ \A r \in Runtime : RuntimeInv(rt[r])
  <2> HIDE DEF Inv
  <2>1. rt = [r \in Runtime |-> NewRuntime]
    BY DEF Init
  <2> QED
    BY <1>1, <2>1
<1>3. cache \in CacheState /\ OneModel(cache)
  BY LayersIsCount
     DEF Init, Prepared, NoEntry, CacheState, Entry, OneModel
<1>4. DeviceTyped
  <2>1. scopes \in Seq(Scope)
    BY DEF Init
  <2>2. late \in BOOLEAN /\ sink \in BOOLEAN
    BY Zenon DEF Init
  <2> QED
    BY <2>1, <2>2 DEF DeviceTyped
<1>5. Counted
  <2>1. \A r \in Runtime : ToPop(rt[r]) = 0 /\ AtMost(rt[r]) = 0
    BY <1>1 DEF Init
  <2>2. Owed = {} /\ OnStack = {}
    BY <2>1 DEF Owed, OnStack, Checked
  <2>3. Len(scopes) = 0
    BY DEF Init
  <2> QED
    BY <2>2, <2>3, FS_EmptySet DEF Counted
<1> QED
  BY <1>2, <1>3, <1>4, <1>5 DEF Inv

LEMMA NextInv == Inv /\ [Next]_vars => Inv'
<1> SUFFICES ASSUME Inv, [Next]_vars PROVE Inv'
  OBVIOUS
<1>1. CASE Deliver
  <2>1. DeviceTyped' /\ UNCHANGED <<rt, scopes, cache>>
    BY <1>1 DEF Deliver, Inv, DeviceTyped
  <2> QED
    BY <2>1, CacheUnchanged, RuntimesUnchanged
<1>2. ASSUME NEW r \in Runtime, Begin(r) PROVE Inv'
  BY <1>2, BeginKeepsInv
<1>3. ASSUME NEW r \in Runtime, NEW k \in Key, BeginResident(r, k) PROVE Inv'
  BY <1>3, BeginResidentKeepsInv
<1>4. ASSUME NEW r \in Runtime, Preflight(r) \/ Abort(r) PROVE Inv'
  BY <1>4, PreflightKeepsInv, AbortKeepsInv
<1>5. ASSUME NEW r \in Runtime, NEW hit \in Hit, NEW failed \in BOOLEAN,
             \/ EnqueuePlain(r, hit, failed)
             \/ EnqueueCold(r, hit, failed)
             \/ EnqueueResident(r, hit, failed)
      PROVE  Inv'
  BY <1>5, EnqueuePlainKeepsInv, EnqueueColdKeepsInv, EnqueueResidentKeepsInv
<1>6. ASSUME NEW r \in Runtime, NEW kind \in Kind \ {"none"},
             NEW n \in 1..Checked, RunUnpushed(r, kind, n)
      PROVE  Inv'
  BY <1>6, RunUnpushedKeepsInv
<1>7. ASSUME NEW r \in Runtime, NEW kind \in Kind \ {"none"},
             NEW hit \in Hit, NEW failed \in BOOLEAN,
             RunAtOnce(r, kind, hit, failed)
      PROVE  Inv'
  BY <1>7, RunAtOnceKeepsInv
<1>8. ASSUME NEW r \in Runtime, NEW kind \in Kind \ {"none"},
             NEW hit \in Hit, Run(r, kind, hit)
      PROVE  Inv'
  BY <1>8, RunKeepsInv
<1>9. ASSUME NEW r \in Runtime, NEW failed \in BOOLEAN, GpuReturns(r, failed)
      PROVE  Inv'
  BY <1>9, GpuReturnsKeepsInv
<1>10. ASSUME NEW r \in Runtime, Popped(r) PROVE Inv'
  BY <1>10, PoppedKeepsInv
<1>11. CASE UNCHANGED vars
  BY <1>11, CacheUnchanged, DeviceUnchanged, RuntimesUnchanged DEF vars
<1> QED
  BY <1>1, <1>2, <1>3, <1>4, <1>5, <1>6, <1>7, <1>8, <1>9, <1>10, <1>11, Zenon
  DEF Next, Call, Returns

LEMMA InvHolds == Spec => []Inv
  BY InitInv, NextInv, PTL DEF Spec
-----------------------------------------------------------------------------
(* execution_busy is set exactly while the owner holds a session, stored,  *)
(* lent or aborted while lent, and an operation in progress holds one      *)
(* exactly if it is not a one-shot kernel: whatever fails or is aborted.   *)
THEOREM BusyFollowsTheSession == Spec => []BusyIsSession
<1>1. Inv => BusyIsSession
  BY DEF Inv, RuntimeInv, BusyIsOwn, BusyIsSession
<1> QED
  BY <1>1, InvHolds, PTL

(* What VisionWeightCache holds is always of the model it is prepared for, *)
(* and complete when it is ready, however many runtimes reset and fill it. *)
THEOREM CacheIsOfOneModel == Spec => []CacheHoldsOneModel
<1>1. Inv => CacheHoldsOneModel
  BY DEF Inv, OneModel, CacheHoldsOneModel
<1> QED
  BY <1>1, InvHolds, PTL

(* No session that found its weights resident at its begin ever binds a    *)
(* layer or a post norm of another model: is_ready_for is asked again at   *)
(* every use, and what it asks about is of one model.                      *)
THEOREM ResidentSessionsArePure == Spec => []ReadySessionsArePure
<1>1. Inv => ReadySessionsArePure
  BY DEF Inv, RuntimeInv, SessionHolds, ReadySessionsArePure
<1> QED
  BY <1>1, InvHolds, PTL

LEMMA TypedByInv == Inv => TypeOK
  BY Zenon
     DEF Inv, OneModel, DeviceTyped, TypeOK, RuntimeState, SessionState,
         OperationState, CacheState, LayerEntry, Entry, Scope

(* The types of all that the sessions keep: positions end with the post    *)
(* norm, and a ledger has at most the three scopes of an operation.        *)
THEOREM TypesHold == Spec => []TypeOK
  BY InvHolds, TypedByInv, PTL

(* Every pop of drain_vision_stack_error_scopes finds a scope, and what is *)
(* left on the device's stack are at most the scopes of one operation of   *)
(* each runtime that VisionStackErrorScopeAuthority has poisoned: however  *)
(* the operations of other runtimes interleave with it.                    *)
THEOREM LeftoversHaveAnOwner == Spec => []LeftoversArePoisoned
<1>1. Inv => LeftoversArePoisoned
  <2> SUFFICES ASSUME Inv PROVE LeftoversArePoisoned
    OBVIOUS
  <2>1. \A r \in Runtime : /\ ToPop(rt[r]) \in 0..3
                           /\ rt[r].healthy \in BOOLEAN
    BY PopsAreFew DEF Inv, RuntimeState
  <2>2. OnStack = Owed \union Abandoned
    BY <2>1 DEF OnStack, Owed, Abandoned, AtMost, Checked
  <2> QED
    BY <2>2 DEF Inv, Counted, LeftoversArePoisoned
<1> QED
  BY <1>1, InvHolds, PTL
=============================================================================

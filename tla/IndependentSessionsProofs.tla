---------------------- MODULE IndependentSessionsProofs ----------------------
(***************************************************************************)
(* Proofs about MCIndependentComponents that carry over what is proved     *)
(* elsewhere, or join several components.                                  *)
(*                                                                         *)
(* First the key-value, layer and full-layer session, for any number of    *)
(* pending operations and sessions, clients that await and clients that do *)
(* not.  The operation of the other authority is one more operation of the *)
(* decoder stack session: one that has begun to drain what it pushed.      *)
(* Then the vision session, and with it the types of all components.       *)
(*                                                                         *)
(* Then what is dispatched: the bindings of every command of the decoder's *)
(* and the vision encoder's programs, with the arena that the scratch      *)
(* tensors share, and the dispatches of DispatchProofs.                    *)
(***************************************************************************)
EXTENDS IndependentComponentsProofs, SequenceTheorems

OtherOp == CHOOSE o : o \notin Op
OtherState(n) ==
    IF n = 0 THEN Authority!Stack!Settled
    ELSE [Authority!Stack!Settled EXCEPT !.pc = "failDrain", !.kind = "begin",
                                         !.left = n]
allOps == [o \in Op \union {OtherOp} |->
              IF o = OtherOp THEN OtherState(other) ELSE op[o]]

All == INSTANCE DecoderStackProofs WITH
    Session <- LayerSession, NoSession <- NoLayerSession,
    Op <- Op \union {OtherOp}, Descriptor <- Authority!Descriptors,
    Key <- {}, NoKey <- "none", AwaitsCalls <- FALSE,
    resident <- [key |-> "none", sound |-> FALSE],
    scopes <- deviceScopes, op <- allOps

LEMMA OtherIsOther == OtherOp \notin Op
  BY NoSetContainsEverything DEF OtherOp

LEMMA RecordsWithin ==
    ASSUME NEW N, NEW B, NEW A \in SUBSET N, NEW C \in SUBSET N,
           NEW D \in SUBSET B
    PROVE  [prefix : A, capacity : A, prefill : C, vocab : D] \subseteq
               [prefix : N, capacity : N, prefill : N, vocab : B]
  OBVIOUS

LEMMA Values ==
    /\ NoLayerSession \notin LayerSession /\ CounterMax \in Nat
    /\ Hit \subseteq 0..3 /\ MaxRows \in Nat
    /\ Authority!Descriptors \subseteq
          [prefix : Nat, capacity : Nat, prefill : Nat, vocab : BOOLEAN]
    /\ "none" \notin {} /\ FALSE \in BOOLEAN
<1>1. /\ NoLayerSession \notin LayerSession /\ CounterMax \in Nat
      /\ Hit \subseteq 0..3 /\ MaxRows \in Nat
  BY AuthorityValues DEF Authority!AuthorityIsValid
<1>2. {FALSE} \subseteq BOOLEAN /\ FALSE \in BOOLEAN
  BY Zenon
<1>3. 0..MaxRows \subseteq Nat /\ {0} \subseteq Nat
  BY <1>1
<1> QED
  BY <1>1, <1>2, <1>3, RecordsWithin DEF Authority!Descriptors

LEMMA Merges ==
    ASSUME DOMAIN op = Op, NEW o \in Op, NEW x, op' = [op EXCEPT ![o] = x],
           UNCHANGED other
    PROVE  /\ allOps' = [allOps EXCEPT ![o] = x] /\ allOps[o] = op[o]
           /\ DOMAIN op' = Op
  BY OtherIsOther DEF allOps, OtherState

LEMMA NoneQueuedAtAll ==
    ASSUME DOMAIN op = Op
    PROVE  Authority!Stack!NoneQueued <=> All!NoneQueued
  BY OtherIsOther DEF allOps, OtherState, Authority!Stack!NoneQueued,
     All!NoneQueued, Authority!Stack!Settled

LEMMA PopsAreSteps ==
    ASSUME DOMAIN op = Op, NEW o \in Op, NEW x, NEW pcs, NEW left, NEW stack,
           Authority!Stack!PopStarted(o, x, pcs, left, stack), UNCHANGED other
    PROVE  All!PopStarted(o, x, pcs, left, stack) /\ DOMAIN op' = Op
  BY Merges DEF Authority!Stack!PopStarted, All!PopStarted

(* An operation that goes on with other contents.                          *)
LEMMA Same == ASSUME NEW o \in Op PROVE allOps[o] = op[o]
  BY OtherIsOther DEF allOps

LEMMA QueuesAreSteps ==
    ASSUME DOMAIN op = Op, NEW o \in Op, NEW x, Authority!Stack!Queue(o, x),
           UNCHANGED other
    PROVE  All!Queue(o, x) /\ DOMAIN op' = Op
  BY Merges DEF Authority!Stack!Queue, All!Queue

LEMMA PopStepsAreSteps ==
    ASSUME DOMAIN op = Op, NEW o \in Op, UNCHANGED other,
           \/ Authority!Stack!BeginPop(o)
           \/ Authority!Stack!GpuFails(o) \/ Authority!Stack!FinishReadsValues(o)
           \/ Authority!Stack!StaleDrain(o) \/ Authority!Stack!DrainPop(o)
    PROVE  /\ \/ All!BeginPop(o)
              \/ All!GpuFails(o) \/ All!FinishReadsValues(o)
              \/ All!StaleDrain(o) \/ All!DrainPop(o)
           /\ DOMAIN op' = Op
<1> USE Same, PopsAreSteps, NoneQueuedAtAll
    DEF All!Checked, Authority!Stack!Checked, All!ownerVars,
        Authority!Stack!ownerVars
<1>1. CASE Authority!Stack!BeginPop(o)
  BY <1>1 DEF Authority!Stack!BeginPop, All!BeginPop, All!IsStale,
     Authority!Stack!IsStale
<1>2. CASE Authority!Stack!GpuFails(o)
  BY <1>2 DEF Authority!Stack!GpuFails, All!GpuFails
<1>3. CASE Authority!Stack!FinishReadsValues(o)
  BY <1>3 DEF Authority!Stack!FinishReadsValues, All!FinishReadsValues
<1>4. CASE Authority!Stack!StaleDrain(o)
  BY <1>4 DEF Authority!Stack!StaleDrain, All!StaleDrain
<1>5. CASE Authority!Stack!DrainPop(o)
  BY <1>5 DEF Authority!Stack!DrainPop, All!DrainPop
<1> QED
  BY <1>1, <1>2, <1>3, <1>4, <1>5

LEMMA GpuReadsIsStep ==
    ASSUME DOMAIN op = Op, NEW o \in Op, UNCHANGED other,
           Authority!Stack!GpuReads(o)
    PROVE  All!GpuReads(o) /\ DOMAIN op' = Op
  BY Same, PopsAreSteps, NoneQueuedAtAll
  DEF All!Checked, Authority!Stack!Checked, All!ownerVars,
      Authority!Stack!ownerVars, Authority!Stack!GpuReads, All!GpuReads,
      All!IsStale, Authority!Stack!IsStale, All!SessionOf,
      Authority!Stack!SessionOf, All!Committed, Authority!Stack!Committed

LEMMA FailuresAreSteps ==
    ASSUME DOMAIN op = Op, NEW o \in Op, UNCHANGED other, NEW n, NEW hit,
           \/ Authority!Stack!RunBeginFails(o, n, hit)
           \/ Authority!Stack!RunFails(o, n, hit)
    PROVE  /\ All!RunBeginFails(o, n, hit) \/ All!RunFails(o, n, hit)
           /\ DOMAIN op' = Op
<1>1. Authority!Stack!Pushed(n, hit) = All!Pushed(n, hit)
  BY DEF Authority!Stack!Pushed, All!Pushed
<1> USE Same, PopsAreSteps, <1>1
    DEF All!Checked, Authority!Stack!Checked, All!ownerVars,
        Authority!Stack!ownerVars
<1>2. CASE Authority!Stack!RunBeginFails(o, n, hit)
  BY <1>2 DEF Authority!Stack!RunBeginFails, All!RunBeginFails
<1>3. CASE Authority!Stack!RunFails(o, n, hit)
  BY <1>3 DEF Authority!Stack!RunFails, All!RunFails, All!SessionOf,
     Authority!Stack!SessionOf
<1> QED
  BY <1>2, <1>3

(* Operations that move on, or are settled, without a pop.                 *)
LEMMA MovesAreSteps ==
    ASSUME DOMAIN op = Op, NEW o \in Op, UNCHANGED other,
           \/ Authority!Stack!GpuStale(o) \/ Authority!Stack!FinishReadsKeys(o)
    PROVE  /\ All!GpuStale(o) \/ All!FinishReadsKeys(o)
           /\ DOMAIN op' = Op
<1> USE Same, NoneQueuedAtAll DEF All!ownerVars, Authority!Stack!ownerVars
<1>1. CASE Authority!Stack!GpuStale(o)
  <2>1. op' = [op EXCEPT ![o] = [op[o] EXCEPT !.pc = "stale"]]
    BY <1>1 DEF Authority!Stack!GpuStale
  <2>2. allOps' = [allOps EXCEPT ![o] = [allOps[o] EXCEPT !.pc = "stale"]]
          /\ DOMAIN op' = Op
    BY <2>1, Merges
  <2> QED
    BY <1>1, <2>2 DEF Authority!Stack!GpuStale, All!GpuStale, All!IsStale,
       Authority!Stack!IsStale
<1>2. CASE Authority!Stack!FinishReadsKeys(o)
  <2>1. op' = [op EXCEPT ![o] = [op[o] EXCEPT !.pc = "gpu2"]]
    BY <1>2 DEF Authority!Stack!FinishReadsKeys
  <2>2. allOps' = [allOps EXCEPT ![o] = [allOps[o] EXCEPT !.pc = "gpu2"]]
          /\ DOMAIN op' = Op
    BY <2>1, Merges
  <2> QED
    BY <1>2, <2>2 DEF Authority!Stack!FinishReadsKeys, All!FinishReadsKeys,
       All!IsStale, Authority!Stack!IsStale
<1> QED
  BY <1>1, <1>2

LEMMA EncodesIsStep ==
    ASSUME DOMAIN op = Op, NEW o \in Op, UNCHANGED other, NEW hit,
           Authority!Stack!RunEncodes(o, hit)
    PROVE  All!RunEncodes(o, hit) /\ DOMAIN op' = Op
<1>1. op' = [op EXCEPT ![o] = [op[o] EXCEPT !.pc = "gpu"]]
  BY DEF Authority!Stack!RunEncodes
<1>2. allOps' = [allOps EXCEPT ![o] = [allOps[o] EXCEPT !.pc = "gpu"]]
        /\ DOMAIN op' = Op
  BY <1>1, Merges
<1> QED
  BY <1>2, Same DEF Authority!Stack!RunEncodes, All!RunEncodes,
     All!SessionOf, Authority!Stack!SessionOf, All!ownerVars,
     Authority!Stack!ownerVars, All!Pushed, Authority!Stack!Pushed,
     All!Checked, Authority!Stack!Checked

LEMMA SettledSame == Authority!Stack!Settled = All!Settled
  BY DEF Authority!Stack!Settled, All!Settled, Authority!Stack!Unheld,
     All!Unheld, Authority!Stack!NoPlan, All!NoPlan

LEMMA BeginEndsAreSteps ==
    ASSUME DOMAIN op = Op, NEW o \in Op, UNCHANGED other,
           \/ Authority!Stack!BeginUnsupported(o) \/ Authority!Stack!BeginStale(o)
           \/ Authority!Stack!BeginPoisons(o) \/ Authority!Stack!BeginReady(o)
           \/ Authority!Stack!BeginFailed(o)
    PROVE  /\ \/ All!BeginUnsupported(o) \/ All!BeginStale(o)
              \/ All!BeginPoisons(o) \/ All!BeginReady(o)
              \/ All!BeginFailed(o)
           /\ DOMAIN op' = Op
<1>1. op' = [op EXCEPT ![o] = Authority!Stack!Settled]
  BY DEF Authority!Stack!BeginUnsupported, Authority!Stack!BeginStale,
     Authority!Stack!BeginPoisons, Authority!Stack!BeginReady,
     Authority!Stack!BeginFailed, Authority!Stack!BeginDrained
<1>2. allOps' = [allOps EXCEPT ![o] = All!Settled] /\ DOMAIN op' = Op
  BY <1>1, Merges, SettledSame
<1> USE Same, NoneQueuedAtAll, <1>2
    DEF All!ownerVars, Authority!Stack!ownerVars, All!IsStale,
        Authority!Stack!IsStale, All!BeginDrained, Authority!Stack!BeginDrained
<1>3. CASE Authority!Stack!BeginUnsupported(o)
  BY <1>3 DEF Authority!Stack!BeginUnsupported, All!BeginUnsupported
<1>4. CASE Authority!Stack!BeginStale(o)
  BY <1>4 DEF Authority!Stack!BeginStale, All!BeginStale
<1>5. CASE Authority!Stack!BeginPoisons(o)
  BY <1>5 DEF Authority!Stack!BeginPoisons, All!BeginPoisons
<1>6. CASE Authority!Stack!BeginReady(o)
  BY <1>6 DEF Authority!Stack!BeginReady, All!BeginReady,
     Authority!Stack!SessionOf, All!SessionOf
<1>7. CASE Authority!Stack!BeginFailed(o)
  BY <1>7 DEF Authority!Stack!BeginFailed, All!BeginFailed,
     Authority!Stack!Drained, All!Drained
<1> QED
  BY <1>3, <1>4, <1>5, <1>6, <1>7

(* The owner is one, by whatever name.                                     *)
LEMMA OwnersAreOne ==
    /\ \A s : Authority!Stack!Owner!Begin(s) => All!Owner!Begin(s)
    /\ Authority!Stack!Owner!Acquire => All!Owner!Acquire
    /\ Authority!Stack!Owner!CancelAndRelease => All!Owner!CancelAndRelease
    /\ \A n : Authority!Stack!Owner!CanIssue(n) => All!Owner!CanIssue(n)
<1> USE DEF Authority!Stack!Owner!CanIssue, All!Owner!CanIssue,
            Authority!Stack!Owner!None, All!Owner!None,
            Authority!Stack!Owner!TakeStored, All!Owner!TakeStored
<1>1. ASSUME NEW s, Authority!Stack!Owner!Begin(s) PROVE All!Owner!Begin(s)
  BY <1>1 DEF Authority!Stack!Owner!Begin, All!Owner!Begin,
     Authority!Stack!Owner!Lent, All!Owner!Lent
<1>2. ASSUME Authority!Stack!Owner!Acquire PROVE All!Owner!Acquire
  BY <1>2 DEF Authority!Stack!Owner!Acquire, All!Owner!Acquire
<1>3. ASSUME Authority!Stack!Owner!CancelAndRelease
      PROVE  All!Owner!CancelAndRelease
  BY <1>3 DEF Authority!Stack!Owner!CancelAndRelease,
     All!Owner!CancelAndRelease, Authority!Stack!Owner!ReleaseStored,
     All!Owner!ReleaseStored, Authority!Stack!Owner!DetachInFlight,
     All!Owner!DetachInFlight
<1>4. \A n : Authority!Stack!Owner!CanIssue(n) => All!Owner!CanIssue(n)
  OBVIOUS
<1> QED
  BY <1>1, <1>2, <1>3, <1>4

LEMMA CompletionsAreOne ==
    ASSUME NEW c, NEW action, Authority!Stack!Owner!Complete(c, action)
    PROVE  All!Owner!Complete(c, action)
  BY DEF Authority!Stack!Owner!Complete, All!Owner!Complete,
     Authority!Stack!Owner!CompleteStale, All!Owner!CompleteStale,
     Authority!Stack!Owner!CompleteCancelled, All!Owner!CompleteCancelled,
     Authority!Stack!Owner!CompleteRestore, All!Owner!CompleteRestore,
     Authority!Stack!Owner!CompleteFinish, All!Owner!CompleteFinish,
     Authority!Stack!Owner!Current, All!Owner!Current,
     Authority!Stack!Owner!ownerVars, All!Owner!ownerVars,
     Authority!Stack!Owner!None, All!Owner!None

LEMMA StoresIsStep ==
    ASSUME DOMAIN op = Op, NEW o \in Op, UNCHANGED other, NEW s, NEW hit,
           Authority!Stack!RunBeginStores(o, s, hit)
    PROVE  All!RunBeginStores(o, s, hit) /\ DOMAIN op' = Op
  BY Same, PopsAreSteps, OwnersAreOne
  DEF Authority!Stack!RunBeginStores, All!RunBeginStores,
      Authority!Stack!Cached, All!Cached, Authority!Stack!Dropped, All!Dropped,
      Authority!Stack!NoPlan, All!NoPlan,
      Authority!Stack!PrefillCapable, All!PrefillCapable,
      Authority!Stack!InitialTokens, All!InitialTokens,
      Authority!Stack!Pushed, All!Pushed,
      Authority!Stack!Checked, All!Checked

LEMMA DroppedSame == Authority!Stack!Dropped = All!Dropped
  BY DEF Authority!Stack!Dropped, All!Dropped, Authority!Stack!NoPlan, All!NoPlan

LEMMA SettleIsStep ==
    ASSUME DOMAIN op = Op, NEW o \in Op, UNCHANGED other,
           NEW action, NEW poisoned,
           Authority!Stack!Settle(o, action, poisoned)
    PROVE  All!Settle(o, action, poisoned) /\ DOMAIN op' = Op
<1>1. op' = [op EXCEPT ![o] = Authority!Stack!Settled]
  BY DEF Authority!Stack!Settle
<1>2. allOps' = [allOps EXCEPT ![o] = All!Settled] /\ DOMAIN op' = Op
  BY <1>1, Merges, SettledSame
<1>3. All!Owner!Complete(allOps[o].held, action)
  BY Same, CompletionsAreOne DEF Authority!Stack!Settle
<1> QED
  BY <1>2, <1>3, Same, DroppedSame
  DEF Authority!Stack!Settle, All!Settle, Authority!Stack!SessionOf, All!SessionOf

LEMMA SettlesAreSteps ==
    ASSUME DOMAIN op = Op, NEW o \in Op, UNCHANGED other,
           \/ Authority!Stack!Failed(o) \/ Authority!Stack!StaleDone(o)
           \/ Authority!Stack!Captured(o) \/ Authority!Stack!Done(o)
    PROVE  /\ \/ All!Failed(o) \/ All!StaleDone(o)
              \/ All!Captured(o) \/ All!Done(o)
           /\ DOMAIN op' = Op
<1> USE Same, NoneQueuedAtAll, SettleIsStep
    DEF Authority!Stack!Drained, All!Drained
<1>1. CASE Authority!Stack!Failed(o)
  BY <1>1 DEF Authority!Stack!Failed, All!Failed
<1>2. CASE Authority!Stack!StaleDone(o)
  BY <1>2 DEF Authority!Stack!StaleDone, All!StaleDone
<1>3. CASE Authority!Stack!Captured(o)
  BY <1>3 DEF Authority!Stack!Captured, All!Captured
<1>4. CASE Authority!Stack!Done(o)
  BY <1>4 DEF Authority!Stack!Done, All!Done
<1> QED
  BY <1>1, <1>2, <1>3, <1>4

(* The calls.                                                              *)
LEMMA BeginsAreSteps ==
    ASSUME DOMAIN op = Op, NEW o \in Op, UNCHANGED other, NEW d,
           Authority!Stack!CallBegin(o, d, "none")
    PROVE  All!CallBegin(o, d, "none") /\ DOMAIN op' = Op
<1> DEFINE x == [All!Settled EXCEPT !.kind = "begin", !.plan = d,
                                    !.key = "none", !.pack = TRUE]
<1>1. All!Queue(o, x) /\ DOMAIN op' = Op
  BY QueuesAreSteps, SettledSame DEF Authority!Stack!CallBegin
<1> HIDE DEF x
<1>2. All!PlanAdmitted(d)
  BY DEF Authority!Stack!CallBegin, Authority!Stack!PlanAdmitted,
     All!PlanAdmitted, Authority!Stack!PrefillCapable, All!PrefillCapable,
     Authority!Stack!InitialTokens, All!InitialTokens
<1>3. All!MayCall(o) /\ All!AdmitsBegin /\ UNCHANGED All!ownerVars
  BY Same DEF Authority!Stack!CallBegin, Authority!Stack!MayCall, All!MayCall,
     Authority!Stack!AdmitsBegin, All!AdmitsBegin, Authority!Stack!ownerVars,
     All!ownerVars
<1> QED
  BY <1>1, <1>2, <1>3 DEF All!CallBegin, x

LEMMA LeasesAreSteps ==
    ASSUME DOMAIN op = Op, NEW o \in Op, UNCHANGED other, NEW x,
           Authority!Stack!Call(o, x)
    PROVE  All!Call(o, x) /\ DOMAIN op' = Op
<1>1. /\ All!MayCall(o) /\ All!Usable(stored) /\ All!Owner!Acquire
  BY Same, OwnersAreOne DEF Authority!Stack!Call, Authority!Stack!MayCall,
     All!MayCall, Authority!Stack!Usable, All!Usable
<1> QED
  BY <1>1, QueuesAreSteps DEF Authority!Stack!Call, All!Call

LEMMA UsesAreSteps ==
    ASSUME DOMAIN op = Op, NEW o \in Op, UNCHANGED other,
           Authority!Stack!CallStep(o) \/ Authority!Stack!CallFinish(o)
    PROVE  (All!CallStep(o) \/ All!CallFinish(o)) /\ DOMAIN op' = Op
<1>1. CASE Authority!Stack!CallStep(o)
  <2>1. All!StepAdmitted(sessions[stored]) /\ stored # NoLayerSession
    BY <1>1 DEF Authority!Stack!CallStep, Authority!Stack!StepAdmitted,
       All!StepAdmitted, Authority!Stack!PrefillCapable, All!PrefillCapable,
       Authority!Stack!InitialTokens, All!InitialTokens
  <2> QED
    BY <1>1, <2>1, LeasesAreSteps, SettledSame DEF Authority!Stack!CallStep, All!CallStep
<1>2. CASE Authority!Stack!CallFinish(o)
  BY <1>2, LeasesAreSteps, SettledSame DEF Authority!Stack!CallFinish, All!CallFinish
<1> QED
  BY <1>1, <1>2

LEMMA RejectionsAreSteps ==
    ASSUME DOMAIN op = Op, NEW o \in Op, UNCHANGED other,
           Authority!Stack!RejectedCall(o)
    PROVE  All!RejectedCall(o) /\ DOMAIN op' = Op
<1>1. All!MayCall(o) /\ All!Usable(stored) /\ All!Owner!CanIssue(lastLease)
  BY Same, OwnersAreOne DEF Authority!Stack!RejectedCall,
     Authority!Stack!MayCall, All!MayCall, Authority!Stack!Usable, All!Usable
<1>2. UNCHANGED allOps /\ DOMAIN op' = Op
  BY DEF Authority!Stack!RejectedCall, allOps, OtherState
<1> QED
  BY <1>1, <1>2 DEF Authority!Stack!RejectedCall, All!RejectedCall

LEMMA AbortIsStep ==
    ASSUME DOMAIN op = Op, UNCHANGED other, Authority!Stack!Abort
    PROVE  All!Abort /\ DOMAIN op' = Op
<1>1. UNCHANGED allOps /\ DOMAIN op' = Op
  BY DEF Authority!Stack!Abort, allOps, OtherState
<1> QED
  BY <1>1, OwnersAreOne, DroppedSame
  DEF Authority!Stack!Abort, All!Abort, Authority!Stack!Discard, All!Discard
-----------------------------------------------------------------------------
(* The invariant: that of the decoder stack session, of all operations.    *)
LayerInv ==
    /\ DOMAIN op = Op /\ other \in 0..3 /\ authority \in Authority!Kind
    /\ awaits \in BOOLEAN
    /\ All!Inv /\ All!CacheInv /\ All!ScopeInv(awaits)

LEMMA RunsKeepLayers ==
    ASSUME LayerInv, NEW o \in Op, All!Runs(o), DOMAIN op' = Op,
           UNCHANGED <<authority, awaits, other>>
    PROVE  LayerInv'
<1>1. o \in Op \union {OtherOp}
  OBVIOUS
<1>2. All!Inv' /\ All!CacheInv'
  <2>1. All!Next
    BY <1>1 DEF All!Next
  <2> QED
    BY <2>1, Values, All!NextKeepsInv, All!NextKeepsCache DEF LayerInv
<1>3. All!ScopeInv(awaits)'
  <2>1. All!ScopeInv(awaits) /\ All!Inv /\ All!CacheInv
    BY DEF LayerInv
  <2>2. ASSUME NEW a, All!ScopeInv(a) PROVE All!ScopeInv(a)'
    BY <1>1, <2>1, <2>2, Values, All!RunsKeepScopes
  <2> QED
    BY <2>1, <2>2
<1> QED
  BY <1>2, <1>3 DEF LayerInv

LEMMA IdleKeepsLayers ==
    ASSUME LayerInv, UNCHANGED authorityVars PROVE LayerInv'
<1>1. UNCHANGED allOps
  BY DEF authorityVars, allOps, OtherState
<1>2. UNCHANGED All!vars
  BY <1>1 DEF authorityVars, All!vars, All!ownerVars
<1>3. All!Inv' /\ All!CacheInv'
  BY <1>2, Values, All!NextKeepsInv, All!NextKeepsCache DEF LayerInv
<1>4. All!ScopeInv(awaits)'
  <2>1. UNCHANGED <<stored, generation, sessions, deviceScopes, allOps, awaits>>
    BY <1>1 DEF authorityVars
  <2>2. ASSUME NEW a, All!ScopeInv(a) PROVE All!ScopeInv(a)'
    BY <2>1, <2>2, Values, All!IdleKeepsScopes
  <2> QED
    BY <2>1, <2>2 DEF LayerInv
<1> QED
  BY <1>3, <1>4 DEF LayerInv, authorityVars

LEMMA AbortKeepsLayers ==
    ASSUME LayerInv, Authority!Abort, UNCHANGED <<authority, awaits, other>>
    PROVE  LayerInv'
<1>1. All!Abort /\ DOMAIN op' = Op
  BY AbortIsStep DEF Authority!Abort, LayerInv
<1>2. All!Inv' /\ All!CacheInv'
  <2>1. All!Next
    BY <1>1 DEF All!Next
  <2> QED
    BY <2>1, Values, All!NextKeepsInv, All!NextKeepsCache DEF LayerInv
<1>3. All!ScopeInv(awaits)'
  <2>1. All!Inv /\ All!ScopeInv(awaits)
    BY DEF LayerInv
  <2>2. ASSUME NEW a, All!ScopeInv(a) PROVE All!ScopeInv(a)'
    BY <1>1, <2>1, <2>2, Values, All!AbortKeepsScopes
  <2> QED
    BY <2>1, <2>2
<1> QED
  BY <1>1, <1>2, <1>3 DEF LayerInv

(* A client that awaits makes its call when nothing is pending, of this    *)
(* authority or the other one.                                             *)
LEMMA AwaitedIsAlone ==
    ASSUME DOMAIN op = Op, Authority!MayCall, awaits
    PROVE  All!NothingPending /\ other = 0
  BY DEF Authority!MayCall, All!NothingPending, allOps, OtherState,
     Authority!Stack!Settled

LEMMA CallsKeepLayers ==
    ASSUME LayerInv, NEW o \in Op, Authority!MayCall, DOMAIN op' = Op,
           UNCHANGED <<authority, awaits, other>>,
           \/ \E d \in Authority!Descriptors : All!CallBegin(o, d, "none")
           \/ All!CallStep(o) \/ All!CallFinish(o) \/ All!RejectedCall(o)
    PROVE  LayerInv'
<1>1. o \in Op \union {OtherOp} /\ "none" \in {} \union {"none"}
  OBVIOUS
<1>2. All!Inv' /\ All!CacheInv'
  <2>1. All!Calls(o)
    BY <1>1 DEF All!Calls
  <2>2. All!Next
    BY <1>1, <2>1 DEF All!Next
  <2> QED
    BY <2>2, Values, All!NextKeepsInv, All!NextKeepsCache DEF LayerInv
<1>3. All!ScopeInv(awaits)'
  <2>1. /\ All!ScopeInv(awaits) /\ All!Inv
        /\ awaits => All!NothingPending
    BY AwaitedIsAlone DEF LayerInv
  <2>2. ASSUME NEW a, All!ScopeInv(a), a => All!NothingPending
        PROVE  All!ScopeInv(a)'
    <3>1. CASE \E d \in Authority!Descriptors : All!CallBegin(o, d, "none")
      BY <1>1, <2>1, <2>2, <3>1, Values, All!BeginCallsKeepScopes
    <3>2. CASE All!CallStep(o) \/ All!CallFinish(o)
      BY <1>1, <2>1, <2>2, <3>2, Values, All!CallsKeepScopes
    <3>3. CASE All!RejectedCall(o)
      BY <1>1, <2>1, <2>2, <3>3, Values, All!RejectedCallKeepsScopes
    <3> QED
      BY <3>1, <3>2, <3>3
  <2> QED
    BY <2>1, <2>2
<1> QED
  BY <1>2, <1>3 DEF LayerInv

(* A key-value session's finish reads both planes of its one buffer.       *)
LEMMA PlanesKeepLayers ==
    ASSUME LayerInv, NEW o \in Op, op[o].kind = "finish",
           Authority!KvReadsPlanes(o), UNCHANGED <<authority, awaits, other>>
    PROVE  LayerInv'
<1>1. /\ allOps[o] = op[o] /\ op[o].pc = "gpu" /\ o \in Op \union {OtherOp}
      /\ All!PopStarted(o, allOps[o], "okDrain", 2, deviceScopes)
      /\ DOMAIN op' = Op
      /\ UNCHANGED All!ownerVars /\ UNCHANGED sessions
      /\ UNCHANGED <<stored, generation>>
  BY Same, PopsAreSteps DEF Authority!KvReadsPlanes, Authority!Stack!Checked,
     Authority!ownerVars, All!ownerVars, LayerInv
<1>2. All!Inv /\ All!CacheInv /\ All!ScopeInv(awaits)
  BY DEF LayerInv
<1>3. All!Inv'
  BY <1>1, <1>2, Values, All!PopStep
<1>4. All!CacheInv'
  BY <1>1, <1>2, Values, All!PopKeepsCache
<1>5. ASSUME NEW a, All!ScopeInv(a) PROVE All!ScopeInv(a)'
  <2>1. deviceScopes \in Seq(BOOLEAN)
    BY <1>5 DEF All!ScopeInv, All!Typed
  <2>2. Len(deviceScopes) + All!Ledger(allOps[o]) <= Len(deviceScopes) + 2 + 1
    BY <1>1, <2>1 DEF All!Ledger, All!Checked
  <2>3. All!Sound /\ All!HoldsLease(allOps[o]) =>
            \/ sessions'[All!SessionOf(o)].sound
            \/ All!Seen(allOps[o].dirty, deviceScopes)
    BY <1>1 DEF All!Sound, All!OpSound, All!LeaseSound, All!SessionOf
  <2> QED
    BY <1>1, <1>2, <1>5, <2>1, <2>2, <2>3, Values, All!PopKeepsScopes
<1>6. All!ScopeInv(awaits)'
  BY <1>2, <1>5
<1> QED
  BY <1>1, <1>3, <1>4, <1>6 DEF LayerInv
-----------------------------------------------------------------------------
(* The other authority's operation.                                        *)

LEMMA OtherIsAnOperation ==
    ASSUME NEW n \in 0..3, NEW x, x = OtherState(n)
    PROVE  /\ DOMAIN x = All!OpFields /\ All!Sane(x) /\ ~All!HoldsLease(x)
           /\ All!OpTyped(x) /\ All!Ledger(x) = n
           /\ x.pc = IF n = 0 THEN "settled" ELSE "failDrain"
           /\ \A t : All!OpCache(x, t)
<1>1. /\ DOMAIN x = All!OpFields
      /\ x.pc = IF n = 0 THEN "settled" ELSE "failDrain"
      /\ x.kind = IF n = 0 THEN "none" ELSE "begin"
      /\ x.left = n /\ x.held = Authority!Stack!Unheld
      /\ x.dirty = FALSE /\ x.candidate = FALSE /\ x.key = "none"
  BY DEF OtherState, Authority!Stack!Settled, All!OpFields
<1>2. x.held.lease = 0 /\ x.held.session = NoLayerSession
  BY <1>1 DEF Authority!Stack!Unheld
<1>3. x.dirty \in BOOLEAN /\ ~x.candidate
  BY <1>1, Zenon
<1>4. All!OpTyped(x)
  BY <1>1, <1>2, <1>3 DEF All!OpTyped, All!PC, All!OpKind, All!Checked
<1>5. All!Sane(x) /\ ~All!HoldsLease(x)
  BY <1>1, <1>2 DEF All!Sane, All!HoldsLease
<1> QED
  BY <1>1, <1>4, <1>5 DEF All!Ledger, All!OpCache

LEMMA OtherMerges ==
    ASSUME DOMAIN op = Op, UNCHANGED op
    PROVE  /\ allOps' = [allOps EXCEPT ![OtherOp] = OtherState(other')]
           /\ allOps[OtherOp] = OtherState(other)
  BY OtherIsOther DEF allOps

LEMMA OtherKeepsLayers ==
    ASSUME LayerInv, other' \in 0..3, deviceScopes' \in Seq(BOOLEAN),
           UNCHANGED <<Authority!ownerVars, sessions, op, authority, awaits>>,
           \/ Len(deviceScopes') = 0
           \/ Len(deviceScopes') + other <= Len(deviceScopes) + other',
           All!ScopeInv(TRUE) /\ awaits =>
               /\ other # 0 \/ All!NothingPending
               /\ Len(deviceScopes') <= other'
    PROVE  LayerInv'
<1> DEFINE x == OtherState(other')
<1>1. /\ DOMAIN x = All!OpFields /\ All!Sane(x) /\ ~All!HoldsLease(x)
      /\ All!OpTyped(x) /\ All!Ledger(x) = other'
      /\ x.pc = IF other' = 0 THEN "settled" ELSE "failDrain"
      /\ \A t : All!OpCache(x, t)
  BY OtherIsAnOperation
<1>2. /\ ~All!HoldsLease(allOps[OtherOp]) /\ All!Ledger(allOps[OtherOp]) = other
      /\ allOps[OtherOp].pc = IF other = 0 THEN "settled" ELSE "failDrain"
  BY OtherMerges, OtherIsAnOperation DEF LayerInv
<1>3. /\ allOps' = [allOps EXCEPT ![OtherOp] = x]
      /\ OtherOp \in Op \union {OtherOp}
  BY OtherMerges DEF LayerInv
<1> HIDE DEF x
<1>4. UNCHANGED All!ownerVars /\ UNCHANGED <<stored, sessions, generation>>
  BY DEF Authority!ownerVars, All!ownerVars
<1>5. All!Inv /\ All!CacheInv /\ All!Typed /\ All!Counted
        /\ All!ScopeInv(awaits)
  BY DEF LayerInv, All!ScopeInv
<1>6. All!Inv'
  BY <1>1, <1>2, <1>3, <1>4, <1>5, Values, All!Step
<1>7. All!CacheInv'
  BY <1>1, <1>3, <1>4, <1>5, Values, All!QuietStep
<1>8. All!Typed'
  <2>1. [key |-> "none", sound |-> FALSE] \in
            [key : {} \union {"none"}, sound : BOOLEAN]
    BY Zenon
  <2>2. [key |-> "none", sound |-> FALSE] = All!NoResident
    BY DEF All!NoResident
  <2> QED
    BY <1>1, <1>3, <1>4, <1>5, <2>1, <2>2, Values, All!TypedStep
<1>9. All!Counted'
  BY <1>1, <1>2, <1>3, <1>5, Values, All!CountedStep
<1>10. ASSUME awaits PROVE All!Sound'
  <2>1. All!Sound /\ All!ScopeInv(TRUE)
    BY <1>5, <1>10 DEF All!ScopeInv
  <2>2. All!ReadyIsSound'
    BY <1>4, <2>1 DEF All!Sound, All!ReadyIsSound, All!Usable
  <2>3. All!ResidentIsSound'
    BY DEF All!ResidentIsSound, All!NoResident
  <2>4. \/ allOps[OtherOp].pc # "settled"
        \/ \A p \in Op \union {OtherOp} : allOps[p].pc = "settled"
    BY <1>2, <1>10, <2>1 DEF All!NothingPending
  <2>5. x.pc # "settled" =>
            All!OpSound(x, sessions', deviceScopes', generation', stored',
                        [key |-> "none", sound |-> FALSE])
    BY <1>1, <1>10, <2>1 DEF All!OpSound, All!BeginSound
  <2> QED
    BY <1>3, <1>5, <2>1, <2>2, <2>3, <2>4, <2>5, Values, All!SoundStep
<1>11. All!ScopeInv(awaits)'
  BY <1>8, <1>9, <1>10 DEF All!ScopeInv
<1> QED
  BY <1>6, <1>7, <1>11 DEF LayerInv

LEMMA OtherStartsKeepsLayers ==
    ASSUME LayerInv, NEW hit \in Hit, Authority!OtherStarts(hit)
    PROVE  LayerInv'
<1>1. /\ other = 0 /\ other' = 3 /\ deviceScopes' = All!Pushed(3, hit)
      /\ UNCHANGED <<Authority!ownerVars, sessions, op, authority, awaits>>
      /\ Authority!MayCall
  BY DEF Authority!OtherStarts, Authority!Stack!Checked,
     Authority!Stack!Pushed, All!Pushed
<1>2. All!Typed /\ All!Counted /\ deviceScopes \in Seq(BOOLEAN)
  BY DEF LayerInv, All!ScopeInv, All!Typed
<1>3. /\ deviceScopes' \in Seq(BOOLEAN)
      /\ Len(deviceScopes') = Len(deviceScopes) + 3
  BY <1>1, <1>2, Values, All!PushedIsStack
<1>4. awaits => All!NothingPending /\ deviceScopes = <<>>
  BY <1>1, <1>2, Values, AwaitedIsAlone, All!NothingOwed
     DEF LayerInv, All!NothingPending
<1>5. /\ Len(deviceScopes) \in Nat /\ other' \in 0..3
      /\ Len(deviceScopes') + other <= Len(deviceScopes) + other'
  BY <1>1, <1>2, <1>3
<1>6. awaits => Len(deviceScopes') <= other'
  <2>1. awaits => Len(deviceScopes) = 0
    BY <1>4
  <2> QED
    BY <1>1, <1>3, <1>5, <2>1
<1> QED
  BY <1>1, <1>3, <1>4, <1>5, <1>6, OtherKeepsLayers

LEMMA OtherPopsKeepsLayers ==
    ASSUME LayerInv, Authority!OtherPops PROVE LayerInv'
<1>1. /\ other \in 1..3 /\ other' = other - 1
      /\ deviceScopes' = IF deviceScopes = <<>> THEN deviceScopes
                         ELSE SubSeq(deviceScopes, 1, Len(deviceScopes) - 1)
      /\ UNCHANGED <<Authority!ownerVars, sessions, op, authority, awaits>>
  BY DEF Authority!OtherPops, LayerInv
<1>2. deviceScopes \in Seq(BOOLEAN)
  BY DEF LayerInv, All!ScopeInv, All!Typed
<1>3. /\ deviceScopes' \in Seq(BOOLEAN)
      /\ Len(deviceScopes') = IF deviceScopes = <<>> THEN 0
                              ELSE Len(deviceScopes) - 1
      /\ deviceScopes # <<>> => Len(deviceScopes) > 0
  <2>1. CASE deviceScopes = <<>>
    BY <1>1, <1>2, <2>1
  <2>2. CASE deviceScopes # <<>>
    <3> DEFINE n == Len(deviceScopes) - 1
    <3>1. Len(deviceScopes) \in Nat /\ Len(deviceScopes) > 0
      BY <1>2, <2>2
    <3>2. n \in Nat /\ \A i \in 1..n : deviceScopes[i] \in BOOLEAN
      BY <1>2, <3>1
    <3>3. deviceScopes' = SubSeq(deviceScopes, 1, n)
      BY <1>1, <2>2
    <3> HIDE DEF n
    <3>4. /\ SubSeq(deviceScopes, 1, n) \in Seq(BOOLEAN)
          /\ Len(SubSeq(deviceScopes, 1, n)) = n
      <4>1. 1 \in Int /\ n \in Int /\ \A i \in 1..n : deviceScopes[i] \in BOOLEAN
        BY <3>2
      <4>2. /\ SubSeq(deviceScopes, 1, n) \in Seq(BOOLEAN)
            /\ Len(SubSeq(deviceScopes, 1, n)) = IF 1 <= n THEN n - 1 + 1 ELSE 0
        BY <4>1, SubSeqProperties
      <4> QED
        BY <3>2, <4>2
    <3> QED
      BY <2>2, <3>1, <3>3, <3>4 DEF n
  <2> QED
    BY <2>1, <2>2
<1>4. All!ScopeInv(TRUE) => Len(deviceScopes) <= other
  <2>1. allOps[OtherOp] = OtherState(other) /\ OtherOp \in Op \union {OtherOp}
    BY OtherIsOther DEF allOps, LayerInv
  <2>2. /\ All!Ledger(allOps[OtherOp]) = other
        /\ allOps[OtherOp].pc # "settled"
    BY <1>1, <2>1, OtherIsAnOperation
  <2> QED
    BY <2>1, <2>2 DEF All!ScopeInv, All!Sound, All!OpSound
<1>5. Len(deviceScopes) \in Nat
  BY <1>2
<1>6. \/ Len(deviceScopes') = 0
      \/ Len(deviceScopes') + other <= Len(deviceScopes) + other'
  BY <1>1, <1>3, <1>5
<1>7. All!ScopeInv(TRUE) => Len(deviceScopes') <= other'
  BY <1>1, <1>3, <1>4, <1>5
<1>8. other' \in 0..3 /\ other # 0
  BY <1>1
<1> QED
  BY <1>1, <1>3, <1>6, <1>7, <1>8, OtherKeepsLayers
-----------------------------------------------------------------------------
LEMMA LayerStepsKeepLayers ==
    ASSUME LayerInv, NEW o \in Op, Authority!Calls(o) \/ Authority!Runs(o),
           UNCHANGED <<authority, awaits, other>>
    PROVE  LayerInv'
<1>1. DOMAIN op = Op
  BY DEF LayerInv
<1>2. CASE Authority!Calls(o)
  <2>1. /\ Authority!MayCall
        /\ \/ \E d \in Authority!Descriptors :
                  Authority!Stack!CallBegin(o, d, "none")
           \/ Authority!Stack!CallStep(o) \/ Authority!Stack!CallFinish(o)
           \/ Authority!Stack!RejectedCall(o)
    BY <1>2 DEF Authority!Calls, Authority!KvBegin, Authority!LayerBegin,
       Authority!FullBegin, Authority!KvBeginWithOverride,
       Authority!LayerBeginWithOverride, Authority!FullBeginWithOverride,
       Authority!KvStep, Authority!LayerStep, Authority!FullStep,
       Authority!Finish
  <2>2. /\ DOMAIN op' = Op
        /\ \/ \E d \in Authority!Descriptors : All!CallBegin(o, d, "none")
           \/ All!CallStep(o) \/ All!CallFinish(o) \/ All!RejectedCall(o)
    BY <1>1, <2>1, BeginsAreSteps, UsesAreSteps, RejectionsAreSteps
  <2> QED
    BY <2>1, <2>2, CallsKeepLayers
<1>3. CASE Authority!Runs(o)
  <2>1. ASSUME \/ \E n \in 0..3, hit \in Hit :
                      \/ Authority!Stack!RunBeginFails(o, n, hit)
                      \/ Authority!Stack!RunFails(o, n, hit)
               \/ \E s \in LayerSession, hit \in Hit :
                      Authority!Stack!RunBeginStores(o, s, hit)
               \/ \E hit \in Hit : Authority!Stack!RunEncodes(o, hit)
               \/ Authority!Stack!BeginPop(o) \/ Authority!Stack!GpuFails(o)
               \/ Authority!Stack!FinishReadsValues(o)
               \/ Authority!Stack!StaleDrain(o) \/ Authority!Stack!DrainPop(o)
               \/ Authority!Stack!GpuReads(o)
               \/ Authority!Stack!GpuStale(o)
               \/ Authority!Stack!FinishReadsKeys(o)
               \/ Authority!Stack!BeginUnsupported(o)
               \/ Authority!Stack!BeginStale(o)
               \/ Authority!Stack!BeginPoisons(o)
               \/ Authority!Stack!BeginReady(o)
               \/ Authority!Stack!BeginFailed(o)
               \/ Authority!Stack!Failed(o) \/ Authority!Stack!StaleDone(o)
               \/ Authority!Stack!Captured(o) \/ Authority!Stack!Done(o)
        PROVE  LayerInv'
    <3>1. UNCHANGED other
      OBVIOUS
    <3>2. All!Runs(o) /\ DOMAIN op' = Op
      <4>1. ASSUME NEW n \in 0..3, NEW hit \in Hit,
                   \/ Authority!Stack!RunBeginFails(o, n, hit)
                   \/ Authority!Stack!RunFails(o, n, hit)
            PROVE  All!Runs(o) /\ DOMAIN op' = Op
        BY <1>1, <3>1, <4>1, FailuresAreSteps DEF All!Runs, All!Checked
      <4>2. ASSUME NEW s \in LayerSession, NEW hit \in Hit,
                   Authority!Stack!RunBeginStores(o, s, hit)
            PROVE  All!Runs(o) /\ DOMAIN op' = Op
        BY <1>1, <3>1, <4>2, StoresIsStep DEF All!Runs
      <4>3. ASSUME NEW hit \in Hit, Authority!Stack!RunEncodes(o, hit)
            PROVE  All!Runs(o) /\ DOMAIN op' = Op
        BY <1>1, <3>1, <4>3, EncodesIsStep DEF All!Runs
      <4> QED
        BY <1>1, <2>1, <3>1, <4>1, <4>2, <4>3, PopStepsAreSteps,
           GpuReadsIsStep, MovesAreSteps, BeginEndsAreSteps, SettlesAreSteps
        DEF All!Runs
    <3> QED
      BY <3>2, RunsKeepLayers
  <2>2. CASE Authority!RunBegin(o)
    BY <2>1, <2>2 DEF Authority!RunBegin
  <2>3. CASE Authority!Encodes(o) \/ Authority!Undone(o)
    BY <2>1, <2>3 DEF Authority!Encodes, Authority!Undone
  <2>4. CASE Authority!RunStep(o)
    BY <2>1, <2>3, <2>4 DEF Authority!RunStep
  <2>5. CASE Authority!RunFinish(o)
    BY <2>1, <2>3, <2>5 DEF Authority!RunFinish
  <2>6. CASE Authority!KvRunFinish(o)
    BY <2>1, <2>3, <2>6, PlanesKeepLayers DEF Authority!KvRunFinish
  <2> QED
    BY <1>3, <2>2, <2>4, <2>5, <2>6
    DEF Authority!Runs, Authority!LayerRunFinish, Authority!FullRunFinish
<1> QED
  BY <1>2, <1>3

LEMMA InitLayers == Authority!Init => LayerInv
<1> SUFFICES ASSUME Authority!Init PROVE LayerInv
  OBVIOUS
<1>1. /\ Authority!Stack!Init /\ other = 0 /\ authority \in Authority!Kind
      /\ awaits \in BOOLEAN /\ other \in 0..3
  BY DEF Authority!Init
<1>2. op = [o \in Op |-> Authority!Stack!Settled] /\ DOMAIN op = Op
  BY <1>1 DEF Authority!Stack!Init
<1>3. allOps = [o \in Op \union {OtherOp} |-> All!Settled]
  BY <1>1, <1>2, SettledSame DEF allOps, OtherState
<1>4. All!Owner!Init
  BY <1>1 DEF Authority!Stack!Init, Authority!Stack!Owner!Init, All!Owner!Init,
     Authority!Stack!Owner!None, All!Owner!None
<1>5. All!Init
  BY <1>1, <1>3, <1>4, DroppedSame
  DEF Authority!Stack!Init, All!Init, All!NoResident
<1>6. All!Inv /\ All!CacheInv
  BY <1>5, Values, All!InitInv, All!InitCache
<1>7. \A a : All!ScopeInv(a)
  BY <1>5, Values, All!InitScopes
<1> QED
  BY <1>1, <1>2, <1>6, <1>7 DEF LayerInv

LEMMA NextLayers == LayerInv /\ [Authority!Next]_authorityVars => LayerInv'
<1> SUFFICES ASSUME LayerInv, [Authority!Next]_authorityVars PROVE LayerInv'
  OBVIOUS
<1>1. CASE UNCHANGED authorityVars
  BY <1>1, IdleKeepsLayers
<1>2. CASE Authority!Next
  BY <1>2, LayerStepsKeepLayers, AbortKeepsLayers, OtherStartsKeepsLayers,
     OtherPopsKeepsLayers DEF Authority!Next
<1> QED
  BY <1>1, <1>2

LEMMA LayersRun ==
    SpecComponents => Authority!Init /\ [][Authority!Next]_authorityVars
<1>1. InitComponents => Authority!Init
  BY DEF InitComponents
<1>2. [NextComponents]_allVars => [Authority!Next]_authorityVars
  <2>1. UNCHANGED allVars => UNCHANGED authorityVars
    BY DEF allVars
  <2>2. NextComponents => Authority!Next \/ UNCHANGED authorityVars
    <3> SUFFICES ASSUME NextComponents
                 PROVE  Authority!Next \/ UNCHANGED authorityVars
      OBVIOUS
    <3>1. CASE component = "layer session"
      BY <3>1 DEF NextComponents
    <3>2. CASE component # "layer session"
      BY <3>2 DEF NextComponents
    <3> QED
      BY <3>1, <3>2
  <2> QED
    BY <2>1, <2>2
<1> QED
  BY <1>1, <1>2, PTL DEF SpecComponents

LEMMA LayersAreSound == LayerInv => Authority!TypeOK /\ LayerSessionsAreSound
<1> SUFFICES ASSUME LayerInv PROVE Authority!TypeOK /\ LayerSessionsAreSound
  OBVIOUS
<1>1. /\ DOMAIN op = Op /\ other \in 0..3 /\ authority \in Authority!Kind
      /\ awaits \in BOOLEAN /\ All!Inv /\ All!CacheInv
      /\ All!ScopeInv(awaits) /\ All!Typed /\ All!Counted
      /\ awaits => All!Sound
  BY DEF LayerInv, All!ScopeInv
<1>2. \A o \in Op : allOps[o] = op[o]
  BY Same
<1>3. allOps[OtherOp] = OtherState(other)
  BY DEF allOps
<1>4. Authority!ScopesAreDrained
  <2> SUFFICES ASSUME other = 0, \A o \in Op : op[o].pc = "settled"
               PROVE  deviceScopes = <<>>
    BY DEF Authority!ScopesAreDrained
  <2>1. \A o \in Op \union {OtherOp} : allOps[o].pc = "settled"
    BY <1>2, <1>3 DEF OtherState, Authority!Stack!Settled
  <2> QED
    BY <1>1, <2>1, Values, All!NothingOwed
<1>5. Authority!AwaitedSessionIsSound
  <2>1. All!TokensMatchRows
    BY <1>1 DEF All!CacheInv, All!StoredCache, All!AtRest,
       All!TokensMatchRows, All!Usable
  <2>2. Authority!Stack!TokensMatchRows
    BY <2>1 DEF All!TokensMatchRows, All!Usable,
       Authority!Stack!TokensMatchRows, Authority!Stack!Usable
  <2>3. awaits => Authority!Stack!ReadyIsSound
    BY <1>1 DEF All!Sound, All!ReadyIsSound, All!Usable,
       Authority!Stack!ReadyIsSound, Authority!Stack!Usable
  <2> QED
    BY <2>2, <2>3 DEF Authority!AwaitedSessionIsSound
<1>6. Authority!LeasesArePending
  <2> SUFFICES ASSUME NEW c \in callers PROVE \E o \in Op : c = op[o].held
    BY DEF Authority!LeasesArePending, Authority!Stack!LeasesArePending
  <2>1. PICK o \in Op \union {OtherOp} : c = allOps[o].held
    BY <1>1 DEF All!Inv, All!LeasesArePending
  <2>2. c.lease # 0
    BY <1>1, Values, All!OwnerFacts DEF All!Inv
  <2>3. OtherState(other).held.lease = 0
    BY <1>1, OtherIsAnOperation DEF All!Sane
  <2> QED
    BY <1>2, <1>3, <2>1, <2>2, <2>3
<1>7. Authority!TypeOK
  <2>1. All!TypeOK
    BY <1>1, Values, All!TypedIsTypeOK
  <2>2. Authority!Stack!TypeOK
    BY <1>2, <2>1 DEF All!TypeOK, Authority!Stack!TypeOK,
       All!Owner!TypeOK, Authority!Stack!Owner!TypeOK, All!Owner!Id,
       Authority!Stack!Owner!Id, All!Owner!Caller, Authority!Stack!Owner!Caller,
       All!NoPlan, Authority!Stack!NoPlan, All!PC, Authority!Stack!PC,
       All!OpKind, Authority!Stack!OpKind, All!Checked,
       Authority!Stack!Checked, All!SessionOf, Authority!Stack!SessionOf
  <2> QED
    BY <1>1, <2>2 DEF Authority!TypeOK
<1> QED
  BY <1>4, <1>5, <1>6, <1>7
  DEF LayerSessionsAreSound, Authority!LayerSessionsAreSound

(* Whatever the key-value, layer and full-layer sessions do, with any      *)
(* number of promises pending and the other authority pushing and popping  *)
(* on the same stack: once nothing is pending no scope is left, a client   *)
(* that awaits is offered no session with a GPU error or with a wrong      *)
(* count of rows, and no settled promise leaves the authority busy.        *)
THEOREM LayerSessionsShareScopes ==
    SpecComponents => [](Authority!TypeOK /\ LayerSessionsAreSound)
  BY InitLayers, NextLayers, LayersRun, LayersAreSound, PTL
-----------------------------------------------------------------------------
(* The vision session.                                                     *)

Vision == INSTANCE VisionStackProofs WITH Layers <- StackLayers

LEMMA VisionInits == VisionSession!Init => Vision!Init
  BY DEF VisionSession!Init, Vision!Init, VisionSession!NewRuntime,
     Vision!NewRuntime, VisionSession!NoSession, Vision!NoSession,
     VisionSession!NoOp, Vision!NoOp, VisionSession!Prepared, Vision!Prepared,
     VisionSession!NoEntry, Vision!NoEntry

LEMMA DrainsAreSteps ==
    ASSUME NEW r, NEW s, NEW n, NEW stack, NEW errors,
           VisionSession!Drain(r, s, n, stack, errors)
    PROVE  Vision!Drain(r, s, n, stack, errors)
  BY DEF VisionSession!Drain, Vision!Drain, VisionSession!Settle, Vision!Settle,
     VisionSession!Completed, Vision!Completed, VisionSession!Emptied,
     Vision!Emptied, VisionSession!NoSession, Vision!NoSession,
     VisionSession!DroppedAuthority, Vision!DroppedAuthority,
     VisionSession!NoOp, Vision!NoOp, VisionSession!IsPreparedFor,
     Vision!IsPreparedFor, VisionSession!TakesPostNorm, Vision!TakesPostNorm

LEMMA VisionCallsAreSteps ==
    ASSUME NEW r \in Runtime, VisionSession!Call(r) PROVE Vision!Call(r)
<1>1. VisionSession!Begin(r) => Vision!Begin(r)
  BY DEF VisionSession!Begin, Vision!Begin, VisionSession!AdmitsBegin,
     Vision!AdmitsBegin, VisionSession!ScopesAdmit, Vision!ScopesAdmit,
     VisionSession!Begun, Vision!Begun, VisionSession!NoSession,
     Vision!NoSession
<1>2. ASSUME NEW k \in Key, VisionSession!BeginResident(r, k)
      PROVE  Vision!BeginResident(r, k)
  BY <1>2 DEF VisionSession!BeginResident, Vision!BeginResident,
     VisionSession!AfterPrepare, Vision!AfterPrepare, VisionSession!Prepared,
     Vision!Prepared, VisionSession!NoEntry, Vision!NoEntry,
     VisionSession!IsReadyFor, Vision!IsReadyFor, VisionSession!AdmitsBegin,
     Vision!AdmitsBegin, VisionSession!ScopesAdmit, Vision!ScopesAdmit,
     VisionSession!Begun, Vision!Begun, VisionSession!NoSession,
     Vision!NoSession
<1>3. VisionSession!Preflight(r) => Vision!Preflight(r)
  BY DEF VisionSession!Preflight, Vision!Preflight, VisionSession!Shards,
     Vision!Shards
<1>4. VisionSession!Abort(r) => Vision!Abort(r)
  BY DEF VisionSession!Abort, Vision!Abort, VisionSession!Emptied,
     Vision!Emptied, VisionSession!NoSession, Vision!NoSession
<1>5. ASSUME NEW hit \in Hit, NEW failed \in BOOLEAN,
             VisionSession!EnqueuePlain(r, hit, failed)
      PROVE  Vision!EnqueuePlain(r, hit, failed)
  BY <1>5 DEF VisionSession!EnqueuePlain, Vision!EnqueuePlain,
     VisionSession!IsLayer, Vision!IsLayer, VisionSession!Shards,
     Vision!Shards, VisionSession!Enqueued, Vision!Enqueued,
     VisionSession!Emptied, Vision!Emptied, VisionSession!NoSession,
     Vision!NoSession, VisionSession!Stepped, Vision!Stepped,
     VisionSession!Raised, Vision!Raised, VisionSession!Max, Vision!Max
<1>6. ASSUME NEW hit \in Hit, NEW failed \in BOOLEAN,
             VisionSession!EnqueueCold(r, hit, failed)
      PROVE  Vision!EnqueueCold(r, hit, failed)
  BY <1>6 DEF VisionSession!EnqueueCold, Vision!EnqueueCold,
     VisionSession!TakesLayer, Vision!TakesLayer, VisionSession!LayerOf,
     Vision!LayerOf, VisionSession!IsPreparedFor, Vision!IsPreparedFor,
     VisionSession!IsLayer, Vision!IsLayer, VisionSession!Shards,
     Vision!Shards, VisionSession!Enqueued, Vision!Enqueued,
     VisionSession!Emptied, Vision!Emptied, VisionSession!NoSession,
     Vision!NoSession, VisionSession!Stepped, Vision!Stepped,
     VisionSession!Raised, Vision!Raised, VisionSession!Max, Vision!Max
<1>7. ASSUME NEW hit \in Hit, NEW failed \in BOOLEAN,
             VisionSession!EnqueueResident(r, hit, failed)
      PROVE  Vision!EnqueueResident(r, hit, failed)
  BY <1>7 DEF VisionSession!EnqueueResident, Vision!EnqueueResident,
     VisionSession!LayerOf, Vision!LayerOf, VisionSession!IsReadyFor,
     Vision!IsReadyFor, VisionSession!IsLayer, Vision!IsLayer,
     VisionSession!Shards, Vision!Shards, VisionSession!Enqueued,
     Vision!Enqueued, VisionSession!Emptied, Vision!Emptied,
     VisionSession!NoSession, Vision!NoSession, VisionSession!Stepped,
     Vision!Stepped, VisionSession!Raised, Vision!Raised, VisionSession!Max,
     Vision!Max
<1>8. ASSUME NEW kind1 \in VisionSession!Kind \ {"none"},
             NEW n \in 1..VisionSession!Checked,
             VisionSession!RunUnpushed(r, kind1, n)
      PROVE  Vision!RunUnpushed(r, kind1, n)
  BY <1>8, DrainsAreSteps DEF VisionSession!RunUnpushed, Vision!RunUnpushed,
     VisionSession!Takes, Vision!Takes, VisionSession!Admits, Vision!Admits,
     VisionSession!ScopesAdmit, Vision!ScopesAdmit, VisionSession!Stored,
     Vision!Stored, VisionSession!InputPos, Vision!InputPos,
     VisionSession!PostPos, Vision!PostPos, VisionSession!IsLayer,
     Vision!IsLayer, VisionSession!Shards, Vision!Shards,
     VisionSession!IsReadyFor, Vision!IsReadyFor, VisionSession!Running,
     Vision!Running, VisionSession!NoOp, Vision!NoOp, VisionSession!Pushed,
     Vision!Pushed, VisionSession!Checked, Vision!Checked
<1>9. ASSUME NEW kind1 \in VisionSession!Kind \ {"none"}, NEW hit \in Hit,
             NEW failed \in BOOLEAN,
             VisionSession!RunAtOnce(r, kind1, hit, failed)
      PROVE  Vision!RunAtOnce(r, kind1, hit, failed)
  BY <1>9, DrainsAreSteps DEF VisionSession!RunAtOnce, Vision!RunAtOnce,
     VisionSession!Takes, Vision!Takes, VisionSession!Admits, Vision!Admits,
     VisionSession!ScopesAdmit, Vision!ScopesAdmit, VisionSession!Stored,
     Vision!Stored, VisionSession!InputPos, Vision!InputPos,
     VisionSession!PostPos, Vision!PostPos, VisionSession!IsLayer,
     Vision!IsLayer, VisionSession!Shards, Vision!Shards,
     VisionSession!IsReadyFor, Vision!IsReadyFor, VisionSession!Running,
     Vision!Running, VisionSession!NoOp, Vision!NoOp, VisionSession!Pushed,
     Vision!Pushed, VisionSession!Checked, Vision!Checked
<1>10. ASSUME NEW kind1 \in VisionSession!Kind \ {"none"}, NEW hit \in Hit,
              VisionSession!Run(r, kind1, hit)
       PROVE  Vision!Run(r, kind1, hit)
  BY <1>10 DEF VisionSession!Run, Vision!Run, VisionSession!Takes, Vision!Takes,
     VisionSession!Admits, Vision!Admits, VisionSession!ScopesAdmit,
     Vision!ScopesAdmit, VisionSession!Stored, Vision!Stored,
     VisionSession!InputPos, Vision!InputPos, VisionSession!PostPos,
     Vision!PostPos, VisionSession!IsLayer, Vision!IsLayer,
     VisionSession!Shards, Vision!Shards, VisionSession!IsReadyFor,
     Vision!IsReadyFor, VisionSession!Running, Vision!Running,
     VisionSession!NoOp, Vision!NoOp, VisionSession!Pushed, Vision!Pushed,
     VisionSession!Checked, Vision!Checked
<1>11. /\ VisionSession!Kind = Vision!Kind
       /\ VisionSession!Checked = Vision!Checked
  BY DEF VisionSession!Kind, Vision!Kind, VisionSession!Checked, Vision!Checked
<1> QED
  BY <1>1, <1>2, <1>3, <1>4, <1>5, <1>6, <1>7, <1>8, <1>9, <1>10, <1>11
  DEF VisionSession!Call, Vision!Call

LEMMA VisionReturnsAreSteps ==
    ASSUME NEW r \in Runtime, VisionSession!Returns(r) PROVE Vision!Returns(r)
<1>1. ASSUME NEW failed \in BOOLEAN, VisionSession!GpuReturns(r, failed)
      PROVE  Vision!GpuReturns(r, failed)
  BY <1>1, DrainsAreSteps
  DEF VisionSession!GpuReturns, Vision!GpuReturns, VisionSession!Checked,
      Vision!Checked
<1>2. VisionSession!Popped(r) => Vision!Popped(r)
  BY DrainsAreSteps DEF VisionSession!Popped, Vision!Popped
<1> QED
  BY <1>1, <1>2 DEF VisionSession!Returns, Vision!Returns

LEMMA VisionSteps == VisionSession!Next => Vision!Next
<1>1. VisionSession!Deliver => Vision!Deliver
  BY DEF VisionSession!Deliver, Vision!Deliver
<1> QED
  BY <1>1, VisionCallsAreSteps, VisionReturnsAreSteps
  DEF VisionSession!Next, Vision!Next

LEMMA VisionRuns == SpecComponents => Vision!Init /\ [][Vision!Next]_sessionVars
<1>1. InitComponents => Vision!Init
  BY VisionInits DEF InitComponents
<1>2. [NextComponents]_allVars => [Vision!Next]_sessionVars
  <2>1. UNCHANGED allVars => UNCHANGED sessionVars
    BY DEF allVars
  <2>2. NextComponents => VisionSession!Next \/ UNCHANGED sessionVars
    <3> SUFFICES ASSUME NextComponents
                 PROVE  VisionSession!Next \/ UNCHANGED sessionVars
      OBVIOUS
    <3>1. CASE component = "vision session"
      BY <3>1 DEF NextComponents
    <3>2. CASE component # "vision session"
      BY <3>2 DEF NextComponents
    <3> QED
      BY <3>1, <3>2
  <2> QED
    BY <2>1, <2>2, VisionSteps
<1> QED
  BY <1>1, <1>2, PTL DEF SpecComponents

LEMMA VisionIsTyped ==
    ASSUME Vision!Inv PROVE VisionSession!TypeOK
<1>1. Vision!TypeOK
  BY VisionSessionValues, Vision!TypedByInv
<1> QED
  BY <1>1 DEF VisionSession!TypeOK, Vision!TypeOK, VisionSession!Mode,
     Vision!Mode, VisionSession!Shards, Vision!Shards, VisionSession!Kind,
     Vision!Kind, VisionSession!Checked, Vision!Checked

(* The types of the state of each component that no other run checks.      *)
THEOREM ComponentsAreTyped ==
    ASSUME NoThread \notin Thread, NoDevice \notin DeviceUser
    PROVE  SpecComponents => []TypeOK
<1>1. Vision!Init => Vision!Inv
  BY VisionSessionValues, Vision!InitInv
<1>2. Vision!Inv /\ [Vision!Next]_sessionVars => Vision!Inv'
  BY VisionSessionValues, Vision!NextInv DEF sessionVars, Vision!vars
<1>3. /\ VisionSession!TypeOK /\ Authority!TypeOK /\ Device!TypeOK
      /\ Assets!TypeOK /\ Cohort!TypeOK /\ Native!TypeOK
      => TypeOK
  BY DEF TypeOK
<1> QED
  BY <1>1, <1>2, <1>3, VisionRuns, VisionIsTyped, LayerSessionsShareScopes,
     DeviceIsShared, EntriesAreShared, JournalsAlwaysAssemble,
     NativeCallsAreOwn, PTL
-----------------------------------------------------------------------------
(* What the programs bind: in every submission of a decoder session, of    *)
(* the vision encoder and of the projector, a dispatch binds no cell twice *)
(* that it may write.  First, sequences of commands that may all be made.  *)

(* Every command of a sequence is admissible. *)
AllAdmissible(s) == \E S : s \in Seq(S) /\ \A c \in S : Admissible(c)

LEMMA IsAllAdmissible ==
    ASSUME NEW S, NEW s \in Seq(S), \A c \in S : Admissible(c)
    PROVE  AllAdmissible(s)
BY Zenon DEF AllAdmissible

LEMMA EachAdmissible ==
    ASSUME NEW s, AllAdmissible(s)
    PROVE  \A i \in DOMAIN s : Admissible(s[i])
BY DEF AllAdmissible

LEMMA NoneAdmissible == AllAdmissible(<<>>)
<1> DEFINE S == {}
<1>1. <<>> \in Seq(S) /\ \A c \in S : Admissible(c)
  OBVIOUS
<1> HIDE DEF S
<1> QED
  BY <1>1, Zenon DEF AllAdmissible

LEMMA OneAdmissible ==
    ASSUME NEW a, Admissible(a) PROVE AllAdmissible(<<a>>)
<1> DEFINE S == {a}
<1>1. <<a>> \in Seq(S) /\ \A c \in S : Admissible(c)
  OBVIOUS
<1> HIDE DEF S
<1> QED
  BY <1>1, Zenon DEF AllAdmissible

LEMMA JoinedAdmissible ==
    ASSUME NEW s, NEW t, AllAdmissible(s), AllAdmissible(t)
    PROVE  AllAdmissible(s \o t)
<1>1. PICK S : s \in Seq(S) /\ \A c \in S : Admissible(c)
  BY Zenon DEF AllAdmissible
<1>2. PICK T : t \in Seq(T) /\ \A c \in T : Admissible(c)
  BY Zenon DEF AllAdmissible
<1> DEFINE U == S \union T
<1>3. s \in Seq(U) /\ t \in Seq(U)
  BY <1>1, <1>2
<1>4. \A c \in U : Admissible(c)
  BY <1>1, <1>2
<1> HIDE DEF U
<1>5. s \o t \in Seq(U)
  BY <1>3
<1> QED
  BY <1>4, <1>5, Zenon DEF AllAdmissible

GT == INSTANCE DispatchProofs

(* The recursive function of FlattenSeq on the first n sequences.          *)
IsFlat(g, seqs, n) ==
    g = [i \in 1..n |-> IF i = 1 THEN seqs[i] ELSE g[i - 1] \o seqs[i]]

LEMMA FlatExists ==
    ASSUME NEW seqs, NEW n \in Nat
    PROVE  \E g : IsFlat(g, seqs, n)
<1> DEFINE S == {k \in Nat : \E g : IsFlat(g, seqs, k)}
<1>1. 0 \in S
  <2>1. IsFlat([i \in 1..0 |-> 0], seqs, 0)
    BY DEF IsFlat
  <2> QED
    BY <2>1
<1>2. ASSUME NEW k \in Nat, k \in S PROVE k + 1 \in S
  <2>1. PICK g : IsFlat(g, seqs, k)
    BY <1>2
  <2> DEFINE h == [i \in 1..(k + 1) |->
                     IF i = 1 THEN seqs[i] ELSE g[i - 1] \o seqs[i]]
  <2>2. ASSUME NEW i \in 1..k PROVE h[i] = g[i]
    <3>1. g[i] = IF i = 1 THEN seqs[i] ELSE g[i - 1] \o seqs[i]
      BY <2>1, Zenon DEF IsFlat
    <3>2. i \in 1..(k + 1)
      OBVIOUS
    <3> QED
      BY <3>1, <3>2
  <2>3. ASSUME NEW i \in 1..(k + 1)
        PROVE  h[i] = IF i = 1 THEN seqs[i] ELSE h[i - 1] \o seqs[i]
    <3>1. CASE i = 1
      BY <3>1
    <3>2. CASE i # 1
      <4>1. i - 1 \in 1..k
        BY <3>2
      <4>2. h[i - 1] = g[i - 1]
        BY <2>2, <4>1
      <4> QED
        BY <3>2, <4>2
    <3> QED
      BY <3>1, <3>2
  <2>4. IsFlat(h, seqs, k + 1)
    BY <2>3 DEF IsFlat
  <2> QED
    BY <2>4
<1> HIDE DEF S
<1>3. Nat \subseteq S
  BY <1>1, <1>2, GT!Induct
<1> QED
  BY <1>3 DEF S

LEMMA FlatAdmissible ==
    ASSUME NEW n \in Nat \ {0}, NEW seqs, Len(seqs) = n,
           \A i \in 1..n : AllAdmissible(seqs[i])
    PROVE  AllAdmissible(Decoder!FlattenSeq(seqs))
<1>1. PICK g : IsFlat(g, seqs, n) /\ Decoder!FlattenSeq(seqs) = g[n]
  BY FlatExists DEF Decoder!FlattenSeq, IsFlat
<1>0. \A i \in 1..n : g[i] = IF i = 1 THEN seqs[i] ELSE g[i - 1] \o seqs[i]
  BY <1>1, Zenon DEF IsFlat
<1> DEFINE S == {k \in Nat : k \in 1..n => AllAdmissible(g[k])}
<1>2. 0 \in S
  OBVIOUS
<1>3. ASSUME NEW k \in Nat, k \in S PROVE k + 1 \in S
  <2> SUFFICES ASSUME k + 1 \in 1..n PROVE AllAdmissible(g[k + 1])
    OBVIOUS
  <2>1. AllAdmissible(seqs[k + 1])
    OBVIOUS
  <2>2. CASE k = 0
    <3>1. g[k + 1] = seqs[k + 1]
      BY <1>0, <2>2
    <3> QED
      BY <2>1, <3>1
  <2>3. CASE k # 0
    <3>1. g[k + 1] = g[k] \o seqs[k + 1]
      <4>1. k + 1 # 1 /\ (k + 1) - 1 = k
        BY <2>3
      <4> QED
        BY <1>0, <4>1
    <3>2. AllAdmissible(g[k])
      BY <1>3, <2>3
    <3> QED
      BY <2>1, <3>1, <3>2, JoinedAdmissible
  <2> QED
    BY <2>2, <2>3
<1> HIDE DEF S
<1>4. n \in S
  BY <1>2, <1>3, GT!Induct
<1> QED
  BY <1>1, <1>4 DEF S

LEMMA WrittenIs ==
    /\ \A k \in {"gelu", "gelu_erf", "top1", "copy"} : Written(k) = {2}
    /\ \A k \in {"gemv", "rms_norm", "residual", "swiglu", "merge_2x2"} : Written(k) = {3}
    /\ \A k \in {"layer_norm", "projection", "gqa", "prefill_gqa",
                 "split_partial", "split_merge"} : Written(k) = {4}
    /\ Written("attention") = {5}
    /\ Written("qkv_fused") = {8}
    /\ \A k \in {"mrope", "prefill_mrope"} : Written(k) = {5, 6}
    /\ \A k \in {"kv_append", "kv_append_range"} : Written(k) = {3, 4}
    /\ Written("rope_2d") = {1, 2}
BY DEF Written

(* A dispatch is admissible if what it writes is bound to buffers it binds *)
(* nowhere else.                                                           *)
LEMMA ElsewhereAdmissible ==
    ASSUME NEW c, c.access = "declared",
           \A i \in Written(c.kernel), j \in DOMAIN c.bind :
               i # j => c.bind[i].buffer # c.bind[j].buffer
    PROVE  Admissible(c)
BY DEF Admissible

LEMMA TwoBound ==
    ASSUME NEW a, NEW b, NEW u, NEW k \in {"gelu", "gelu_erf", "top1", "copy"},
           a.buffer # b.buffer
    PROVE  Admissible(Command(k, <<a, b>>, u))
BY WrittenIs, ElsewhereAdmissible DEF Command

LEMMA ThreeBound ==
    ASSUME NEW a, NEW b, NEW c, NEW u,
           NEW k \in {"gemv", "rms_norm", "residual", "swiglu", "merge_2x2"},
           a.buffer # c.buffer, b.buffer # c.buffer
    PROVE  Admissible(Command(k, <<a, b, c>>, u))
BY WrittenIs, ElsewhereAdmissible DEF Command

LEMMA FourBound ==
    ASSUME NEW a, NEW b, NEW c, NEW d, NEW u,
           NEW k \in {"layer_norm", "projection", "gqa", "prefill_gqa",
                      "split_partial", "split_merge"},
           a.buffer # d.buffer, b.buffer # d.buffer, c.buffer # d.buffer
    PROVE  Admissible(Command(k, <<a, b, c, d>>, u))
BY WrittenIs, ElsewhereAdmissible DEF Command

LEMMA FourBoundTwoWritten ==
    ASSUME NEW a, NEW b, NEW c, NEW d, NEW u,
           NEW k \in {"kv_append", "kv_append_range"},
           a.buffer # c.buffer, b.buffer # c.buffer, a.buffer # d.buffer,
           b.buffer # d.buffer, c.buffer # d.buffer
    PROVE  Admissible(Command(k, <<a, b, c, d>>, u))
BY WrittenIs, ElsewhereAdmissible DEF Command

LEMMA SixBound ==
    ASSUME NEW a, NEW b, NEW c, NEW d, NEW e, NEW f, NEW u,
           NEW k \in {"mrope", "prefill_mrope"},
           e.buffer \notin {a.buffer, b.buffer, c.buffer, d.buffer, f.buffer},
           f.buffer \notin {a.buffer, b.buffer, c.buffer, d.buffer}
    PROVE  Admissible(Command(k, <<a, b, c, d, e, f>>, u))
BY WrittenIs, ElsewhereAdmissible DEF Command
-----------------------------------------------------------------------------
(* The programs of the decoder.                                            *)

LEMMA TwoAdmissible ==
    ASSUME NEW a, NEW b, Admissible(a), Admissible(b)
    PROVE  AllAdmissible(<<a, b>>)
<1> DEFINE S == {a, b}
<1>1. <<a, b>> \in Seq(S) /\ \A x \in S : Admissible(x)
  OBVIOUS
<1> HIDE DEF S
<1> QED
  BY <1>1, Zenon DEF AllAdmissible

LEMMA ThreeAdmissible ==
    ASSUME NEW a, NEW b, NEW c, Admissible(a), Admissible(b), Admissible(c)
    PROVE  AllAdmissible(<<a, b, c>>)
<1> DEFINE S == {a, b, c}
<1>1. <<a, b, c>> \in Seq(S) /\ \A x \in S : Admissible(x)
  OBVIOUS
<1> HIDE DEF S
<1> QED
  BY <1>1, Zenon DEF AllAdmissible

LEMMA FiveAdmissible ==
    ASSUME NEW a, NEW b, NEW c, NEW d, NEW e, Admissible(a), Admissible(b),
           Admissible(c), Admissible(d), Admissible(e)
    PROVE  AllAdmissible(<<a, b, c, d, e>>)
<1> DEFINE S == {a, b, c, d, e}
<1>1. <<a, b, c, d, e>> \in Seq(S) /\ \A x \in S : Admissible(x)
  OBVIOUS
<1> HIDE DEF S
<1> QED
  BY <1>1, Zenon DEF AllAdmissible

LEMMA SixAdmissible ==
    ASSUME NEW a, NEW b, NEW c, NEW d, NEW e, NEW f, Admissible(a),
           Admissible(b), Admissible(c), Admissible(d), Admissible(e),
           Admissible(f)
    PROVE  AllAdmissible(<<a, b, c, d, e, f>>)
<1> DEFINE S == {a, b, c, d, e, f}
<1>1. <<a, b, c, d, e, f>> \in Seq(S) /\ \A x \in S : Admissible(x)
  OBVIOUS
<1> HIDE DEF S
<1> QED
  BY <1>1, Zenon DEF AllAdmissible

LEMMA NineAdmissible ==
    ASSUME NEW a, NEW b, NEW c, NEW d, NEW e, NEW f, NEW g, NEW h, NEW i,
           Admissible(a), Admissible(b), Admissible(c), Admissible(d),
           Admissible(e), Admissible(f), Admissible(g), Admissible(h),
           Admissible(i)
    PROVE  AllAdmissible(<<a, b, c, d, e, f, g, h, i>>)
<1> DEFINE S == {a, b, c, d, e, f, g, h, i}
<1>1. <<a, b, c, d, e, f, g, h, i>> \in Seq(S) /\ \A x \in S : Admissible(x)
  OBVIOUS
<1> HIDE DEF S
<1> QED
  BY <1>1, Zenon DEF AllAdmissible

LEMMA DecoderCommands ==
    /\ \A k, bind, u : Decoder!Command(k, bind, u) = Command(k, bind, u)
    /\ \A b : Decoder!One(b).buffer = b
    /\ \A b, l : Decoder!Of(b, l).buffer = b
    /\ \A b, l : Decoder!Plane(b, l).buffer = b
    /\ \A b : Decoder!Prompt(b).buffer = b
    /\ \A b, i, n : Decoder!Slice(b, i, n).buffer = b
BY DEF Decoder!Command, Command, Decoder!One, Decoder!Of, Decoder!Plane,
   Decoder!Prompt, Decoder!Slice

LEMMA AppendsAreAdmissible ==
    ASSUME NEW q, NEW k, NEW v, NEW u, NEW w,
           q.buffer # "attention_output",
           k.buffer \notin {"key_cache", "value_cache"},
           v.buffer \notin {"key_cache", "value_cache"}
    PROVE  AllAdmissible(Decoder!AppendAndAttend(q, k, v, u, w))
BY DecoderCommands, FourBound, FourBoundTwoWritten, TwoAdmissible
DEF Decoder!AppendAndAttend

LEMMA KvStepIsAdmissible == AllAdmissible(Decoder!KvStep)
<1>1. AllAdmissible(<<Decoder!Command("copy", <<Decoder!One("attention_output"),
                        Decoder!One("attention_readback")>>, 1)>>)
  BY DecoderCommands, TwoBound, OneAdmissible
<1>2. AllAdmissible(Decoder!AppendAndAttend(
          Decoder!One("query"), Decoder!One("key"), Decoder!One("value"),
          Decoder!U("append_uniform"), Decoder!U("attention_uniform")))
  BY DecoderCommands, AppendsAreAdmissible
<1> QED
  BY <1>1, <1>2, JoinedAdmissible DEF Decoder!KvStep

LEMMA AttentionIsAdmissible ==
    ASSUME NEW hidden, NEW l, NEW attention, AllAdmissible(attention),
           hidden.buffer \in {"hidden_token", "hidden_pingpong"}
    PROVE  AllAdmissible(Decoder!AttentionBlock(hidden, l, attention))
<1> DEFINE C(k, bind, u) == Decoder!Command(k, bind, Decoder!U(u))
           One(b) == Decoder!One(b)
           Of(b) == Decoder!Of(b, l)
<1>1. /\ Admissible(C("rms_norm", <<hidden, Of("norm1_weight"), One("norm1")>>,
                      "rms_uniform"))
      /\ Admissible(C("gemv", <<Of("q_weight"), One("norm1"),
                                One("q_projection")>>, "gemv_q_uniform"))
      /\ Admissible(C("gemv", <<Of("k_weight"), One("norm1"),
                                One("k_projection")>>, "gemv_k_uniform"))
      /\ Admissible(C("gemv", <<Of("v_weight"), One("norm1"),
                                One("v_projection")>>, "gemv_v_uniform"))
      /\ Admissible(C("gemv", <<Of("o_weight"), One("attention_output"),
                                One("o_projection")>>, "gemv_o_uniform"))
      /\ Admissible(C("residual", <<hidden, One("o_projection"),
                                    One("attention_residual")>>,
                      "residual_uniform"))
  BY DecoderCommands, ThreeBound
<1>2. Admissible(C("mrope", <<One("q_projection"), One("k_projection"),
                              Decoder!Prompt("rope_cos"),
                              Decoder!Prompt("rope_sin"),
                              One("mrope_query"), One("mrope_key")>>,
                   "mrope_uniform"))
  BY DecoderCommands, SixBound
<1> QED
  BY <1>1, <1>2, FiveAdmissible, TwoAdmissible, JoinedAdmissible
  DEF Decoder!AttentionBlock

LEMMA CopyIsAdmissible ==
    ASSUME NEW a, NEW b, NEW n, a.buffer # b.buffer
    PROVE  AllAdmissible(<<Decoder!Command("copy", <<a, b>>, n)>>)
BY DecoderCommands, TwoBound, OneAdmissible

LEMMA LayerStepIsAdmissible ==
    AllAdmissible(Decoder!LayerStep) /\ AllAdmissible(Decoder!LayerStepRead)
<1>1. AllAdmissible(Decoder!AppendAndAttend(
          Decoder!One("mrope_query"), Decoder!One("mrope_key"),
          Decoder!One("v_projection"),
          Decoder!U("append_uniform"), Decoder!U("attention_uniform")))
  BY DecoderCommands, AppendsAreAdmissible
<1>2. AllAdmissible(Decoder!LayerStep)
  BY <1>1, DecoderCommands, AttentionIsAdmissible DEF Decoder!LayerStep
<1>3. AllAdmissible(<<Decoder!Command("copy",
          <<Decoder!One("attention_residual"), Decoder!One("readback")>>, 1)>>)
  BY DecoderCommands, CopyIsAdmissible
<1> QED
  BY <1>2, <1>3, JoinedAdmissible DEF Decoder!LayerStepRead

LEMMA MlpIsAdmissible ==
    ASSUME NEW l, NEW output,
           output.buffer \in {"layer_output", "hidden_pingpong"}
    PROVE  AllAdmissible(Decoder!Mlp(l, output))
<1> DEFINE C(k, bind, u) == Decoder!Command(k, bind, Decoder!U(u))
           One(b) == Decoder!One(b)
           Of(b) == Decoder!Of(b, l)
<1>1. /\ Admissible(C("rms_norm", <<One("attention_residual"),
                      Of("norm2_weight"), One("norm2")>>, "rms2_uniform"))
      /\ Admissible(C("gemv", <<Of("gate_weight"), One("norm2"), One("gate")>>,
                      "gemv_gate_uniform"))
      /\ Admissible(C("gemv", <<Of("up_weight"), One("norm2"), One("up")>>,
                      "gemv_up_uniform"))
      /\ Admissible(C("swiglu", <<One("gate"), One("up"), One("activation")>>,
                      "swiglu_uniform"))
      /\ Admissible(C("gemv", <<Of("down_weight"), One("activation"),
                                One("down_projection")>>, "gemv_down_uniform"))
      /\ Admissible(C("residual", <<One("attention_residual"),
                                    One("down_projection"), output>>,
                      "residual2_uniform"))
  BY DecoderCommands, ThreeBound
<1> QED
  BY <1>1, SixAdmissible DEF Decoder!Mlp

LEMMA FullLayerStepIsAdmissible == AllAdmissible(Decoder!FullLayerStepRead)
<1>1. AllAdmissible(Decoder!Mlp(0, Decoder!One("layer_output")))
  BY DecoderCommands, MlpIsAdmissible
<1>2. AllAdmissible(<<Decoder!Command("copy",
          <<Decoder!One("layer_output"), Decoder!One("readback")>>, 1)>>)
  BY DecoderCommands, CopyIsAdmissible
<1> QED
  BY <1>1, <1>2, LayerStepIsAdmissible, JoinedAdmissible
  DEF Decoder!FullLayerStepRead, Decoder!FullLayerStep

LEMMA StackLayerIsAdmissible ==
    ASSUME NEW l PROVE AllAdmissible(Decoder!StackLayer(l))
<1> DEFINE C(k, bind, u) == Decoder!Command(k, bind, Decoder!U(u))
           One(b) == Decoder!One(b)
           Cache(b) == Decoder!Plane(b, l)
           attention ==
               <<C("kv_append", <<One("mrope_key"), One("v_projection"),
                                  Cache("key_cache"), Cache("value_cache")>>,
                   "append_uniform"),
                 C("split_partial", <<One("mrope_query"), Cache("key_cache"),
                                      Cache("value_cache"),
                                      Decoder!Prompt("split_partials")>>,
                   "split_partial_uniform"),
                 C("split_merge", <<Decoder!Prompt("split_partials"),
                                    Cache("key_cache"), Cache("value_cache"),
                                    One("attention_output")>>,
                   "split_merge_uniform")>>
<1>1. AllAdmissible(attention)
  <2>1. Admissible(C("kv_append", <<One("mrope_key"), One("v_projection"),
                                    Cache("key_cache"), Cache("value_cache")>>,
                     "append_uniform"))
    BY DecoderCommands, FourBoundTwoWritten
  <2>2. /\ Admissible(C("split_partial",
                        <<One("mrope_query"), Cache("key_cache"),
                          Cache("value_cache"),
                          Decoder!Prompt("split_partials")>>,
                        "split_partial_uniform"))
        /\ Admissible(C("split_merge",
                        <<Decoder!Prompt("split_partials"), Cache("key_cache"),
                          Cache("value_cache"), One("attention_output")>>,
                        "split_merge_uniform"))
    BY DecoderCommands, FourBound
  <2> QED
    BY <2>1, <2>2, ThreeAdmissible
<1>2. AllAdmissible(Decoder!AttentionBlock(
          Decoder!Of("hidden_pingpong", l % 2), l, attention))
  <2> HIDE DEF attention
  <2> QED
    BY <1>1, DecoderCommands, AttentionIsAdmissible
<1>3. AllAdmissible(Decoder!Mlp(l, Decoder!Of("hidden_pingpong", (l + 1) % 2)))
  BY DecoderCommands, MlpIsAdmissible
<1> QED
  BY <1>2, <1>3, JoinedAdmissible DEF Decoder!StackLayer

LEMMA StackStepIsAdmissible == AllAdmissible(Decoder!StackStep)
<1> DEFINE layers == [i \in 1..Layers |-> Decoder!StackLayer(i - 1)]
<1>1. Layers \in Nat \ {0}
  BY DecoderShapes DEF Decoder!ShapesAreValid
<1>2. /\ Len(layers) = Layers
      /\ \A i \in 1..Layers : AllAdmissible(layers[i])
  BY <1>1, StackLayerIsAdmissible
<1>3. AllAdmissible(<<Decoder!Command("copy",
          <<Decoder!Of("hidden_pingpong", 0), Decoder!One("readback")>>, 1)>>)
  BY DecoderCommands, CopyIsAdmissible
<1>4. Decoder!StackStep = Decoder!FlattenSeq(layers) \o
          <<Decoder!Command("copy", <<Decoder!Of("hidden_pingpong", 0),
                                      Decoder!One("readback")>>, 1)>>
  BY DEF Decoder!StackStep
<1> HIDE DEF layers
<1>5. AllAdmissible(Decoder!FlattenSeq(layers))
  BY <1>1, <1>2, FlatAdmissible
<1> QED
  BY <1>3, <1>4, <1>5, JoinedAdmissible

LEMMA PrefillLayerIsAdmissible ==
    ASSUME NEW l
    PROVE  AllAdmissible(Decoder!PrefillAttention(l) \o Decoder!PrefillMlp(l))
<1> DEFINE C(k, bind, u) == Decoder!Command(k, bind, Decoder!U(u))
           P(b) == Decoder!Prompt(b)
           Of(b) == Decoder!Of(b, l)
           Cache(b) == Decoder!Plane(b, l)
<1>1. ASSUME NEW from, NEW weight, NEW to, NEW u, to \notin {from, weight, "zero_bias"}
      PROVE  Admissible(Decoder!Project(from, weight, l, to, u))
  BY <1>1, DecoderCommands, FourBound DEF Decoder!Project
<1>2. AllAdmissible(Decoder!PrefillAttention(l))
  <2>1. /\ Admissible(C("rms_norm", <<P("prefill_hidden_storage"),
                           Of("norm1_weight"), P("prefill_norm1")>>,
                        "rms_uniform"))
        /\ Admissible(C("residual", <<P("prefill_hidden_storage"),
                           P("prefill_output"), P("prefill_norm1")>>,
                        "residual_uniform"))
    BY DecoderCommands, ThreeBound
  <2>2. Admissible(C("prefill_mrope", <<P("prefill_context"), P("prefill_key"),
                        P("rope_cos"), P("rope_sin"), P("prefill_query"),
                        P("prefill_norm1")>>, "mrope_uniform"))
    BY DecoderCommands, SixBound
  <2>3. Admissible(C("kv_append_range", <<P("prefill_norm1"),
                        P("prefill_value"), Cache("key_cache"),
                        Cache("value_cache")>>, "append_uniform"))
    BY DecoderCommands, FourBoundTwoWritten
  <2>4. Admissible(C("prefill_gqa", <<P("prefill_query"), Cache("key_cache"),
                        Cache("value_cache"), P("prefill_context")>>,
                     "attention_uniform"))
    BY DecoderCommands, FourBound
  <2>5. /\ Admissible(Decoder!Project("prefill_norm1", "q_weight", l,
                                      "prefill_context", "gemv_q_uniform"))
        /\ Admissible(Decoder!Project("prefill_norm1", "k_weight", l,
                                      "prefill_key", "gemv_k_uniform"))
        /\ Admissible(Decoder!Project("prefill_norm1", "v_weight", l,
                                      "prefill_value", "gemv_v_uniform"))
        /\ Admissible(Decoder!Project("prefill_context", "o_weight", l,
                                      "prefill_output", "gemv_o_uniform"))
    BY <1>1
  <2> QED
    BY <2>1, <2>2, <2>3, <2>4, <2>5, NineAdmissible DEF Decoder!PrefillAttention
<1>3. AllAdmissible(Decoder!PrefillMlp(l))
  <2>1. /\ Admissible(C("rms_norm", <<P("prefill_norm1"), Of("norm2_weight"),
                                      P("prefill_norm2")>>, "rms2_uniform"))
        /\ Admissible(C("swiglu", <<P("prefill_gate"), P("prefill_up"),
                                    P("prefill_activation")>>, "swiglu_uniform"))
        /\ Admissible(C("residual", <<P("prefill_norm1"), P("prefill_output"),
                                      P("prefill_hidden_storage")>>,
                        "residual2_uniform"))
    BY DecoderCommands, ThreeBound
  <2>2. /\ Admissible(Decoder!Project("prefill_norm2", "gate_weight", l,
                                      "prefill_gate", "gemv_gate_uniform"))
        /\ Admissible(Decoder!Project("prefill_norm2", "up_weight", l,
                                      "prefill_up", "gemv_up_uniform"))
        /\ Admissible(Decoder!Project("prefill_activation", "down_weight", l,
                                      "prefill_output", "gemv_down_uniform"))
    BY <1>1
  <2> QED
    BY <2>1, <2>2, SixAdmissible DEF Decoder!PrefillMlp
<1> QED
  BY <1>2, <1>3, JoinedAdmissible

LEMMA StackPrefillIsAdmissible == AllAdmissible(Decoder!StackPrefill)
<1> DEFINE layers == [i \in 1..Layers |-> Decoder!PrefillAttention(i - 1)
                                          \o Decoder!PrefillMlp(i - 1)]
           last == <<Decoder!Command("copy",
                       <<Decoder!Of("prefill_hidden_storage", prefill - 1),
                         Decoder!One("readback")>>, 1)>>
<1>1. Layers \in Nat \ {0}
  BY DecoderShapes DEF Decoder!ShapesAreValid
<1>2. /\ Len(layers) = Layers
      /\ \A i \in 1..Layers : AllAdmissible(layers[i])
  BY <1>1, PrefillLayerIsAdmissible
<1>3. AllAdmissible(last)
  BY DecoderCommands, CopyIsAdmissible
<1>4. Decoder!StackPrefill = Decoder!FlattenSeq(layers) \o last
  BY DEF Decoder!StackPrefill
<1> HIDE DEF layers, last
<1>5. AllAdmissible(Decoder!FlattenSeq(layers))
  BY <1>1, <1>2, FlatAdmissible
<1> QED
  BY <1>3, <1>4, <1>5, JoinedAdmissible

LEMMA ReadoutsAreAdmissible ==
    /\ AllAdmissible(Decoder!StackLogits \o
           <<Decoder!Command("copy", <<Decoder!One("logits"),
                                       Decoder!One("readback")>>, 1)>>)
    /\ AllAdmissible(Decoder!StackLogits \o
           <<Decoder!Command("top1", <<Decoder!One("logits"),
                                       Decoder!One("top1_result")>>,
                             Decoder!U("logits_gemv_uniform")),
             Decoder!Command("copy", <<Decoder!One("top1_result"),
                                       Decoder!One("readback")>>, 1)>>)
<1> DEFINE from == IF Decoder!FromPrefill
                   THEN Decoder!Of("prefill_hidden_storage", prefill - 1)
                   ELSE Decoder!Of("hidden_pingpong", 0)
<1>1. AllAdmissible(Decoder!StackLogits)
  <2>1. from.buffer # "normed_row"
    BY DecoderCommands
  <2>2. Decoder!StackLogits =
          <<Decoder!Command("rms_norm",
                <<from, Decoder!One("final_norm_weight"),
                  Decoder!One("normed_row")>>, Decoder!U("logits_rms_uniform")),
            Decoder!Command("gemv",
                <<Decoder!One("lm_head_weight"), Decoder!One("normed_row"),
                  Decoder!One("logits")>>, Decoder!U("logits_gemv_uniform"))>>
    BY DEF Decoder!StackLogits
  <2> HIDE DEF from
  <2>3. Admissible(Decoder!Command("rms_norm",
                <<from, Decoder!One("final_norm_weight"),
                  Decoder!One("normed_row")>>, Decoder!U("logits_rms_uniform")))
    BY <2>1, DecoderCommands, ThreeBound
  <2>4. Admissible(Decoder!Command("gemv",
                <<Decoder!One("lm_head_weight"), Decoder!One("normed_row"),
                  Decoder!One("logits")>>, Decoder!U("logits_gemv_uniform")))
    BY DecoderCommands, ThreeBound
  <2> QED
    BY <2>2, <2>3, <2>4, TwoAdmissible
<1>2. /\ Admissible(Decoder!Command("copy", <<Decoder!One("logits"),
                                              Decoder!One("readback")>>, 1))
      /\ Admissible(Decoder!Command("top1", <<Decoder!One("logits"),
                                              Decoder!One("top1_result")>>,
                             Decoder!U("logits_gemv_uniform")))
      /\ Admissible(Decoder!Command("copy", <<Decoder!One("top1_result"),
                                              Decoder!One("readback")>>, 1))
  BY DecoderCommands, TwoBound
<1> QED
  BY <1>1, <1>2, OneAdmissible, TwoAdmissible, JoinedAdmissible

LEMMA FinishIsAdmissible == AllAdmissible(Decoder!FinishCopies)
BY DecoderCommands, TwoBound, TwoAdmissible DEF Decoder!FinishCopies

LEMMA DecoderAdmits ==
    ASSUME NEW c PROVE Decoder!Admissible(c) <=> Admissible(c)
BY DEF Decoder!Admissible, Admissible, Decoder!Written, Written,
   Decoder!Cells, Cells

DecoderAdmissible == kind \in Decoder!Kind /\ AllAdmissible(dispatches)

LEMMA StepIsAdmissible ==
    ASSUME kind \in Decoder!Kind, Decoder!CallStep
    PROVE  AllAdmissible(dispatches')
<1> DEFINE step == CASE kind = "kv" -> Decoder!KvStep
                     [] kind = "layer" -> Decoder!LayerStepRead
                     [] kind = "full" -> Decoder!FullLayerStepRead
                     [] kind = "stack" -> Decoder!StackStep
<1>1. dispatches' = step
  BY DEF Decoder!CallStep, Decoder!Encodes
<1>2. CASE kind = "kv"
  <2>1. step = Decoder!KvStep
    BY <1>2
  <2> QED
    BY <1>1, <2>1, KvStepIsAdmissible
<1>3. CASE kind = "layer"
  <2>1. step = Decoder!LayerStepRead
    BY <1>3
  <2> QED
    BY <1>1, <2>1, LayerStepIsAdmissible
<1>4. CASE kind = "full"
  <2>1. step = Decoder!FullLayerStepRead
    BY <1>4
  <2> QED
    BY <1>1, <2>1, FullLayerStepIsAdmissible
<1>5. CASE kind = "stack"
  <2>1. step = Decoder!StackStep
    BY <1>5
  <2> QED
    BY <1>1, <2>1, StackStepIsAdmissible
<1> QED
  BY <1>2, <1>3, <1>4, <1>5 DEF Decoder!Kind

LEMMA DecoderStaysAdmissible ==
    ASSUME DecoderAdmissible, Decoder!Next \/ UNCHANGED decoderVars
    PROVE  DecoderAdmissible'
<1> USE DEF DecoderAdmissible
<1>1. CASE UNCHANGED decoderVars
  BY <1>1 DEF decoderVars
<1>2. CASE Decoder!Begin \/ Decoder!Runs \/ Decoder!Abort
  BY <1>2 DEF Decoder!Begin, Decoder!Runs, Decoder!Abort
<1>3. CASE Decoder!CallStep
  BY <1>3, StepIsAdmissible DEF Decoder!CallStep, Decoder!Encodes
<1>4. CASE Decoder!CallPrefill
  BY <1>4, StackPrefillIsAdmissible DEF Decoder!CallPrefill, Decoder!Encodes
<1>5. CASE \E operation \in {"logits", "top1"} : Decoder!CallReadout(operation)
  BY <1>5, ReadoutsAreAdmissible DEF Decoder!CallReadout, Decoder!Encodes
<1>6. CASE Decoder!CallFinish
  BY <1>6, FinishIsAdmissible DEF Decoder!CallFinish, Decoder!Encodes
<1>7. CASE Decoder!Returns \/ Decoder!Fails
  BY <1>7, NoneAdmissible DEF Decoder!Returns, Decoder!Fails
<1> QED
  BY <1>1, <1>2, <1>3, <1>4, <1>5, <1>6, <1>7 DEF Decoder!Next

LEMMA DecoderSteps ==
    NextComponents => Decoder!Next \/ UNCHANGED decoderVars
<1> SUFFICES ASSUME NextComponents
             PROVE  Decoder!Next \/ UNCHANGED decoderVars
  OBVIOUS
<1>1. CASE component = "decoder programs"
  BY <1>1 DEF NextComponents
<1>2. CASE component # "decoder programs"
  BY <1>2 DEF NextComponents
<1> QED
  BY <1>1, <1>2

(* No submission of a decoder session is refused for what it binds.        *)
LEMMA DecoderIsAdmissible ==
    SpecComponents => []Decoder!DispatchesAdmissible
<1>1. InitComponents => DecoderAdmissible
  BY NoneAdmissible DEF InitComponents, Decoder!Init, DecoderAdmissible
<1>2. DecoderAdmissible /\ [NextComponents]_allVars => DecoderAdmissible'
  <2>1. UNCHANGED allVars => UNCHANGED decoderVars
    BY DEF allVars
  <2> QED
    BY <2>1, DecoderSteps, DecoderStaysAdmissible
<1>3. DecoderAdmissible => Decoder!DispatchesAdmissible
  BY EachAdmissible, DecoderAdmits
  DEF DecoderAdmissible, Decoder!DispatchesAdmissible
<1> QED
  BY <1>1, <1>2, <1>3, PTL DEF SpecComponents
-----------------------------------------------------------------------------
(* The arena of the vision encoder: tensors that live at the same time     *)
(* are placed apart, whether or not the others share memory.               *)

(* The planner of the arena. *)
LEMMA AlignedBounds ==
    ASSUME NEW n \in Nat PROVE AlignedUp(n) \in Nat /\ n <= AlignedUp(n)
<1>1. Alignment \in Nat \ {0}
  BY WidthsAreCounts
<1> DEFINE v == n + Alignment - 1
           q == v \div Alignment
           r == v % Alignment
<1>2. v \in Nat
  BY <1>1
<1>3. v = Alignment * q + r /\ q \in Nat /\ r \in 0..Alignment - 1
  BY <1>1, <1>2, GT!Division
<1>4. AlignedUp(n) = q * Alignment
  BY DEF AlignedUp
<1> HIDE DEF q, r
<1>5. q * Alignment = Alignment * q /\ q * Alignment \in Nat
  BY <1>1, <1>3
<1> QED
  BY <1>1, <1>3, <1>4, <1>5

LEMMA ScratchSizes ==
    ASSUME NEW s \in 0..10 PROVE ScratchCells(s) \in Nat \ {0}
<1>1. CASE Width(s) = 1
  BY <1>1, WidthsAreCounts DEF ScratchCells
<1>2. CASE Width(s) = MlpWidth
  <2>1. Tokens * MlpWidth \in Nat \ {0}
    BY WidthsAreCounts
  <2> QED
    BY <1>2, <2>1 DEF ScratchCells
<1> QED
  BY <1>1, <1>2 DEF Width

(* A function on some of the first numbers is greatest somewhere. *)
LEMMA Greatest ==
    ASSUME NEW n \in Nat, NEW C \in SUBSET (0..n), C # {}, NEW f \in [C -> Nat]
    PROVE  \E m \in C : \A t \in C : f[t] <= f[m]
<1> DEFINE S == {k \in Nat : \A D \in SUBSET C :
                    D # {} /\ D \subseteq 0..k =>
                        \E m \in D : \A t \in D : f[t] <= f[m]}
<1>1. 0 \in S
  <2> SUFFICES ASSUME NEW D \in SUBSET C, D # {}, D \subseteq 0..0
               PROVE  \E m \in D : \A t \in D : f[t] <= f[m]
    OBVIOUS
  <2>1. 0 \in D /\ \A t \in D : t = 0
    <3>1. \A t \in D : t \in 0..0
      OBVIOUS
    <3>2. \A t \in 0..0 : t = 0
      OBVIOUS
    <3> QED
      BY <3>1, <3>2
  <2>2. f[0] \in Nat
    BY <2>1
  <2> QED
    BY <2>1, <2>2
<1>2. ASSUME NEW k \in Nat, k \in S PROVE k + 1 \in S
  <2> SUFFICES ASSUME NEW D \in SUBSET C, D # {}, D \subseteq 0..(k + 1)
               PROVE  \E m \in D : \A t \in D : f[t] <= f[m]
    OBVIOUS
  <2> DEFINE E == D \ {k + 1}
  <2>1. E \in SUBSET C /\ E \subseteq 0..k /\ D \subseteq E \union {k + 1}
    OBVIOUS
  <2>2. CASE E = {}
    <3>1. k + 1 \in D /\ \A t \in D : t = k + 1
      BY <2>1, <2>2
    <3>2. f[k + 1] \in Nat
      BY <3>1
    <3> QED
      BY <3>1, <3>2
  <2>3. CASE E # {}
    <3>1. PICK m \in E : \A t \in E : f[t] <= f[m]
      BY <1>2, <2>1, <2>3
    <3>2. \A t \in D : f[t] \in Nat
      OBVIOUS
    <3>3. CASE k + 1 \in D /\ f[m] <= f[k + 1]
      <4>1. \A t \in D : f[t] <= f[k + 1]
        BY <2>1, <3>1, <3>2, <3>3
      <4> QED
        BY <3>3, <4>1
    <3>4. CASE ~(k + 1 \in D /\ f[m] <= f[k + 1])
      <4>1. \A t \in D : f[t] <= f[m]
        BY <2>1, <3>1, <3>2, <3>4
      <4> QED
        BY <3>1, <4>1
    <3> QED
      BY <3>3, <3>4
  <2> QED
    BY <2>2, <2>3
<1> HIDE DEF S
<1>3. n \in S
  BY <1>1, <1>2, GT!Induct
<1> QED
  BY <1>3 DEF S

(* Tensors that have their place, apart from those they conflict with. *)
PlacedWell(aliasing, placed) ==
    /\ placed \in [0..10 -> Nat \union {Unplaced}]
    /\ \A s, t \in PlacedTensors(placed) :
          s # t /\ Conflict(aliasing, s, t) =>
              \/ placed[s] + ScratchCells(s) <= placed[t]
              \/ placed[t] + ScratchCells(t) <= placed[s]

LEMMA PlacedAreNat ==
    ASSUME NEW aliasing, NEW placed, PlacedWell(aliasing, placed)
    PROVE  \A t \in PlacedTensors(placed) : t \in 0..10 /\ placed[t] \in Nat
  BY DEF PlacedWell, PlacedTensors

LEMMA PlacedIsFree ==
    ASSUME NEW aliasing, NEW placed, PlacedWell(aliasing, placed), NEW s \in 0..10
    PROVE  /\ Placed(aliasing, placed, s) \in Nat
           /\ \A t \in PlacedTensors(placed) : Conflict(aliasing, s, t) =>
                \/ Placed(aliasing, placed, s) + ScratchCells(s) <= placed[t]
                \/ placed[t] + ScratchCells(t) <= Placed(aliasing, placed, s)
<1> DEFINE conflicts == {t \in PlacedTensors(placed) : Conflict(aliasing, s, t)}
           Free(at) == \A t \in conflicts : \/ at + ScratchCells(s) <= placed[t]
                                            \/ placed[t] + ScratchCells(t) <= at
           candidates == {0} \union
                      {AlignedUp(placed[t] + ScratchCells(t)) : t \in conflicts}
           ends == [t \in conflicts |-> placed[t] + ScratchCells(t)]
           F == {at \in candidates : Free(at)}
<1>1. /\ conflicts \in SUBSET (0..10)
      /\ \A t \in conflicts : ends[t] \in Nat /\ ends[t] = placed[t] + ScratchCells(t)
  BY ScratchSizes, PlacedAreNat
<1>2. candidates \subseteq Nat
  BY <1>1, AlignedBounds
<1>3. F # {}
  <2>1. CASE conflicts = {}
    <3>1. 0 \in F
      BY <2>1
    <3> QED
      BY <3>1
  <2>2. CASE conflicts # {}
    <3>1. ends \in [conflicts -> Nat]
      BY <1>1
    <3>2. PICK m \in conflicts : \A t \in conflicts : ends[t] <= ends[m]
      <4> HIDE DEF conflicts, ends
      <4>1. 10 \in Nat
        OBVIOUS
      <4> QED
        BY <1>1, <2>2, <3>1, <4>1, Greatest
    <3>3. AlignedUp(ends[m]) \in Nat /\ ends[m] <= AlignedUp(ends[m])
      BY <1>1, <3>2, AlignedBounds
    <3>4. AlignedUp(ends[m]) \in candidates
      BY <1>1, <3>2
    <3>5. ASSUME NEW t \in conflicts
          PROVE  placed[t] + ScratchCells(t) <= AlignedUp(ends[m])
      <4>1. ends[t] <= ends[m] /\ ends[t] \in Nat /\ ends[m] \in Nat
        BY <1>1, <3>2
      <4>2. ends[t] = placed[t] + ScratchCells(t)
        BY <1>1
      <4> HIDE DEF ends
      <4> QED
        BY <3>3, <4>1, <4>2
    <3> QED
      BY <3>4, <3>5
  <2> QED
    BY <2>1, <2>2
<1>4. \E at \in F : \A other1 \in F : at <= other1
  <2>1. F \subseteq Nat
    BY <1>2
  <2> HIDE DEF F
  <2> QED
    BY <1>3, <2>1, GT!Least
<1>5. Placed(aliasing, placed, s) =
          CHOOSE at \in candidates :
              Free(at) /\ \A other1 \in candidates : Free(other1) => at <= other1
  BY DEF Placed
<1>6. Placed(aliasing, placed, s) \in candidates /\ Free(Placed(aliasing, placed, s))
  <2>1. \E at \in candidates :
              Free(at) /\ \A other1 \in candidates : Free(other1) => at <= other1
    BY <1>4
  <2> HIDE DEF candidates, Free
  <2> QED
    BY <1>5, <2>1
<1> QED
  BY <1>2, <1>6

LEMMA OneMorePlaced ==
    ASSUME NEW aliasing, NEW placed, PlacedWell(aliasing, placed),
           NEW s \in (0..10) \ PlacedTensors(placed), NEW next,
           next = [placed EXCEPT ![s] = Placed(aliasing, placed, s)]
    PROVE  /\ PlacedWell(aliasing, next)
           /\ PlacedTensors(next) = PlacedTensors(placed) \union {s}
<1> DEFINE at == Placed(aliasing, placed, s)
<1>1. /\ at \in Nat
      /\ \A t \in PlacedTensors(placed) : Conflict(aliasing, s, t) =>
             \/ at + ScratchCells(s) <= placed[t]
             \/ placed[t] + ScratchCells(t) <= at
  BY PlacedIsFree
<1>2. next = [placed EXCEPT ![s] = at]
  OBVIOUS
<1>3. placed \in [0..10 -> Nat \union {Unplaced}]
  BY DEF PlacedWell
<1> HIDE DEF at
<1>4. /\ next \in [0..10 -> Nat \union {Unplaced}]
      /\ next[s] = at
      /\ \A t \in 0..10 : t # s => next[t] = placed[t]
  BY <1>1, <1>2, <1>3
<1>5. PlacedTensors(next) = PlacedTensors(placed) \union {s}
  <2>1. at # Unplaced
    BY <1>1 DEF Unplaced
  <2> QED
    BY <1>4, <2>1 DEF PlacedTensors
<1>6. \A t \in PlacedTensors(placed) : next[t] = placed[t]
  BY <1>4 DEF PlacedTensors
<1>7. \A t : Conflict(aliasing, t, s) <=> Conflict(aliasing, s, t)
  BY DEF Conflict
<1>8. ASSUME NEW a \in PlacedTensors(next), NEW b \in PlacedTensors(next),
             a # b, Conflict(aliasing, a, b)
      PROVE  \/ next[a] + ScratchCells(a) <= next[b]
             \/ next[b] + ScratchCells(b) <= next[a]
  <2>1. CASE a = s
    <3>1. b \in PlacedTensors(placed) /\ next[a] = at /\ next[b] = placed[b]
      BY <1>4, <1>5, <1>6, <1>8, <2>1
    <3> QED
      BY <1>1, <1>8, <2>1, <3>1
  <2>2. CASE b = s
    <3>1. a \in PlacedTensors(placed) /\ next[b] = at /\ next[a] = placed[a]
      BY <1>4, <1>5, <1>6, <1>8, <2>2
    <3> QED
      BY <1>1, <1>7, <1>8, <2>2, <3>1
  <2>3. CASE a # s /\ b # s
    <3>1. /\ a \in PlacedTensors(placed) /\ b \in PlacedTensors(placed)
          /\ next[a] = placed[a] /\ next[b] = placed[b]
      BY <1>5, <1>6, <2>3
    <3> QED
      BY <1>8, <3>1 DEF PlacedWell
  <2> QED
    BY <2>1, <2>2, <2>3
<1> QED
  BY <1>4, <1>5, <1>8 DEF PlacedWell

LEMMA SomeIsFirst ==
    ASSUME NEW aliasing \in BOOLEAN, NEW C \in SUBSET (0..10), C # {}
    PROVE  \E s \in C : \A t \in C : t # s => PlacedFirst(aliasing, s, t)
<1> DEFINE f == [s \in C |-> ScratchCells(s)]
<1>1. f \in [C -> Nat] /\ 10 \in Nat
  BY ScratchSizes
<1>2. PICK m \in C : \A t \in C : f[t] <= f[m]
  <2> HIDE DEF f
  <2> QED
    BY <1>1, Greatest
<1> DEFINE L == {t \in C : ~aliasing \/ ScratchCells(t) = ScratchCells(m)}
<1>3. L \subseteq Nat /\ m \in L
  <2>1. L \subseteq C /\ C \subseteq 0..10
    BY Zenon
  <2>2. 0..10 \subseteq Nat
    OBVIOUS
  <2>3. m \in L
    OBVIOUS
  <2> HIDE DEF L
  <2> QED
    BY <2>1, <2>2, <2>3
<1>4. PICK s \in L : \A t \in L : s <= t
  <2> HIDE DEF L
  <2> QED
    BY <1>3, GT!Least
<1>5. ASSUME NEW t \in C, t # s PROVE PlacedFirst(aliasing, s, t)
  <2>1. ScratchCells(s) \in Nat /\ ScratchCells(t) \in Nat /\ s \in Nat /\ t \in Nat
    BY ScratchSizes
  <2>2. ScratchCells(t) <= ScratchCells(m)
    BY <1>2
  <2> QED
    BY <1>4, <1>5, <2>1, <2>2 DEF PlacedFirst
<1> QED
  BY <1>4, <1>5

(* The recursive function of Offsets on the first n tensors.               *)
FirstOf(aliasing, placed) ==
    CHOOSE s \in (0 .. 10) \ PlacedTensors(placed) :
        \A t \in (0 .. 10) \ PlacedTensors(placed) :
            t # s => PlacedFirst(aliasing, s, t)
OnePlaced(aliasing, placed) ==
    [placed EXCEPT ![FirstOf(aliasing, placed)] =
                       Placed(aliasing, placed, FirstOf(aliasing, placed))]
NonePlaced == [t \in 0 .. 10 |-> Unplaced]
IsPlacing(g, aliasing, n) ==
    g = [k \in 0..n |->
            IF k = 0 THEN NonePlaced ELSE OnePlaced(aliasing, g[k - 1])]

LEMMA PlacingExists ==
    ASSUME NEW aliasing, NEW n \in Nat
    PROVE  \E g : IsPlacing(g, aliasing, n)
<1> DEFINE S == {k \in Nat : \E g : IsPlacing(g, aliasing, k)}
<1>1. 0 \in S
  <2>1. IsPlacing([k \in 0..0 |-> NonePlaced], aliasing, 0)
    BY DEF IsPlacing
  <2> QED
    BY <2>1
<1>2. ASSUME NEW k \in Nat, k \in S PROVE k + 1 \in S
  <2>1. PICK g : IsPlacing(g, aliasing, k)
    BY <1>2
  <2> DEFINE h == [i \in 0..(k + 1) |->
                     IF i = 0 THEN NonePlaced ELSE OnePlaced(aliasing, g[i - 1])]
  <2>2. ASSUME NEW i \in 0..k PROVE h[i] = g[i]
    <3>1. g[i] = IF i = 0 THEN NonePlaced ELSE OnePlaced(aliasing, g[i - 1])
      BY <2>1, Zenon DEF IsPlacing
    <3>2. i \in 0..(k + 1)
      OBVIOUS
    <3> QED
      BY <3>1, <3>2
  <2>3. ASSUME NEW i \in 0..(k + 1)
        PROVE  h[i] = IF i = 0 THEN NonePlaced ELSE OnePlaced(aliasing, h[i - 1])
    <3>1. CASE i = 0
      BY <3>1
    <3>2. CASE i # 0
      <4>1. i - 1 \in 0..k
        BY <3>2
      <4>2. h[i - 1] = g[i - 1]
        BY <2>2, <4>1
      <4> QED
        BY <3>2, <4>2
    <3> QED
      BY <3>1, <3>2
  <2>4. IsPlacing(h, aliasing, k + 1)
    BY <2>3 DEF IsPlacing
  <2> QED
    BY <2>4
<1> HIDE DEF S
<1>3. Nat \subseteq S
  BY <1>1, <1>2, GT!Induct
<1> QED
  BY <1>3 DEF S

LEMMA OffsetsArePlacing ==
    ASSUME NEW aliasing
    PROVE  \E g : IsPlacing(g, aliasing, 11) /\ Offsets(aliasing) = g[11]
<1> DEFINE after == CHOOSE g : IsPlacing(g, aliasing, 11)
<1>1. Offsets(aliasing) = after[11]
  BY DEF Offsets, IsPlacing, OnePlaced, FirstOf, NonePlaced
<1>2. IsPlacing(after, aliasing, 11)
  <2>1. 11 \in Nat
    OBVIOUS
  <2> QED
    BY <2>1, PlacingExists
<1> QED
  BY <1>1, <1>2

LEMMA FirstIsNew ==
    ASSUME NEW aliasing \in BOOLEAN, NEW placed, PlacedTensors(placed) # 0..10
    PROVE  FirstOf(aliasing, placed) \in (0..10) \ PlacedTensors(placed)
<1> DEFINE C == (0 .. 10) \ PlacedTensors(placed)
<1>1. C \in SUBSET (0..10) /\ C # {}
  BY DEF PlacedTensors
<1>2. FirstOf(aliasing, placed) =
          CHOOSE s \in C : \A t \in C : t # s => PlacedFirst(aliasing, s, t)
  BY DEF FirstOf
<1> HIDE DEF C
<1>3. \E s \in C : \A t \in C : t # s => PlacedFirst(aliasing, s, t)
  BY <1>1, SomeIsFirst
<1>4. FirstOf(aliasing, placed) \in C
  BY <1>2, <1>3
<1> QED
  BY <1>4 DEF C

LEMMA OffsetsArePlacedWell ==
    ASSUME NEW aliasing \in BOOLEAN
    PROVE  /\ PlacedWell(aliasing, Offsets(aliasing))
           /\ PlacedTensors(Offsets(aliasing)) = 0..10
<1>1. PICK g : IsPlacing(g, aliasing, 11) /\ Offsets(aliasing) = g[11]
  BY OffsetsArePlacing
<1>2. \A k \in 0..11 :
          g[k] = IF k = 0 THEN NonePlaced ELSE OnePlaced(aliasing, g[k - 1])
  BY <1>1, Zenon DEF IsPlacing
<1>3. \A k \in 0..10 : g[k + 1] = OnePlaced(aliasing, g[k])
  <2>1. ASSUME NEW k \in 0..10
        PROVE  k + 1 \in 0..11 /\ k + 1 # 0 /\ (k + 1) - 1 = k
    OBVIOUS
  <2> QED
    BY <1>2, <2>1
<1> DEFINE d == [k \in 0..11 |-> PlacedTensors(g[k])]
           good == {k \in 0..11 : PlacedWell(aliasing, g[k])}
<1>4. d[0] = {} /\ 0 \in good
  <2>1. g[0] = NonePlaced
    BY <1>2
  <2>2. PlacedTensors(g[0]) = {} /\ PlacedWell(aliasing, g[0])
    BY <2>1 DEF PlacedWell, PlacedTensors, NonePlaced
  <2> QED
    BY <2>2
<1>5. ASSUME NEW k \in 0..10, k \in good, d[k] # 0..10
      PROVE  /\ k + 1 \in good
             /\ \E s \in (0..10) \ d[k] : d[k + 1] = d[k] \union {s}
  <2>1. /\ d[k] = PlacedTensors(g[k]) /\ d[k + 1] = PlacedTensors(g[k + 1])
        /\ PlacedWell(aliasing, g[k]) /\ k + 1 \in 0..11
    BY <1>5
  <2> DEFINE s == FirstOf(aliasing, g[k])
  <2>2. s \in (0..10) \ PlacedTensors(g[k])
    BY <1>5, <2>1, FirstIsNew
  <2>3. g[k + 1] = [g[k] EXCEPT ![s] = Placed(aliasing, g[k], s)]
    BY <1>3 DEF OnePlaced
  <2> HIDE DEF s, d
  <2>4. /\ PlacedWell(aliasing, g[k + 1])
        /\ PlacedTensors(g[k + 1]) = PlacedTensors(g[k]) \union {s}
    BY <2>1, <2>2, <2>3, OneMorePlaced
  <2> QED
    BY <2>1, <2>2, <2>4
<1>6. 11 \in good /\ d[11] = 0..10
  <2> DEFINE n == 10
  <2>1. n \in Nat
    OBVIOUS
  <2>2. \A k \in 0..n : k \in good /\ d[k] \subseteq 0..n /\ d[k] # 0..n =>
            /\ k + 1 \in good
            /\ \E s \in (0..n) \ d[k] : d[k + 1] = d[k] \union {s}
    BY <1>5
  <2> HIDE DEF d, good, n
  <2>3. n + 1 \in good /\ d[n + 1] = 0..n
    BY <1>4, <2>1, <2>2, GT!GrowsToAll, Zenon
  <2> QED
    BY <2>3 DEF n
<1> QED
  BY <1>1, <1>6

(* Two bindings of one dispatch do not meet, and buffers of their own are  *)
(* not the same buffer.                                                    *)
Fits(a, b) ==
    /\ a.buffer = b.buffer => Cells(a) \intersect Cells(b) = {}
    /\ job.strategy = "separate" => a.buffer # b.buffer

LEMMA ApartFits ==
    ASSUME NEW a, NEW b, a.buffer # b.buffer PROVE Fits(a, b) /\ Fits(b, a)
BY DEF Fits

LEMMA FitsIsSymmetric ==
    ASSUME NEW a, NEW b, Fits(a, b) PROVE Fits(b, a)
<1>1. Cells(a) \intersect Cells(b) = Cells(b) \intersect Cells(a)
  OBVIOUS
<1> QED
  BY <1>1 DEF Fits

LEMMA AccessedAdmissible ==
    ASSUME NEW k, NEW bind, NEW u, k # "qkv_fused", Written(k) \subseteq DOMAIN bind,
           \A i, j \in DOMAIN bind : i # j => Fits(bind[i], bind[j])
    PROVE  Admissible(Accessed(Command(k, bind, u)))
<1> DEFINE c == Command(k, bind, u)
           w == ReadWriteVariant(c)
<1>1. /\ c.bind = bind /\ c.kernel = k /\ c.access = "declared"
      /\ w.bind = bind /\ w.access = "read_write"
  BY DEF Command, ReadWriteVariant
<1>2. Accessed(c) = IF job.strategy = "separate" THEN c ELSE w
  BY <1>1 DEF Accessed
<1> HIDE DEF c, w
<1>3. CASE job.strategy = "separate"
  <2>1. \A i, j \in DOMAIN bind : i # j => bind[i].buffer # bind[j].buffer
    BY <1>3 DEF Fits
  <2>2. Admissible(c)
    BY <1>1, <2>1, ElsewhereAdmissible
  <2> QED
    BY <1>2, <1>3, <2>2 DEF c
<1>4. CASE job.strategy # "separate"
  <2>1. Admissible(w)
    BY <1>1 DEF Admissible, Fits
  <2> QED
    BY <1>2, <1>4, <2>1 DEF c
<1> QED
  BY <1>3, <1>4

LEMMA DispatchTwo ==
    ASSUME NEW a, NEW b, NEW n, NEW k \in {"gelu", "gelu_erf"}, Fits(a, b)
    PROVE  Admissible(Dispatch(k, <<a, b>>, n))
<1> DEFINE bind == <<a, b>>
<1>1. /\ DOMAIN bind = 1..2 /\ bind[1] = a /\ bind[2] = b
      /\ k # "qkv_fused"
  OBVIOUS
<1>2. Written(k) \subseteq DOMAIN bind
  BY <1>1, WrittenIs
<1> HIDE DEF bind
<1>3. \A i, j \in DOMAIN bind : i # j => Fits(bind[i], bind[j])
  BY <1>1, FitsIsSymmetric
<1>4. Admissible(Accessed(Command(k, bind, Uniform(n))))
  BY <1>1, <1>2, <1>3, AccessedAdmissible
<1> QED
  BY <1>4 DEF Dispatch, bind

LEMMA DispatchThree ==
    ASSUME NEW a, NEW b, NEW c, NEW n, Fits(a, b), Fits(a, c), Fits(b, c)
    PROVE  Admissible(Dispatch("residual", <<a, b, c>>, n))
<1> DEFINE bind == <<a, b, c>>
<1>1. DOMAIN bind = 1..3 /\ bind[1] = a /\ bind[2] = b /\ bind[3] = c
  OBVIOUS
<1>2. Written("residual") \subseteq DOMAIN bind
  BY <1>1, WrittenIs
<1> HIDE DEF bind
<1>3. \A i, j \in DOMAIN bind : i # j => Fits(bind[i], bind[j])
  BY <1>1, FitsIsSymmetric
<1>4. Admissible(Accessed(Command("residual", bind, Uniform(n))))
  BY <1>1, <1>2, <1>3, AccessedAdmissible
<1> QED
  BY <1>4 DEF Dispatch, bind

LEMMA DispatchFour ==
    ASSUME NEW a, NEW b, NEW c, NEW d, NEW n,
           NEW k \in {"layer_norm", "projection"},
           Fits(a, b), Fits(a, c), Fits(a, d), Fits(b, c), Fits(b, d), Fits(c, d)
    PROVE  Admissible(Dispatch(k, <<a, b, c, d>>, n))
<1> DEFINE bind == <<a, b, c, d>>
<1>1. /\ DOMAIN bind = 1..4 /\ bind[1] = a /\ bind[2] = b /\ bind[3] = c
      /\ bind[4] = d /\ k # "qkv_fused"
  OBVIOUS
<1>2. Written(k) \subseteq DOMAIN bind
  BY <1>1, WrittenIs
<1> HIDE DEF bind
<1>3. \A i, j \in DOMAIN bind : i # j => Fits(bind[i], bind[j])
  BY <1>1, FitsIsSymmetric
<1>4. Admissible(Accessed(Command(k, bind, Uniform(n))))
  BY <1>1, <1>2, <1>3, AccessedAdmissible
<1> QED
  BY <1>4 DEF Dispatch, bind
-----------------------------------------------------------------------------
MainNames == {"main-0", "main-1"}
ScratchNames ==
    {"scratch-0", "scratch-1", "scratch-2", "scratch-3", "scratch-4",
     "scratch-5", "scratch-6", "scratch-7", "scratch-8", "scratch-9",
     "scratch-10", "scratch-arena"}
WeightNames ==
    {"norm1.weight", "norm1.bias", "query.weight", "query.bias", "key.weight",
     "key.bias", "value.weight", "value.bias", "out.weight", "out.bias",
     "norm2.weight", "norm2.bias", "fc1.weight", "fc1.bias", "fc2.weight",
     "fc2.bias", "post_norm.weight", "post_norm.bias"}

LEMMA NamesDiffer ==
    /\ MainNames \intersect ScratchNames = {}
    /\ MainNames \intersect WeightNames = {}
    /\ ScratchNames \intersect WeightNames = {}
    /\ {"boundaries", "rope-cos", "rope-sin", "qkv-workspace", "readback"}
           \intersect (MainNames \union ScratchNames \union WeightNames) = {}
BY DEF MainNames, ScratchNames, WeightNames

LEMMA MainIs ==
    ASSUME NEW m \in 0..1
    PROVE  /\ Main(m).buffer \in MainNames
           /\ Main(m).buffer # Main(1 - m).buffer /\ 1 - m \in 0..1
BY DEF Main, Slice, MainBuffers, MainNames

LEMMA LayerWeightIs ==
    ASSUME NEW l, NEW w \in 0..14
    PROVE  /\ LayerWeight(l, w).buffer \in WeightNames
           /\ LayerWeight(l, w + 1).buffer \in WeightNames
           /\ LayerWeight(l, w).buffer # LayerWeight(l, w + 1).buffer
BY DEF LayerWeight, Slice, LayerWeights, WeightNames

LEMMA ScratchBufferIs ==
    ASSUME NEW s \in 0..10
    PROVE  /\ ScratchBuffers[s + 1] \in ScratchNames
           /\ ScratchBuffers[s + 1] # "scratch-arena"
           /\ \A t \in 0..10 : t # s => ScratchBuffers[s + 1] # ScratchBuffers[t + 1]
<1>1. \A t \in 0..10 : ScratchBuffers[t + 1] =
          CASE t = 0 -> "scratch-0" [] t = 1 -> "scratch-1"
            [] t = 2 -> "scratch-2" [] t = 3 -> "scratch-3"
            [] t = 4 -> "scratch-4" [] t = 5 -> "scratch-5"
            [] t = 6 -> "scratch-6" [] t = 7 -> "scratch-7"
            [] t = 8 -> "scratch-8" [] t = 9 -> "scratch-9"
            [] t = 10 -> "scratch-10"
  BY DEF ScratchBuffers
<1> QED
  BY <1>1 DEF ScratchNames

LEMMA ScratchIs ==
    ASSUME NEW s \in 0..10
    PROVE  /\ Scratch(s).buffer \in ScratchNames
           /\ IF job.strategy = "separate"
              THEN Scratch(s).buffer = ScratchBuffers[s + 1]
              ELSE /\ Scratch(s).buffer = "scratch-arena"
                   /\ Scratch(s).at = ArenaOffsets[s]
                   /\ Scratch(s).cells = ScratchCells(s)
<1>1. CASE job.strategy = "separate"
  BY <1>1, ScratchBufferIs DEF Scratch, Wide, Slice
<1>2. CASE job.strategy # "separate"
  BY <1>2 DEF Scratch, Wide, Slice, ScratchNames
<1> QED
  BY <1>1, <1>2

(* Tensors s and t are in use at the same time.                            *)
Together(s, t) ==
    s # t /\ Lived(s)[1] <= Lived(t)[2] /\ Lived(t)[1] <= Lived(s)[2]

LEMMA ScratchFits ==
    ASSUME NEW s \in 0..10, NEW t \in 0..10, Together(s, t)
    PROVE  Fits(Scratch(s), Scratch(t))
<1>1. CASE job.strategy = "separate"
  BY <1>1, ScratchIs, ScratchBufferIs DEF Fits, Together
<1>2. CASE job.strategy # "separate"
  <2>1. PICK aliasing \in BOOLEAN : ArenaOffsets = Offsets(aliasing)
    BY DEF ArenaOffsets, OffsetsAliased, OffsetsApart
  <2>2. Conflict(aliasing, s, t) /\ s # t
    BY DEF Conflict, Together
  <2>3. /\ ArenaOffsets[s] \in Nat /\ ArenaOffsets[t] \in Nat
        /\ \/ ArenaOffsets[s] + ScratchCells(s) <= ArenaOffsets[t]
           \/ ArenaOffsets[t] + ScratchCells(t) <= ArenaOffsets[s]
    BY <2>1, <2>2, OffsetsArePlacedWell, PlacedAreNat DEF PlacedWell
  <2>4. ScratchCells(s) \in Nat /\ ScratchCells(t) \in Nat
    BY ScratchSizes
  <2> DEFINE a == Scratch(s)
             b == Scratch(t)
  <2>5. /\ a.at \in Nat /\ b.at \in Nat /\ a.cells \in Nat /\ b.cells \in Nat
        /\ a.at + a.cells <= b.at \/ b.at + b.cells <= a.at
    BY <1>2, <2>3, <2>4, ScratchIs
  <2> HIDE DEF a, b
  <2>6. Cells(a) \intersect Cells(b) = {}
    BY <2>5 DEF Cells
  <2> QED
    BY <1>2, <2>6 DEF Fits, a, b
<1> QED
  BY <1>1, <1>2

(* The tensors that some dispatch binds together.                          *)
LEMMA BoundTogether ==
    /\ \A t \in 1..3 : Together(0, t)
    /\ Together(1, 2) /\ Together(1, 3) /\ Together(2, 3)
    /\ \A t \in 1..3 : Together(t, 4)
    /\ Together(4, 5) /\ Together(5, 6) /\ Together(6, 7) /\ Together(7, 8)
    /\ Together(8, 9) /\ Together(9, 10) /\ Together(6, 10)
BY DEF Together, Lived, Schedule
-----------------------------------------------------------------------------
(* The programs of the vision encoder and of the projector.                *)

LEMMA ScratchAndMain ==
    ASSUME NEW s \in 0..10, NEW m \in 0..1
    PROVE  /\ Fits(Main(m), Scratch(s)) /\ Fits(Scratch(s), Main(m))
           /\ Main(m).buffer \notin WeightNames
           /\ Scratch(s).buffer \notin WeightNames
BY ScratchIs, MainIs, NamesDiffer, ApartFits

LEMMA WeightedIsAdmissible ==
    ASSUME NEW l, NEW n, NEW w \in 0..14, NEW a, NEW b, Fits(a, b),
           a.buffer \notin WeightNames, b.buffer \notin WeightNames
    PROVE  /\ Admissible(Norm(l, n, w, a, b))
           /\ Admissible(Projection(l, n, w, a, b))
<1> DEFINE x == LayerWeight(l, w)
           y == LayerWeight(l, w + 1)
<1>1. /\ x.buffer \in WeightNames /\ y.buffer \in WeightNames
      /\ x.buffer # y.buffer
  BY LayerWeightIs
<1> HIDE DEF x, y
<1>2. Fits(a, x) /\ Fits(a, y) /\ Fits(x, y) /\ Fits(x, b) /\ Fits(y, b)
  BY <1>1, ApartFits
<1>3. /\ Admissible(Dispatch("layer_norm", <<a, x, y, b>>, n))
      /\ Admissible(Dispatch("projection", <<a, x, y, b>>, n))
  BY <1>2, DispatchFour
<1> QED
  BY <1>3 DEF Norm, Projection, x, y

LEMMA RopeIsAdmissible ==
    ASSUME NEW a, NEW b, a.buffer \notin {"rope-cos", "rope-sin"},
           b.buffer \notin {"rope-cos", "rope-sin"},
           a.buffer = b.buffer => Cells(a) \intersect Cells(b) = {}
    PROVE  AllAdmissible(Rope(a, b))
<1> DEFINE c == Slice("rope-cos", 0, Tokens)
           s == Slice("rope-sin", 0, Tokens)
           bind == <<a, b, c, s>>
           command == Command("rope_2d", bind, [buffer |-> "rope-uniform", at |-> 0])
           w == ReadWriteVariant(command)
<1>1. c.buffer = "rope-cos" /\ s.buffer = "rope-sin"
  BY DEF Slice
<1>2. /\ command.kernel = "rope_2d" /\ command.bind = bind
      /\ command.access = "declared"
      /\ w.kernel = "rope_2d" /\ w.bind = bind /\ w.access = "read_write"
  BY DEF Command, ReadWriteVariant
<1> HIDE DEF c, s
<1>3. /\ DOMAIN bind = 1..4 /\ bind[1] = a /\ bind[2] = b /\ bind[3] = c
      /\ bind[4] = s
  OBVIOUS
<1> HIDE DEF bind, command, w
<1>4. Cells(b) \intersect Cells(a) = Cells(a) \intersect Cells(b)
  OBVIOUS
<1>5. \A i, j \in DOMAIN bind : i # j /\ bind[i].buffer = bind[j].buffer =>
          /\ i \in {1, 2} /\ j \in {1, 2}
          /\ Cells(bind[i]) \intersect Cells(bind[j]) = {}
  BY <1>1, <1>3, <1>4
<1>6. Admissible(command) /\ Admissible(w)
  BY <1>2, <1>3, <1>5, WrittenIs DEF Admissible
<1>7. Accessed(command) \in {command, w}
  BY DEF Accessed, w
<1>8. Rope(a, b) = <<>> \/ Rope(a, b) = <<Accessed(command)>>
  BY DEF Rope, command, bind, c, s
<1> QED
  BY <1>6, <1>7, <1>8, NoneAdmissible, OneAdmissible

(* Two bindings have no cell in common.                                    *)
Apart(a, b) == a.buffer = b.buffer => Cells(a) \intersect Cells(b) = {}

LEMMA ApartIsSymmetric ==
    ASSUME NEW a, NEW b, Apart(a, b) PROVE Apart(b, a)
<1>1. Cells(a) \intersect Cells(b) = Cells(b) \intersect Cells(a)
  OBVIOUS
<1> QED
  BY <1>1 DEF Apart

LEMMA AttentionDispatchIsAdmissible ==
    ASSUME NEW a, NEW b, NEW c,
           {a.buffer, b.buffer, c.buffer} \intersect {"boundaries"} = {},
           Apart(a, b), Apart(a, c), Apart(b, c),
           Fits(a, Scratch(4)), Fits(b, Scratch(4)), Fits(c, Scratch(4))
    PROVE  AllAdmissible(Attention(a, b, c))
<1> DEFINE d == Boundaries
           e == Scratch(4)
           bind == <<a, b, c, d, e>>
           command == Command("attention", bind, Uniform(4))
           w == ReadWriteVariant(command)
<1>1. d.buffer = "boundaries" /\ e.buffer # "boundaries"
  <2>1. 4 \in 0..10
    OBVIOUS
  <2> QED
    BY <2>1, ScratchIs, NamesDiffer DEF Boundaries, Slice
<1>2. /\ command.kernel = "attention" /\ command.bind = bind
      /\ command.access = "declared"
      /\ w.kernel = "attention" /\ w.bind = bind /\ w.access = "read_write"
  BY DEF Command, ReadWriteVariant
<1>3. Fits(a, e) /\ Fits(b, e) /\ Fits(c, e)
  OBVIOUS
<1> HIDE DEF d, e
<1>4. /\ DOMAIN bind = 1..5 /\ bind[1] = a /\ bind[2] = b /\ bind[3] = c
      /\ bind[4] = d /\ bind[5] = e
  OBVIOUS
<1> HIDE DEF bind, command, w
<1>5. /\ Apart(a, d) /\ Apart(b, d) /\ Apart(c, d) /\ Apart(d, e)
      /\ Apart(a, e) /\ Apart(b, e) /\ Apart(c, e)
  BY <1>1, <1>3 DEF Fits, Apart
<1>6. \A i, j \in DOMAIN bind : i # j => Apart(bind[i], bind[j])
  BY <1>4, <1>5, ApartIsSymmetric
<1>7. job.strategy = "separate" => Admissible(command)
  <2>1. job.strategy = "separate" =>
            \A j \in 1..4 : bind[5].buffer # bind[j].buffer
    BY <1>1, <1>3, <1>4 DEF Fits
  <2> QED
    BY <1>2, <1>4, <2>1, WrittenIs, ElsewhereAdmissible
<1>8. Admissible(w)
  BY <1>2, <1>6 DEF Admissible, Apart
<1>9. Accessed(command) = IF job.strategy = "separate" THEN command ELSE w
  BY <1>2 DEF Accessed, w
<1>10. Attention(a, b, c) = <<Accessed(command)>>
  BY DEF Attention, Dispatch, command, bind, d, e
<1> QED
  BY <1>7, <1>8, <1>9, <1>10, OneAdmissible

LEMMA PlainQkvIsAdmissible == ASSUME NEW l PROVE AllAdmissible(PlainQkv(l))
<1>1. 0 \in 0..10 /\ 1 \in 0..10 /\ 2 \in 0..10 /\ 3 \in 0..10 /\ 4 \in 0..10
  OBVIOUS
<1>2. /\ Fits(Scratch(0), Scratch(1)) /\ Fits(Scratch(0), Scratch(2))
      /\ Fits(Scratch(0), Scratch(3)) /\ Fits(Scratch(1), Scratch(2))
      /\ Fits(Scratch(1), Scratch(3)) /\ Fits(Scratch(2), Scratch(3))
      /\ Fits(Scratch(1), Scratch(4)) /\ Fits(Scratch(2), Scratch(4))
      /\ Fits(Scratch(3), Scratch(4))
  BY <1>1, BoundTogether, ScratchFits
<1>3. \A s \in 0..3 : /\ Scratch(s).buffer \notin WeightNames
                      /\ Scratch(s).buffer \notin
                             {"rope-cos", "rope-sin", "boundaries"}
  <2> TAKE s \in 0..3
  <2>1. s \in 0..10
    OBVIOUS
  <2> QED
    BY <2>1, ScratchIs, NamesDiffer
<1>4. /\ Admissible(Projection(l, 1, 2, Scratch(0), Scratch(1)))
      /\ Admissible(Projection(l, 2, 4, Scratch(0), Scratch(2)))
      /\ Admissible(Projection(l, 3, 6, Scratch(0), Scratch(3)))
  <2>1. /\ Scratch(0).buffer \notin WeightNames
        /\ Scratch(1).buffer \notin WeightNames
        /\ Scratch(2).buffer \notin WeightNames
        /\ Scratch(3).buffer \notin WeightNames
    BY <1>3
  <2>2. 2 \in 0..14 /\ 4 \in 0..14 /\ 6 \in 0..14
    OBVIOUS
  <2> QED
    BY <1>2, <2>1, <2>2, WeightedIsAdmissible
<1>5. AllAdmissible(Rope(Scratch(1), Scratch(2)))
  <2>1. /\ Scratch(1).buffer = Scratch(2).buffer =>
               Cells(Scratch(1)) \intersect Cells(Scratch(2)) = {}
        /\ Scratch(1).buffer \notin {"rope-cos", "rope-sin"}
        /\ Scratch(2).buffer \notin {"rope-cos", "rope-sin"}
    BY <1>2, <1>3 DEF Fits
  <2> QED
    BY <2>1, RopeIsAdmissible
<1>6. AllAdmissible(Attention(Scratch(1), Scratch(2), Scratch(3)))
  <2> DEFINE a == Scratch(1)
             b == Scratch(2)
             c == Scratch(3)
  <2>1. /\ {a.buffer, b.buffer, c.buffer} \intersect {"boundaries"} = {}
        /\ Apart(a, b) /\ Apart(a, c) /\ Apart(b, c)
        /\ Fits(a, Scratch(4)) /\ Fits(b, Scratch(4)) /\ Fits(c, Scratch(4))
    BY <1>2, <1>3 DEF Fits, Apart
  <2> HIDE DEF a, b, c
  <2>2. AllAdmissible(Attention(a, b, c))
    BY <2>1, AttentionDispatchIsAdmissible
  <2> QED
    BY <2>2 DEF a, b, c
<1> QED
  BY <1>4, <1>5, <1>6, ThreeAdmissible, JoinedAdmissible DEF PlainQkv

(* The planes of the fused projections do not meet.                        *)
LEMMA PlanesFit ==
    ASSUME NEW p \in 0..2, NEW q \in 0..2, p < q
    PROVE  Cells(Plane(p)) \intersect Cells(Plane(q)) = {}
<1>1. Tokens \in Nat /\ Tokens <= PlaneStride /\ PlaneStride \in Nat
  BY WidthsAreCounts, AlignedBounds DEF PlaneStride
<1>2. p * PlaneStride + Tokens <= q * PlaneStride
  <2>1. CASE p = 0 /\ q = 1
    BY <1>1, <2>1
  <2>2. CASE p = 0 /\ q = 2
    BY <1>1, <2>2
  <2>3. CASE p = 1 /\ q = 2
    BY <1>1, <2>3
  <2> QED
    BY <2>1, <2>2, <2>3
<1> DEFINE from == p * PlaneStride
           to == q * PlaneStride
<1>3. from \in Nat /\ to \in Nat /\ from + Tokens <= to
  BY <1>1, <1>2
<1>4. /\ Cells(Plane(p)) = {from + i : i \in 0 .. Tokens - 1}
      /\ Cells(Plane(q)) = {to + i : i \in 0 .. Tokens - 1}
  BY DEF Plane, Slice, Cells
<1> HIDE DEF from, to
<1> QED
  BY <1>1, <1>3, <1>4

LEMMA FusedQkvIsAdmissible == ASSUME NEW l PROVE AllAdmissible(FusedQkv(l))
<1> DEFINE a == Scratch(0)
           weights == [i \in 1 .. 6 |-> LayerWeight(l, i + 1)]
           h == Workspace
           bind == (<<a>> \o weights) \o <<h>>
           command == Command("qkv_fused", bind, Uniform(1))
           w == ReadWriteVariant(command)
<1>1. a.buffer \in ScratchNames /\ h.buffer = "qkv-workspace"
  <2>1. 0 \in 0..10
    OBVIOUS
  <2> QED
    BY <2>1, ScratchIs DEF Workspace, Slice
<1>2. \A i \in 1..6 : weights[i].buffer = LayerWeights[i + 2]
  BY DEF LayerWeight, Slice
<1>3. /\ \A i \in 1..6 : weights[i].buffer \in WeightNames
      /\ \A i, j \in 1..6 : i # j => weights[i].buffer # weights[j].buffer
  <2>1. /\ LayerWeights[3] = "query.weight" /\ LayerWeights[4] = "query.bias"
        /\ LayerWeights[5] = "key.weight" /\ LayerWeights[6] = "key.bias"
        /\ LayerWeights[7] = "value.weight" /\ LayerWeights[8] = "value.bias"
    BY DEF LayerWeights
  <2> HIDE DEF weights
  <2>2. /\ weights[1].buffer = "query.weight" /\ weights[2].buffer = "query.bias"
        /\ weights[3].buffer = "key.weight" /\ weights[4].buffer = "key.bias"
        /\ weights[5].buffer = "value.weight" /\ weights[6].buffer = "value.bias"
    BY <1>2, <2>1
  <2> QED
    BY <2>2 DEF WeightNames
<1>4. /\ command.kernel = "qkv_fused" /\ command.bind = bind
      /\ command.access = "declared"
      /\ w.kernel = "qkv_fused" /\ w.bind = bind /\ w.access = "read_write"
  BY DEF Command, ReadWriteVariant
<1>5. /\ DOMAIN bind = 1..8 /\ bind[1] = a /\ bind[8] = h
      /\ \A i \in 2..7 : bind[i] = weights[i - 1]
  <2> DEFINE all == {weights[i] : i \in 1..6} \union {a, h}
             first == <<a>>
             last == <<h>>
             s == first \o weights
  <2>1. weights \in Seq(all) /\ Len(weights) = 6
    OBVIOUS
  <2>2. /\ first \in Seq(all) /\ Len(first) = 1 /\ first[1] = a
        /\ last \in Seq(all) /\ Len(last) = 1 /\ last[1] = h
    OBVIOUS
  <2>3. bind = s \o last
    OBVIOUS
  <2> HIDE DEF weights, a, h, all, first, last, bind
  <2>4. /\ s \in Seq(all) /\ Len(s) = Len(first) + Len(weights)
        /\ \A i \in 1 .. Len(first) + Len(weights) :
              s[i] = IF i <= Len(first) THEN first[i] ELSE weights[i - Len(first)]
    BY <2>1, <2>2, ConcatProperties
  <2> HIDE DEF s
  <2>5. /\ bind \in Seq(all) /\ Len(bind) = Len(s) + Len(last)
        /\ \A i \in 1 .. Len(s) + Len(last) :
              bind[i] = IF i <= Len(s) THEN s[i] ELSE last[i - Len(s)]
    <3>1. s \in Seq(all) /\ last \in Seq(all)
      BY <2>2, <2>4
    <3>2. /\ s \o last \in Seq(all) /\ Len(s \o last) = Len(s) + Len(last)
          /\ \A i \in 1 .. Len(s) + Len(last) :
                (s \o last)[i] = IF i <= Len(s) THEN s[i] ELSE last[i - Len(s)]
      BY <3>1, ConcatProperties
    <3> QED
      BY <2>3, <3>2, Zenon
  <2>6. /\ s[1] = a /\ Len(s) = 7
        /\ \A i \in 2..7 : s[i] = weights[i - 1]
    BY <2>1, <2>2, <2>4
  <2>7. DOMAIN bind = 1..8
    BY <2>1, <2>2, <2>5, <2>6
  <2> QED
    BY <2>2, <2>5, <2>6, <2>7
<1> HIDE DEF a, weights, h, bind, command, w
<1>6. \A i, j \in DOMAIN bind : i # j => bind[i].buffer # bind[j].buffer
  <2>1. /\ h.buffer \notin WeightNames /\ h.buffer # a.buffer
        /\ a.buffer \notin WeightNames
    BY <1>1, NamesDiffer
  <2>2. ASSUME NEW i \in 2..7, NEW j \in 2..7, i # j
        PROVE  bind[i].buffer # bind[j].buffer
    <3>1. i - 1 \in 1..6 /\ j - 1 \in 1..6 /\ i - 1 # j - 1
      BY <2>2
    <3> QED
      BY <1>3, <1>5, <3>1
  <2>3. \A i \in 2..7 : bind[i].buffer \in WeightNames
    <3> TAKE i \in 2..7
    <3>1. i - 1 \in 1..6
      OBVIOUS
    <3> QED
      BY <1>3, <1>5, <3>1
  <2>4. \A i \in 1..8 : i = 1 \/ i \in 2..7 \/ i = 8
    OBVIOUS
  <2> QED
    BY <1>5, <2>1, <2>2, <2>3, <2>4
<1>7. Admissible(command) /\ Admissible(w)
  BY <1>4, <1>5, <1>6, WrittenIs DEF Admissible
<1>8. AllAdmissible(<<Accessed(command)>>)
  <2>1. Accessed(command) \in {command, w}
    BY DEF Accessed, w
  <2> QED
    BY <1>7, <2>1, OneAdmissible
<1>9. <<Dispatch("qkv_fused",
               <<Scratch(0)>> \o [i \in 1 .. 6 |-> LayerWeight(l, i + 1)] \o <<Workspace>>,
               1)>> = <<Accessed(command)>>
  BY DEF Dispatch, command, bind, a, weights, h
<1>10. \A p : Plane(p).buffer = "qkv-workspace"
  BY DEF Plane, Slice
<1>11. AllAdmissible(Rope(Plane(0), Plane(1)))
  <2>1. Cells(Plane(0)) \intersect Cells(Plane(1)) = {}
    BY PlanesFit
  <2> QED
    BY <1>10, <2>1, RopeIsAdmissible
<1>12. AllAdmissible(Attention(Plane(0), Plane(1), Plane(2)))
  <2>1. /\ Cells(Plane(0)) \intersect Cells(Plane(1)) = {}
        /\ Cells(Plane(0)) \intersect Cells(Plane(2)) = {}
        /\ Cells(Plane(1)) \intersect Cells(Plane(2)) = {}
    BY PlanesFit
  <2>2. \A p : Fits(Plane(p), Scratch(4))
    <3>1. 4 \in 0..10
      OBVIOUS
    <3>2. Scratch(4).buffer # "qkv-workspace"
      BY <3>1, ScratchIs, NamesDiffer
    <3> QED
      BY <1>10, <3>2, ApartFits
  <2> QED
    BY <1>10, <2>1, <2>2, AttentionDispatchIsAdmissible DEF Apart
<1> QED
  BY <1>8, <1>9, <1>11, <1>12, JoinedAdmissible DEF FusedQkv

LEMMA SevenAdmissible ==
    ASSUME NEW a, NEW b, NEW c, NEW d, NEW e, NEW f, NEW g, Admissible(a),
           Admissible(b), Admissible(c), Admissible(d), Admissible(e),
           Admissible(f), Admissible(g)
    PROVE  AllAdmissible(<<a, b, c, d, e, f, g>>)
<1> DEFINE S == {a, b, c, d, e, f, g}
<1>1. <<a, b, c, d, e, f, g>> \in Seq(S) /\ \A x \in S : Admissible(x)
  OBVIOUS
<1> HIDE DEF S
<1> QED
  BY <1>1, Zenon DEF AllAdmissible

(* The rows of a main or a scratch buffer are copied to the readback.      *)
LEMMA ReadbackIsAdmissible ==
    ASSUME NEW a, a.buffer # "readback", NEW n
    PROVE  AllAdmissible(<<Command("copy", <<a, ReadbackSlot(n)>>, Tokens)>>)
<1>1. ReadbackSlot(n).buffer = "readback"
  BY DEF ReadbackSlot, Slice
<1>2. Admissible(Command("copy", <<a, ReadbackSlot(n)>>, Tokens))
  BY <1>1, TwoBound
<1> QED
  BY <1>2, OneAdmissible

LEMMA LayerIsAdmissible ==
    ASSUME NEW l, NEW m \in 0..1 PROVE AllAdmissible(LayerCommands(l, m))
<1> DEFINE w == 1 - m
           p == Projection(l, 5, 8, Scratch(4), Scratch(5))
           q == Dispatch("residual", <<Main(m), Scratch(5), Scratch(6)>>, 6)
           r == Norm(l, 7, 10, Scratch(6), Scratch(7))
           s == Projection(l, 8, 12, Scratch(7), Scratch(8))
           t == Dispatch("gelu", <<Scratch(8), Scratch(9)>>, 9)
           u == Projection(l, 10, 14, Scratch(9), Scratch(10))
           v == Dispatch("residual", <<Scratch(6), Scratch(10), Main(1 - m)>>, 11)
           first == Norm(l, 0, 0, Main(m), Scratch(0))
           qkvs == IF job.qkv = "plain" THEN PlainQkv(l) ELSE FusedQkv(l)
           copies == IF l \in job.checkpoints
                     THEN <<Command("copy", <<Main(1 - m),
                              ReadbackSlot(Cardinality({c \in job.checkpoints : c < l}))>>,
                              Tokens)>>
                     ELSE <<>>
<1>1. w \in 0..1
  OBVIOUS
<1>2. /\ 0 \in 0..10 /\ 4 \in 0..10 /\ 5 \in 0..10 /\ 6 \in 0..10 /\ 7 \in 0..10
      /\ 8 \in 0..10 /\ 9 \in 0..10 /\ 10 \in 0..10
      /\ 0 \in 0..14 /\ 8 \in 0..14 /\ 10 \in 0..14 /\ 12 \in 0..14
      /\ 14 \in 0..14
  OBVIOUS
<1>3. /\ Fits(Scratch(4), Scratch(5)) /\ Fits(Scratch(5), Scratch(6))
      /\ Fits(Scratch(6), Scratch(7)) /\ Fits(Scratch(7), Scratch(8))
      /\ Fits(Scratch(8), Scratch(9)) /\ Fits(Scratch(9), Scratch(10))
      /\ Fits(Scratch(6), Scratch(10))
  BY <1>2, BoundTogether, ScratchFits
<1>4. /\ \A k \in 0..10 : Scratch(k).buffer \notin WeightNames
      /\ \A k \in 0..10 : Fits(Main(m), Scratch(k)) /\ Fits(Scratch(k), Main(w))
      /\ Main(m).buffer \notin WeightNames /\ Main(w).buffer \notin WeightNames
      /\ Main(w).buffer # "readback"
  BY <1>1, <1>2, ScratchAndMain, MainIs, NamesDiffer
<1> HIDE DEF w
<1>5. Admissible(first)
  <2> DEFINE a == Main(m)
             b == Scratch(0)
  <2>1. Fits(a, b) /\ a.buffer \notin WeightNames /\ b.buffer \notin WeightNames
    BY <1>2, <1>4
  <2> HIDE DEF a, b
  <2>2. Admissible(Norm(l, 0, 0, a, b))
    BY <1>2, <2>1, WeightedIsAdmissible
  <2> QED
    BY <2>2 DEF a, b
<1>6. AllAdmissible(qkvs)
  BY PlainQkvIsAdmissible, FusedQkvIsAdmissible
<1>7. Admissible(p) /\ Admissible(r) /\ Admissible(s) /\ Admissible(u)
  <2>1. /\ Scratch(4).buffer \notin WeightNames
        /\ Scratch(5).buffer \notin WeightNames
        /\ Scratch(6).buffer \notin WeightNames
        /\ Scratch(7).buffer \notin WeightNames
        /\ Scratch(8).buffer \notin WeightNames
        /\ Scratch(9).buffer \notin WeightNames
        /\ Scratch(10).buffer \notin WeightNames
    BY <1>2, <1>4
  <2> QED
    BY <1>2, <1>3, <2>1, WeightedIsAdmissible
<1>8. Admissible(q) /\ Admissible(v)
  <2>1. /\ Fits(Main(m), Scratch(5)) /\ Fits(Main(m), Scratch(6))
        /\ Fits(Scratch(6), Main(1 - m)) /\ Fits(Scratch(10), Main(1 - m))
    BY <1>2, <1>4 DEF w
  <2> QED
    BY <1>3, <2>1, DispatchThree
<1>9. Admissible(t)
  BY <1>3, DispatchTwo
<1>10. AllAdmissible(copies)
  BY <1>4, ReadbackIsAdmissible, NoneAdmissible DEF w
<1> HIDE DEF first, qkvs, copies, p, q, r, s, t, u, v
<1>11. AllAdmissible(<<first>>) /\ AllAdmissible(<<p, q, r, s, t, u, v>>)
  BY <1>5, <1>7, <1>8, <1>9, OneAdmissible, SevenAdmissible
<1>12. LayerCommands(l, m) =
          <<first>> \o qkvs \o <<p, q, r, s, t, u, v>> \o copies
  BY DEF LayerCommands, first, qkvs, copies, p, q, r, s, t, u, v
<1> QED
  BY <1>6, <1>10, <1>11, <1>12, JoinedAdmissible

LEMMA PostNormIsAdmissible ==
    ASSUME NEW m \in 0..1
    PROVE  /\ AllAdmissible(PostNorm(m))
           /\ PostNormed(m).buffer \in MainNames \union ScratchNames
<1> DEFINE a == Main(m)
           b == PostNormed(m)
           x == PostNormWeight(0)
           y == PostNormWeight(1)
           n == IF job.runtime = "web" THEN 12 ELSE 0
<1>1. 1 - m \in 0..1 /\ 0 \in 0..10
  OBVIOUS
<1>2. a.buffer \in MainNames /\ b.buffer \in MainNames \union ScratchNames
  BY <1>1, MainIs, ScratchIs DEF PostNormed
<1>3. a.buffer # b.buffer
  BY <1>1, MainIs, ScratchIs, NamesDiffer DEF PostNormed
<1>4. /\ x.buffer \in WeightNames /\ y.buffer \in WeightNames
      /\ x.buffer # y.buffer
  BY DEF PostNormWeight, Slice, PostNormWeights, WeightNames
<1> HIDE DEF a, b, x, y, n
<1>5. /\ Fits(a, b) /\ Fits(a, x) /\ Fits(a, y) /\ Fits(x, y) /\ Fits(x, b)
      /\ Fits(y, b)
  BY <1>2, <1>3, <1>4, NamesDiffer, ApartFits
<1>6. Admissible(Dispatch("layer_norm", <<a, x, y, b>>, n))
  BY <1>5, DispatchFour
<1>7. PostNorm(m) = <<Dispatch("layer_norm", <<a, x, y, b>>, n)>>
  BY DEF PostNorm, a, b, x, y, n
<1> QED
  BY <1>2, <1>6, <1>7, OneAdmissible DEF b

LEMMA FinishedIsAdmissible ==
    ASSUME NEW m \in 0..1
    PROVE  AllAdmissible(PostNorm(m) \o
               <<Command("copy", <<PostNormed(m), ReadbackSlot(Checkpoints)>>,
                         Tokens)>>)
<1>1. PostNormed(m).buffer # "readback"
  BY PostNormIsAdmissible, NamesDiffer
<1> QED
  BY <1>1, PostNormIsAdmissible, ReadbackIsAdmissible, JoinedAdmissible

(* The buffers of a projector are one for each stage and each weight.      *)
LEMMA ProjectorIsAdmissible ==
    ASSUME NEW input,
           input.buffer \in MainNames \union ScratchNames \union {"projector-input"}
    PROVE  AllAdmissible(ProjectorCommands(input))
<1>1. /\ Stage(0).buffer = "pre-norm" /\ Stage(1).buffer = "merge"
      /\ Stage(2).buffer = "linear1" /\ Stage(3).buffer = "activation"
      /\ Stage(4).buffer = "linear2"
  BY DEF Stage, Slice, ProjectorStages
<1>2. /\ ProjectorWeight(0).buffer = "pre_norm.weight"
      /\ ProjectorWeight(1).buffer = "pre_norm.bias"
      /\ ProjectorWeight(2).buffer = "linear1.weight"
      /\ ProjectorWeight(3).buffer = "linear1.bias"
      /\ ProjectorWeight(4).buffer = "linear2.weight"
      /\ ProjectorWeight(5).buffer = "linear2.bias"
  BY DEF ProjectorWeight, Slice, ProjectorWeights
<1>3. /\ Slice("source-indices", 0, InputTokens).buffer = "source-indices"
      /\ Slice("projector-readback", 0, OutputTokens).buffer = "projector-readback"
  BY DEF Slice
<1>4. input.buffer # "pre-norm"
  BY DEF MainNames, ScratchNames
<1> DEFINE a == ProjectorCommand("layer_norm",
                    <<input, ProjectorWeight(0), ProjectorWeight(1), Stage(0)>>, 0)
           b == ProjectorCommand("merge_2x2",
                    <<Stage(0), Slice("source-indices", 0, InputTokens), Stage(1)>>, 1)
           c == ProjectorCommand("projection",
                    <<Stage(1), ProjectorWeight(2), ProjectorWeight(3), Stage(2)>>, 2)
           d == ProjectorCommand("gelu_erf", <<Stage(2), Stage(3)>>, 3)
           e == ProjectorCommand("projection",
                    <<Stage(3), ProjectorWeight(4), ProjectorWeight(5), Stage(4)>>, 4)
           f == Command("copy",
                    <<Stage(4), Slice("projector-readback", 0, OutputTokens)>>,
                    OutputTokens)
<1>5. Admissible(a) /\ Admissible(c) /\ Admissible(e)
  BY <1>1, <1>2, <1>4, FourBound DEF ProjectorCommand
<1>6. Admissible(b)
  BY <1>1, <1>3, ThreeBound DEF ProjectorCommand
<1>7. Admissible(d) /\ Admissible(f)
  BY <1>1, <1>3, TwoBound DEF ProjectorCommand
<1>8. ProjectorCommands(input) = <<a, b, c, d, e, f>>
  BY DEF ProjectorCommands
<1> HIDE DEF a, b, c, d, e, f
<1> QED
  BY <1>5, <1>6, <1>7, <1>8, SixAdmissible
-----------------------------------------------------------------------------
(* What the native runtime submits for the first layers of a stack.        *)
IsStack(g, n) ==
    g = [l \in 0 .. n |->
            IF l = 0 THEN <<>> ELSE g[l - 1] \o LayerCommands(l - 1, (l - 1) % 2)]

LEMMA StackExists ==
    ASSUME NEW n \in Nat PROVE \E g : IsStack(g, n)
<1> DEFINE S == {k \in Nat : \E g : IsStack(g, k)}
           More(l) == LayerCommands(l, l % 2)
<1>1. 0 \in S
  <2> DEFINE g == [l \in 0..0 |-> <<>>]
  <2>1. IsStack(g, 0)
    BY DEF IsStack
  <2> HIDE DEF g
  <2>2. \E h : IsStack(h, 0)
    BY <2>1, Zenon
  <2> QED
    BY <2>2
<1>2. ASSUME NEW k \in Nat, k \in S PROVE k + 1 \in S
  <2>1. PICK g : IsStack(g, k)
    BY <1>2
  <2>2. \A i \in 0..k : g[i] = IF i = 0 THEN <<>> ELSE g[i - 1] \o More(i - 1)
    BY <2>1, Zenon DEF IsStack
  <2> HIDE DEF More
  <2> DEFINE h == [i \in 0..(k + 1) |->
                     IF i = 0 THEN <<>> ELSE g[i - 1] \o More(i - 1)]
  <2>3. ASSUME NEW i \in 0..k PROVE h[i] = g[i]
    <3>1. i \in 0..(k + 1)
      OBVIOUS
    <3> QED
      BY <2>2, <3>1
  <2>4. ASSUME NEW i \in 0..(k + 1)
        PROVE  h[i] = IF i = 0 THEN <<>> ELSE h[i - 1] \o More(i - 1)
    <3>1. CASE i = 0
      BY <3>1
    <3>2. CASE i # 0
      <4>1. i - 1 \in 0..k
        BY <3>2
      <4>2. h[i - 1] = g[i - 1]
        BY <2>3, <4>1
      <4> QED
        BY <3>2, <4>2
    <3> QED
      BY <3>1, <3>2
  <2>5. h = [i \in 0..(k + 1) |->
                IF i = 0 THEN <<>> ELSE h[i - 1] \o More(i - 1)]
    BY <2>4
  <2> HIDE DEF h
  <2>6. IsStack(h, k + 1)
    BY <2>5 DEF IsStack, More
  <2>7. \E x : IsStack(x, k + 1)
    BY <2>6, Zenon
  <2> QED
    BY <2>7
<1> HIDE DEF S
<1>3. Nat \subseteq S
  BY <1>1, <1>2, GT!Induct
<1> QED
  BY <1>3 DEF S

LEMMA StackIsAdmissible ==
    ASSUME NEW n \in Nat, NEW g, IsStack(g, n)
    PROVE  AllAdmissible(g[n])
<1>1. \A i \in 0..n :
          g[i] = IF i = 0 THEN <<>> ELSE g[i - 1] \o LayerCommands(i - 1, (i - 1) % 2)
  BY Zenon DEF IsStack
<1> DEFINE S == {k \in Nat : k \in 0..n => AllAdmissible(g[k])}
<1>2. 0 \in S
  <2>1. 0 \in 0..n
    OBVIOUS
  <2>2. g[0] = <<>>
    BY <1>1, <2>1
  <2> QED
    BY <2>2, NoneAdmissible
<1>3. ASSUME NEW k \in Nat, k \in S PROVE k + 1 \in S
  <2> SUFFICES ASSUME k + 1 \in 0..n PROVE AllAdmissible(g[k + 1])
    OBVIOUS
  <2>1. k \in 0..n /\ k + 1 # 0 /\ (k + 1) - 1 = k /\ k % 2 \in 0..1
    OBVIOUS
  <2>2. AllAdmissible(g[k])
    BY <1>3, <2>1
  <2>3. g[k + 1] = g[k] \o LayerCommands(k, k % 2)
    BY <1>1, <2>1
  <2>4. AllAdmissible(LayerCommands(k, k % 2))
    BY <2>1, LayerIsAdmissible
  <2> QED
    BY <2>2, <2>3, <2>4, JoinedAdmissible
<1> HIDE DEF S
<1>4. n \in S
  BY <1>2, <1>3, GT!Induct
<1> QED
  BY <1>4 DEF S
-----------------------------------------------------------------------------
VisionAdmissible ==
    job \in Jobs /\ current \in 0..1 /\ AllAdmissible(commands)

LEMMA SubmittedStackIsAdmissible ==
    ASSUME job \in Jobs, SubmitsStack
    PROVE  AllAdmissible(commands')
<1> DEFINE n == job.layers
<1>1. n \in Nat
  BY JobsAreTyped DEF Job
<1> HIDE DEF n
<1>2. n % 2 \in 0..1
  BY <1>1
<1> DEFINE last == PostNorm(n % 2)
           read_back == <<Command("copy", <<PostNormed(n % 2),
                                            ReadbackSlot(Checkpoints)>>, Tokens)>>
<1>3. PICK g : IsStack(g, n) /\ commands' = g[n] \o last \o read_back
  BY <1>1, StackExists, Zenon DEF SubmitsStack, Finishing, IsStack, n
<1>4. AllAdmissible(g[n])
  BY <1>1, <1>3, StackIsAdmissible
<1>5. AllAdmissible(last) /\ AllAdmissible(read_back)
  <2>1. PostNormed(n % 2).buffer # "readback"
    BY <1>2, PostNormIsAdmissible, NamesDiffer
  <2> QED
    BY <1>2, <2>1, PostNormIsAdmissible, ReadbackIsAdmissible
<1> HIDE DEF last, read_back
<1> QED
  BY <1>3, <1>4, <1>5, JoinedAdmissible

LEMMA VisionStaysAdmissible ==
    ASSUME VisionAdmissible, Next \/ UNCHANGED visionVars
    PROVE  VisionAdmissible'
<1> USE DEF VisionAdmissible
<1>1. CASE UNCHANGED visionVars
  BY <1>1 DEF visionVars
<1>2. CASE SubmitsLayer
  <2>1. commands' = LayerCommands(layer, current) /\ current' = 1 - current
    BY <1>2 DEF SubmitsLayer
  <2>2. AllAdmissible(LayerCommands(layer, current))
    BY LayerIsAdmissible
  <2>3. job' = job
    BY <1>2 DEF SubmitsLayer
  <2> QED
    BY <2>1, <2>2, <2>3
<1>3. CASE SubmitsPostNorm
  <2>1. commands' = PostNorm(current) \o
            <<Command("copy", <<PostNormed(current),
                                ReadbackSlot(Checkpoints)>>, Tokens)>>
    BY <1>3 DEF SubmitsPostNorm, Finishing
  <2>2. job' = job /\ current' = current
    BY <1>3 DEF SubmitsPostNorm, Finishing
  <2> QED
    BY <2>1, <2>2, FinishedIsAdmissible
<1>4. CASE SubmitsChain
  <2>1. /\ commands' = PostNorm(current) \o ProjectorCommands(PostNormed(current))
        /\ job' = job /\ current' = 1 - current
    BY <1>4 DEF SubmitsChain, Finishing
  <2>2. /\ AllAdmissible(PostNorm(current))
        /\ AllAdmissible(ProjectorCommands(PostNormed(current)))
    BY PostNormIsAdmissible, ProjectorIsAdmissible
  <2> QED
    BY <2>1, <2>2, JoinedAdmissible
<1>5. CASE SubmitsStack
  <2>1. job' = job /\ current' = current
    BY <1>5 DEF SubmitsStack, Finishing
  <2> QED
    BY <1>5, <2>1, SubmittedStackIsAdmissible
<1>6. CASE SubmitsProjector
  <2>1. /\ commands' = ProjectorCommands(Slice("projector-input", 0, InputTokens))
        /\ job' = job /\ current' = current
    BY <1>6 DEF SubmitsProjector, Finishing
  <2>2. Slice("projector-input", 0, InputTokens).buffer = "projector-input"
    BY DEF Slice
  <2> QED
    BY <2>1, <2>2, ProjectorIsAdmissible
<1> QED
  BY <1>1, <1>2, <1>3, <1>4, <1>5, <1>6 DEF Next

LEMMA ProgramSteps == NextComponents => Next \/ UNCHANGED visionVars
<1> SUFFICES ASSUME NextComponents PROVE Next \/ UNCHANGED visionVars
  OBVIOUS
<1>1. CASE component = "vision programs"
  BY <1>1 DEF NextComponents
<1>2. CASE component # "vision programs"
  BY <1>2 DEF NextComponents
<1> QED
  BY <1>1, <1>2

(* No submission of the vision encoder or of the projector is refused for  *)
(* what it binds.                                                          *)
LEMMA VisionIsAdmissible == SpecComponents => []DispatchesAdmissible
<1>1. InitComponents => VisionAdmissible
  <2>1. InitComponents => job \in Jobs /\ current = 0 /\ commands = <<>>
    BY DEF InitComponents, Init
  <2> QED
    BY <2>1, NoneAdmissible DEF VisionAdmissible
<1>2. VisionAdmissible /\ [NextComponents]_allVars => VisionAdmissible'
  <2>1. UNCHANGED allVars => UNCHANGED visionVars
    BY DEF allVars
  <2> QED
    BY <2>1, ProgramSteps, VisionStaysAdmissible
<1>3. VisionAdmissible => DispatchesAdmissible
  BY EachAdmissible DEF VisionAdmissible, DispatchesAdmissible
<1> QED
  BY <1>1, <1>2, <1>3, PTL DEF SpecComponents
-----------------------------------------------------------------------------
(* The dispatches of a plan; see DispatchProofs.                           *)

(* The dispatches of this module and those of DispatchProofs.              *)
LEMMA SameShaders ==
    ASSUME NEW u, NEW g, NEW w, NEW l
    PROVE  /\ Geometry!gemm_f32(u, g) = GT!gemm_f32(u, g)
           /\ Geometry!gemv_f32(u, g) = GT!gemv_f32(u, g)
           /\ Geometry!gemv_tiled_f32(u, w, l) = GT!gemv_tiled_f32(u, w, l)
           /\ Geometry!gemv_tiled_f16_weights(u, w, l)
                = GT!gemv_tiled_f16_weights(u, w, l)
           /\ Geometry!layer_norm_f32(u, g) = GT!layer_norm_f32(u, g)
           /\ Geometry!rms_norm_f32(u, g) = GT!rms_norm_f32(u, g)
           /\ Geometry!rms_norm_f16_weights(u, g)
                = GT!rms_norm_f16_weights(u, g)
           /\ Geometry!layer_norm_f16(u, g) = GT!layer_norm_f16(u, g)
           /\ Geometry!silu_f32(u, g) = GT!silu_f32(u, g)
           /\ Geometry!gelu_tanh_f32(u, g) = GT!gelu_tanh_f32(u, g)
           /\ Geometry!gelu_erf_f32(u, g) = GT!gelu_erf_f32(u, g)
           /\ Geometry!add_f32(u, g) = GT!add_f32(u, g)
           /\ Geometry!add_f16(u, g) = GT!add_f16(u, g)
           /\ Geometry!gelu_tanh_f16(u, g) = GT!gelu_tanh_f16(u, g)
           /\ Geometry!gelu_erf_f16(u, g) = GT!gelu_erf_f16(u, g)
           /\ Geometry!decoder_swiglu_f32(u, g) = GT!decoder_swiglu_f32(u, g)
           /\ Geometry!projector_merge_2x2_f32(u, g)
                = GT!projector_merge_2x2_f32(u, g)
           /\ Geometry!projector_merge_2x2_f16(u, g)
                = GT!projector_merge_2x2_f16(u, g)
           /\ Geometry!rope_neox_f32(u, g) = GT!rope_neox_f32(u, g)
           /\ Geometry!vision_rope_2d_f32(u, g) = GT!vision_rope_2d_f32(u, g)
           /\ Geometry!vision_rope_2d_f16(u, g) = GT!vision_rope_2d_f16(u, g)
           /\ Geometry!vision_attention_f32(u, w, l)
                = GT!vision_attention_f32(u, w, l)
           /\ Geometry!vision_attention_f16(u, w, l)
                = GT!vision_attention_f16(u, w, l)
           /\ Geometry!vision_patch_projection_f32(u, w, l)
                = GT!vision_patch_projection_f32(u, w, l)
           /\ Geometry!linear_projection_f16_weights(u, w, l)
                = GT!linear_projection_f16_weights(u, w, l)
           /\ Geometry!linear_projection_f16(u, w, l)
                = GT!linear_projection_f16(u, w, l)
           /\ Geometry!vision_qkv_fused_f32(u, g)
                = GT!vision_qkv_fused_f32(u, g)
           /\ Geometry!vision_qkv_fused_f16_weights(u, w, l)
                = GT!vision_qkv_fused_f16_weights(u, w, l)
           /\ Geometry!decoder_kv_append_f32(u, g)
                = GT!decoder_kv_append_f32(u, g)
           /\ Geometry!decoder_kv_append_range_f32(u, g)
                = GT!decoder_kv_append_range_f32(u, g)
           /\ Geometry!decoder_gqa_f32(u, g) = GT!decoder_gqa_f32(u, g)
           /\ Geometry!decoder_prefill_gqa_f32(u, g)
                = GT!decoder_prefill_gqa_f32(u, g)
           /\ Geometry!decoder_gqa_split_partial_f32(u, w, l)
                = GT!decoder_gqa_split_partial_f32(u, w, l)
           /\ Geometry!decoder_gqa_split_merge_f32(g)
                = GT!decoder_gqa_split_merge_f32(g)
           /\ Geometry!decoder_mrope_f32(g) = GT!decoder_mrope_f32(g)
           /\ Geometry!decoder_prefill_mrope_f32(u, g)
                = GT!decoder_prefill_mrope_f32(u, g)
<1>1. /\ Geometry!gemm_f32(u, g) = GT!gemm_f32(u, g)
      /\ Geometry!gemv_f32(u, g) = GT!gemv_f32(u, g)
      /\ Geometry!gemv_tiled_f32(u, w, l) = GT!gemv_tiled_f32(u, w, l)
      /\ Geometry!gemv_tiled_f16_weights(u, w, l)
         = GT!gemv_tiled_f16_weights(u, w, l)
      /\ Geometry!layer_norm_f32(u, g) = GT!layer_norm_f32(u, g)
      /\ Geometry!rms_norm_f32(u, g) = GT!rms_norm_f32(u, g)
  BY DEF Geometry!Below, GT!Below, Geometry!Row, GT!Row, Geometry!If, GT!If,
         Geometry!TiledRow, GT!TiledRow, Geometry!gemm_f32, GT!gemm_f32,
         Geometry!gemv_f32, GT!gemv_f32, Geometry!gemv_tiled_f32,
         GT!gemv_tiled_f32, Geometry!gemv_tiled_f16_weights,
         GT!gemv_tiled_f16_weights, Geometry!layer_norm_f32,
         GT!layer_norm_f32, Geometry!rms_norm_f32, GT!rms_norm_f32
<1>2. /\ Geometry!rms_norm_f16_weights(u, g) = GT!rms_norm_f16_weights(u, g)
      /\ Geometry!layer_norm_f16(u, g) = GT!layer_norm_f16(u, g)
      /\ Geometry!silu_f32(u, g) = GT!silu_f32(u, g)
      /\ Geometry!gelu_tanh_f32(u, g) = GT!gelu_tanh_f32(u, g)
      /\ Geometry!gelu_erf_f32(u, g) = GT!gelu_erf_f32(u, g)
      /\ Geometry!add_f32(u, g) = GT!add_f32(u, g)
  BY DEF Geometry!Below, GT!Below, Geometry!Row, GT!Row, Geometry!If, GT!If,
         Geometry!LinearIndex, GT!LinearIndex, Geometry!OnLine, GT!OnLine,
         Geometry!rms_norm_f16_weights, GT!rms_norm_f16_weights,
         Geometry!layer_norm_f16, GT!layer_norm_f16, Geometry!silu_f32,
         GT!silu_f32, Geometry!gelu_tanh_f32, GT!gelu_tanh_f32,
         Geometry!gelu_erf_f32, GT!gelu_erf_f32, Geometry!add_f32, GT!add_f32
<1>3. /\ Geometry!add_f16(u, g) = GT!add_f16(u, g)
      /\ Geometry!gelu_tanh_f16(u, g) = GT!gelu_tanh_f16(u, g)
      /\ Geometry!gelu_erf_f16(u, g) = GT!gelu_erf_f16(u, g)
      /\ Geometry!decoder_swiglu_f32(u, g) = GT!decoder_swiglu_f32(u, g)
      /\ Geometry!projector_merge_2x2_f32(u, g)
         = GT!projector_merge_2x2_f32(u, g)
      /\ Geometry!projector_merge_2x2_f16(u, g)
         = GT!projector_merge_2x2_f16(u, g)
  BY DEF Geometry!If, GT!If, Geometry!LinearIndex, GT!LinearIndex,
         Geometry!OnLine, GT!OnLine, Geometry!add_f16, GT!add_f16,
         Geometry!gelu_tanh_f16, GT!gelu_tanh_f16, Geometry!gelu_erf_f16,
         GT!gelu_erf_f16, Geometry!decoder_swiglu_f32, GT!decoder_swiglu_f32,
         Geometry!projector_merge_2x2_f32, GT!projector_merge_2x2_f32,
         Geometry!projector_merge_2x2_f16, GT!projector_merge_2x2_f16
<1>4. /\ Geometry!rope_neox_f32(u, g) = GT!rope_neox_f32(u, g)
      /\ Geometry!vision_rope_2d_f32(u, g) = GT!vision_rope_2d_f32(u, g)
      /\ Geometry!vision_rope_2d_f16(u, g) = GT!vision_rope_2d_f16(u, g)
      /\ Geometry!vision_attention_f32(u, w, l)
         = GT!vision_attention_f32(u, w, l)
      /\ Geometry!vision_attention_f16(u, w, l)
         = GT!vision_attention_f16(u, w, l)
      /\ Geometry!vision_patch_projection_f32(u, w, l)
         = GT!vision_patch_projection_f32(u, w, l)
  BY DEF Geometry!Below, GT!Below, Geometry!Row, GT!Row, Geometry!If, GT!If,
         Geometry!rope_neox_f32, GT!rope_neox_f32,
         Geometry!vision_rope_2d_f32, GT!vision_rope_2d_f32,
         Geometry!vision_rope_2d_f16, GT!vision_rope_2d_f16,
         Geometry!vision_attention_f32, GT!vision_attention_f32,
         Geometry!vision_attention_f16, GT!vision_attention_f16,
         Geometry!vision_patch_projection_f32, GT!vision_patch_projection_f32
<1>5. /\ Geometry!linear_projection_f16_weights(u, w, l)
         = GT!linear_projection_f16_weights(u, w, l)
      /\ Geometry!linear_projection_f16(u, w, l)
         = GT!linear_projection_f16(u, w, l)
      /\ Geometry!vision_qkv_fused_f32(u, g) = GT!vision_qkv_fused_f32(u, g)
      /\ Geometry!vision_qkv_fused_f16_weights(u, w, l)
         = GT!vision_qkv_fused_f16_weights(u, w, l)
      /\ Geometry!decoder_kv_append_f32(u, g) = GT!decoder_kv_append_f32(u, g)
      /\ Geometry!decoder_kv_append_range_f32(u, g)
         = GT!decoder_kv_append_range_f32(u, g)
  BY DEF Geometry!HeadWidth, GT!HeadWidth, Geometry!KeyValueWidth,
         GT!KeyValueWidth, Geometry!If, GT!If,
         Geometry!linear_projection_f16_weights,
         GT!linear_projection_f16_weights, Geometry!linear_projection_f16,
         GT!linear_projection_f16, Geometry!vision_qkv_fused_f32,
         GT!vision_qkv_fused_f32, Geometry!vision_qkv_fused_f16_weights,
         GT!vision_qkv_fused_f16_weights, Geometry!decoder_kv_append_f32,
         GT!decoder_kv_append_f32, Geometry!decoder_kv_append_range_f32,
         GT!decoder_kv_append_range_f32
<1>6. /\ Geometry!decoder_gqa_f32(u, g) = GT!decoder_gqa_f32(u, g)
      /\ Geometry!decoder_prefill_gqa_f32(u, g)
         = GT!decoder_prefill_gqa_f32(u, g)
      /\ Geometry!decoder_gqa_split_partial_f32(u, w, l)
         = GT!decoder_gqa_split_partial_f32(u, w, l)
      /\ Geometry!decoder_gqa_split_merge_f32(g)
         = GT!decoder_gqa_split_merge_f32(g)
      /\ Geometry!decoder_mrope_f32(g) = GT!decoder_mrope_f32(g)
      /\ Geometry!decoder_prefill_mrope_f32(u, g)
         = GT!decoder_prefill_mrope_f32(u, g)
  BY DEF Geometry!HeadWidth, GT!HeadWidth, Geometry!QueryWidth, GT!QueryWidth,
         Geometry!KeyValueWidth, GT!KeyValueWidth, Geometry!RotatedWidth,
         GT!RotatedWidth, Geometry!PartialStride, GT!PartialStride,
         Geometry!Below, GT!Below, Geometry!Row, GT!Row, Geometry!If, GT!If,
         Geometry!decoder_gqa_f32, GT!decoder_gqa_f32,
         Geometry!decoder_prefill_gqa_f32, GT!decoder_prefill_gqa_f32,
         Geometry!decoder_gqa_split_partial_f32,
         GT!decoder_gqa_split_partial_f32,
         Geometry!decoder_gqa_split_merge_f32, GT!decoder_gqa_split_merge_f32,
         Geometry!decoder_mrope_f32, GT!decoder_mrope_f32,
         Geometry!decoder_prefill_mrope_f32, GT!decoder_prefill_mrope_f32
<1> QED
  BY <1>1, <1>2, <1>3, <1>4, <1>5, <1>6, Zenon

LEMMA SameWrittenBy ==
    ASSUME NEW d, NEW w, NEW l
    PROVE  Geometry!WrittenBy(d, w, l) = GT!WrittenBy(d, w, l)
<1>1. Geometry!WorkgroupSize(d.kernel) = GT!WorkgroupSize(d.kernel)
  BY DEF Geometry!WorkgroupSize, GT!WorkgroupSize, Geometry!Cooperative,
         GT!Cooperative, Geometry!Tile, GT!Tile
<1> QED
  BY <1>1, SameShaders DEF Geometry!WrittenBy, GT!WrittenBy

LEMMA SameWrites == ASSUME NEW d PROVE Geometry!Writes(d) = GT!Writes(d)
<1>1. \A n : Geometry!Box(n) = GT!Box(n)
  BY DEF Geometry!Box, GT!Box, Geometry!Below, GT!Below
<1> QED
  BY <1>1, SameWrittenBy DEF Geometry!Writes, GT!Writes

LEMMA SamePromised == ASSUME NEW d PROVE Geometry!Promised(d) = GT!Promised(d)
  BY DEF Geometry!HeadWidth, GT!HeadWidth, Geometry!KeyValueWidth,
     GT!KeyValueWidth, Geometry!PartialStride, GT!PartialStride,
     Geometry!CeilDiv, GT!CeilDiv, Geometry!Below, GT!Below,
     Geometry!Strided, GT!Strided, Geometry!Row, GT!Row, Geometry!Halves,
     GT!Halves, Geometry!Promised, GT!Promised

LEMMA SameCardinality ==
    ASSUME NEW s PROVE Geometry!Cardinality(s) = GT!Cardinality(s)
BY DEF Geometry!Cardinality, GT!Cardinality

LEMMA SameRuns == Geometry!Runs => GT!Runs
<1> DEFINE d == Head(dispatchesLeft)
           writes == Geometry!Writes(d)
           elements == {write[3] : write \in writes}
<1>1. /\ Geometry!Writes(d) = GT!Writes(d)
      /\ Geometry!Promised(d) = GT!Promised(d)
      /\ Geometry!Cardinality(writes) = GT!Cardinality(writes)
      /\ Geometry!Cardinality(elements) = GT!Cardinality(elements)
  BY SameWrites, SamePromised, SameCardinality
<1> QED
  BY <1>1 DEF Geometry!Runs, GT!Runs

LEMMA SamePlansKernel == Geometry!PlansKernel = GT!PlansKernel
  BY DEF Geometry!MaxVisionHeadDim, GT!MaxVisionHeadDim, Geometry!LinearTile,
     GT!LinearTile, Geometry!Tile, GT!Tile, Geometry!CeilDiv, GT!CeilDiv,
     Geometry!Dispatch, GT!Dispatch, Geometry!Positive, GT!Positive,
     Geometry!BoundedGroups, GT!BoundedGroups, Geometry!BoundedStride,
     GT!BoundedStride, Geometry!RowStage, GT!RowStage, Geometry!LineStage,
     GT!LineStage, Geometry!ProjectionStage, GT!ProjectionStage,
     Geometry!AttentionStage, GT!AttentionStage, Geometry!MergeStage,
     GT!MergeStage, Geometry!ElementStage, GT!ElementStage,
     Geometry!KernelAdmits, GT!KernelAdmits, Geometry!KernelPlan,
     GT!KernelPlan, Geometry!Plans, GT!Plans, Geometry!PlansKernel,
     GT!PlansKernel

LEMMA SamePlansProjection == Geometry!PlansProjection = GT!PlansProjection
  BY DEF Geometry!LinearTile, GT!LinearTile, Geometry!CeilDiv, GT!CeilDiv,
     Geometry!Dispatch, GT!Dispatch, Geometry!Positive, GT!Positive,
     Geometry!ProjectionStage, GT!ProjectionStage, Geometry!ProjectionAdmits,
     GT!ProjectionAdmits, Geometry!ProjectionPlan, GT!ProjectionPlan,
     Geometry!Plans, GT!Plans, Geometry!PlansProjection, GT!PlansProjection

LEMMA SamePlansTiledProduct == Geometry!PlansTiledProduct = GT!PlansTiledProduct
  BY DEF Geometry!HeadWidth, GT!HeadWidth, Geometry!QueryWidth, GT!QueryWidth,
     Geometry!CeilDiv, GT!CeilDiv, Geometry!Dispatch, GT!Dispatch,
     Geometry!TiledColumns, GT!TiledColumns, Geometry!TiledAdmits,
     GT!TiledAdmits, Geometry!TiledStage, GT!TiledStage, Geometry!Plans,
     GT!Plans, Geometry!PlansTiledProduct, GT!PlansTiledProduct

LEMMA SamePlansCache == Geometry!PlansCache = GT!PlansCache
  BY DEF Geometry!HeadWidth, GT!HeadWidth, Geometry!QueryWidth, GT!QueryWidth,
     Geometry!KeyValueWidth, GT!KeyValueWidth, Geometry!SplitChunk,
     GT!SplitChunk, Geometry!PartialStride, GT!PartialStride, Geometry!Tile,
     GT!Tile, Geometry!CeilDiv, GT!CeilDiv, Geometry!Dispatch, GT!Dispatch,
     Geometry!RowStage, GT!RowStage, Geometry!SplitGroups, GT!SplitGroups,
     Geometry!SplitAdmits, GT!SplitAdmits, Geometry!SplitPlan, GT!SplitPlan,
     Geometry!CacheAdmits, GT!CacheAdmits, Geometry!CacheTransition,
     GT!CacheTransition, Geometry!Plans, GT!Plans, Geometry!PlansCache,
     GT!PlansCache

LEMMA SamePlansLayer == Geometry!PlansLayer = GT!PlansLayer
  BY DEF Geometry!HeadWidth, GT!HeadWidth, Geometry!QueryWidth, GT!QueryWidth,
     Geometry!KeyValueWidth, GT!KeyValueWidth, Geometry!RotatedWidth,
     GT!RotatedWidth, Geometry!Tile, GT!Tile, Geometry!CeilDiv, GT!CeilDiv,
     Geometry!Dispatch, GT!Dispatch, Geometry!RowStage, GT!RowStage,
     Geometry!TiledStage, GT!TiledStage, Geometry!Norm, GT!Norm,
     Geometry!Residual, GT!Residual, Geometry!Swiglu, GT!Swiglu,
     Geometry!AttentionBlockPlan, GT!AttentionBlockPlan, Geometry!LayerPlan,
     GT!LayerPlan, Geometry!TiledRowsFit, GT!TiledRowsFit, Geometry!Plans,
     GT!Plans, Geometry!PlansLayer, GT!PlansLayer

LEMMA SamePlansPrefill == Geometry!PlansPrefill = GT!PlansPrefill
  BY DEF Geometry!HeadWidth, GT!HeadWidth, Geometry!QueryWidth, GT!QueryWidth,
     Geometry!KeyValueWidth, GT!KeyValueWidth, Geometry!RotatedWidth,
     GT!RotatedWidth, Geometry!LinearTile, GT!LinearTile, Geometry!Tile,
     GT!Tile, Geometry!CeilDiv, GT!CeilDiv, Geometry!Dispatch, GT!Dispatch,
     Geometry!RowStage, GT!RowStage, Geometry!ProjectionStage,
     GT!ProjectionStage, Geometry!Norm, GT!Norm, Geometry!Residual,
     GT!Residual, Geometry!Swiglu, GT!Swiglu, Geometry!TiledRowsFit,
     GT!TiledRowsFit, Geometry!PrefillAdmits, GT!PrefillAdmits,
     Geometry!PrefillPlan, GT!PrefillPlan, Geometry!Plans, GT!Plans,
     Geometry!PlansPrefill, GT!PlansPrefill

LEMMA SamePlansLmHead == Geometry!PlansLmHead = GT!PlansLmHead
  BY DEF Geometry!HeadWidth, GT!HeadWidth, Geometry!QueryWidth, GT!QueryWidth,
     Geometry!Tile, GT!Tile, Geometry!CeilDiv, GT!CeilDiv, Geometry!Dispatch,
     GT!Dispatch, Geometry!RowStage, GT!RowStage, Geometry!TiledColumns,
     GT!TiledColumns, Geometry!TiledStage, GT!TiledStage,
     Geometry!LmHeadRows, GT!LmHeadRows, Geometry!LmHeadAdmits,
     GT!LmHeadAdmits, Geometry!LmHeadPlan, GT!LmHeadPlan, Geometry!Plans,
     GT!Plans, Geometry!PlansLmHead, GT!PlansLmHead

LEMMA SamePlansFused == Geometry!PlansFused = GT!PlansFused
  BY DEF Geometry!CeilDiv, GT!CeilDiv, Geometry!Dispatch, GT!Dispatch,
     Geometry!Positive, GT!Positive, Geometry!AlignUp, GT!AlignUp,
     Geometry!FusedGroups, GT!FusedGroups, Geometry!FusedAdmits,
     GT!FusedAdmits, Geometry!FusedPlan, GT!FusedPlan, Geometry!Plans,
     GT!Plans, Geometry!PlansFused, GT!PlansFused

LEMMA SamePlansRope == Geometry!PlansRope = GT!PlansRope
  BY DEF Geometry!MaxVisionHeadDim, GT!MaxVisionHeadDim, Geometry!Tile,
     GT!Tile, Geometry!CeilDiv, GT!CeilDiv, Geometry!Dispatch, GT!Dispatch,
     Geometry!Positive, GT!Positive, Geometry!RowStage, GT!RowStage,
     Geometry!RopeAdmits, GT!RopeAdmits, Geometry!RopePlan, GT!RopePlan,
     Geometry!Plans, GT!Plans, Geometry!PlansRope, GT!PlansRope

LEMMA SamePlansProjector == Geometry!PlansProjector = GT!PlansProjector
  BY DEF Geometry!LinearTile, GT!LinearTile, Geometry!Tile, GT!Tile,
     Geometry!CeilDiv, GT!CeilDiv, Geometry!Dispatch, GT!Dispatch,
     Geometry!Positive, GT!Positive, Geometry!BoundedGroups,
     GT!BoundedGroups, Geometry!BoundedStride, GT!BoundedStride,
     Geometry!RowStage, GT!RowStage, Geometry!LineStage, GT!LineStage,
     Geometry!ProjectionStage, GT!ProjectionStage, Geometry!MergeStage,
     GT!MergeStage, Geometry!ElementStage, GT!ElementStage,
     Geometry!ProjectorAdmits, GT!ProjectorAdmits, Geometry!ProjectorPlan,
     GT!ProjectorPlan, Geometry!Plans, GT!Plans, Geometry!PlansProjector,
     GT!PlansProjector

LEMMA SamePlansVisionLayer == Geometry!PlansVisionLayer = GT!PlansVisionLayer
  BY DEF Geometry!MaxVisionHeadDim, GT!MaxVisionHeadDim, Geometry!LinearTile,
     GT!LinearTile, Geometry!Tile, GT!Tile, Geometry!CeilDiv, GT!CeilDiv,
     Geometry!Dispatch, GT!Dispatch, Geometry!Positive, GT!Positive,
     Geometry!BoundedGroups, GT!BoundedGroups, Geometry!BoundedStride,
     GT!BoundedStride, Geometry!RowStage, GT!RowStage, Geometry!LineStage,
     GT!LineStage, Geometry!ProjectionStage, GT!ProjectionStage,
     Geometry!AttentionStage, GT!AttentionStage, Geometry!ElementStage,
     GT!ElementStage, Geometry!VisionLayerAdmits, GT!VisionLayerAdmits,
     Geometry!VisionLayerPlan, GT!VisionLayerPlan, Geometry!Plans, GT!Plans,
     Geometry!PlansVisionLayer, GT!PlansVisionLayer

LEMMA SamePlansVisionStack == Geometry!PlansVisionStack = GT!PlansVisionStack
  BY DEF Geometry!MaxVisionHeadDim, GT!MaxVisionHeadDim, Geometry!LinearTile,
     GT!LinearTile, Geometry!Tile, GT!Tile, Geometry!CeilDiv, GT!CeilDiv,
     Geometry!Dispatch, GT!Dispatch, Geometry!Positive, GT!Positive,
     Geometry!BoundedGroups, GT!BoundedGroups, Geometry!BoundedStride,
     GT!BoundedStride, Geometry!RowStage, GT!RowStage, Geometry!LineStage,
     GT!LineStage, Geometry!ProjectionStage, GT!ProjectionStage,
     Geometry!AttentionStage, GT!AttentionStage, Geometry!ElementStage,
     GT!ElementStage, Geometry!VisionLayerAdmits, GT!VisionLayerAdmits,
     Geometry!VisionLayerPlan, GT!VisionLayerPlan, Geometry!VisionStackPlan,
     GT!VisionStackPlan, Geometry!Plans, GT!Plans, Geometry!PlansVisionStack,
     GT!PlansVisionStack

LEMMA SameValidates == Geometry!Validates = GT!Validates
  BY DEF Geometry!WithinLimits, GT!WithinLimits, Geometry!Validates,
     GT!Validates

LEMMA SameCalls ==
    /\ Geometry!GeometryIsCounted = GT!GeometryIsCounted
    /\ Geometry!JobsAreCalls = GT!JobsAreCalls
  BY DEF Geometry!GeometryIsCounted, GT!GeometryIsCounted, Geometry!Sizes,
     GT!Sizes, Geometry!OneSize, GT!OneSize, Geometry!TwoSizes, GT!TwoSizes,
     Geometry!ThreeSizes, GT!ThreeSizes, Geometry!IsKernelCall,
     GT!IsKernelCall, Geometry!IsCall, GT!IsCall, Geometry!JobsAreCalls,
     GT!JobsAreCalls

LEMMA SameVerdicts ==
    Geometry!DispatchesAreSound = GT!DispatchesAreSound
  BY DEF Geometry!MaxVisionHeadDim, GT!MaxVisionHeadDim, Geometry!Positive,
     GT!Positive, Geometry!KernelAdmits, GT!KernelAdmits,
     Geometry!DispatchesAreComplete, GT!DispatchesAreComplete,
     Geometry!LongLinesFit, GT!LongLinesFit, Geometry!DispatchesAreSound,
     GT!DispatchesAreSound

LEMMA GeometrySteps == Geometry!Next => GT!Next
BY SameRuns, SameValidates, SamePlansKernel, SamePlansProjection,
   SamePlansTiledProduct, SamePlansCache, SamePlansLayer, SamePlansPrefill,
   SamePlansLmHead, SamePlansFused, SamePlansRope, SamePlansProjector,
   SamePlansVisionLayer, SamePlansVisionStack
DEF Geometry!Next, GT!Next

LEMMA GeometryRuns == SpecComponents => GT!Spec
<1>1. InitComponents => GT!Init
  <2>1. InitComponents => Geometry!Init
    BY DEF InitComponents
  <2> QED
    BY <2>1 DEF Geometry!Init, GT!Init
<1>2. [NextComponents]_allVars => [GT!Next]_(GT!geometryVars)
  <2>1. UNCHANGED allVars => UNCHANGED geometryVars
    BY DEF allVars
  <2>2. UNCHANGED geometryVars => UNCHANGED GT!geometryVars
    BY DEF geometryVars, GT!geometryVars
  <2>3. NextComponents => Geometry!Next \/ UNCHANGED geometryVars
    <3> SUFFICES ASSUME NextComponents
                 PROVE  Geometry!Next \/ UNCHANGED geometryVars
      OBVIOUS
    <3>1. CASE component = "dispatches"
      BY <3>1 DEF NextComponents
    <3>2. CASE component # "dispatches"
      BY <3>2 DEF NextComponents
    <3> QED
      BY <3>1, <3>2
  <2> QED
    BY <2>1, <2>2, <2>3, GeometrySteps
<1> QED
  BY <1>1, <1>2, PTL DEF SpecComponents, GT!Spec

LEMMA GeometryIsSound == SpecComponents => []Geometry!DispatchesAreSound
<1>1. GT!GeometryIsCounted /\ GT!JobsAreCalls
  BY GeometryCounts, GeometryCalls, SameCalls
<1>2. GT!Spec => []GT!DispatchesAreSound
  BY <1>1, GT!DispatchSafety
<1>3. GT!DispatchesAreSound => Geometry!DispatchesAreSound
  BY SameVerdicts
<1> QED
  BY <1>2, <1>3, GeometryRuns, PTL

(* Whatever the components do, every dispatch that a plan yields writes    *)
(* what the plan promises, once, and every dispatch of a program binds     *)
(* nothing twice that it writes.  For any sizes and calls, any jobs of the *)
(* vision encoder, any shapes of the decoder and any alignment.            *)
THEOREM DispatchesStaySound == SpecComponents => []DispatchesAreSound
<1>1. /\ Geometry!DispatchesAreSound /\ DispatchesAdmissible
      /\ Decoder!DispatchesAdmissible
      => DispatchesAreSound
  BY DEF DispatchesAreSound
<1> QED
  BY <1>1, GeometryIsSound, VisionIsAdmissible, DecoderIsAdmissible, PTL
=============================================================================

---------------------- MODULE AsyncSessionOwnerProofs ----------------------
(***************************************************************************)
(* The safety properties of AsyncSessionOwner and its refinement of        *)
(* ExclusiveSession, for every set of sessions and every CounterMax.       *)
(***************************************************************************)
EXTENDS AsyncSessionOwner, TLAPS

(* What the properties need to be inductive: identifiers in circulation    *)
(* were issued by the counters, no two callers share a lease, and a caller *)
(* holds a session of the generation its lease names.                      *)
IssuedIds ==
    /\ generation <= lastGeneration
    /\ inFlightLease <= lastLease
    /\ \A l \in cancelled : l <= lastLease
    /\ \A c \in callers : /\ c.generation \in 1..lastGeneration
                          /\ c.lease \in 1..lastLease

UniqueLeases == \A c, d \in callers : c.lease = d.lease => c = d

CallersKeepTheirGeneration ==
    \A c \in callers : bornIn[c.session] = c.generation

IInv ==
    /\ TypeOK
    /\ IssuedIds
    /\ UniqueLeases
    /\ CallersKeepTheirGeneration
    /\ ExclusiveOwner
    /\ BusyHasOneOwner
    /\ NoResurrection
    /\ CancellationIsOwn
-----------------------------------------------------------------------------
(* The invariant holds when the owner is created. *)
LEMMA InitEstablishesIInv == Init => IInv
<1> USE NoSessionIsNoSession, CounterMaxIsNat DEF CanIssue, TakeStored
<1> SUFFICES ASSUME Init PROVE IInv
  OBVIOUS
<1>1. TypeOK
  <2>1. 0 \in Id
    BY DEF Id
  <2> QED
    BY <2>1 DEF Init, TypeOK, None
<1>2. IssuedIds /\ UniqueLeases /\ CallersKeepTheirGeneration /\ ExclusiveOwner
  BY DEF Init, IssuedIds, UniqueLeases, CallersKeepTheirGeneration,
         ExclusiveOwner, None
<1>3. BusyHasOneOwner /\ NoResurrection /\ CancellationIsOwn
  BY DEF Init, BusyHasOneOwner, NoResurrection, CancellationIsOwn, None
<1> QED
  BY <1>1, <1>2, <1>3 DEF IInv

(* begin preserves the invariant: the owner was free, and no caller's      *)
(* lease can match the new generation.                                     *)
LEMMA BeginPreservesIInv ==
    ASSUME IInv, NEW s \in Session, Begin(s)
    PROVE  IInv'
<1> USE NoSessionIsNoSession, CounterMaxIsNat DEF CanIssue, TakeStored
<1> USE DEF IInv, None
<1>1. TypeOK'
  BY DEF Begin, TypeOK, Id
<1>2. IssuedIds'
  BY DEF Begin, TypeOK, Id, IssuedIds, Caller
<1>3. UniqueLeases' /\ ExclusiveOwner'
  BY DEF Begin, UniqueLeases, ExclusiveOwner, Lent
<1>4. CallersKeepTheirGeneration'
  BY DEF Begin, CallersKeepTheirGeneration, Lent, TypeOK, Caller
<1>5. BusyHasOneOwner'
  BY DEF Begin, BusyHasOneOwner, Current, IssuedIds, TypeOK, Id
<1>6. NoResurrection' /\ CancellationIsOwn'
  BY DEF Begin, NoResurrection, CancellationIsOwn, TypeOK, BusyHasOneOwner
<1> QED
  BY <1>1, <1>2, <1>3, <1>4, <1>5, <1>6

(* acquire preserves the invariant: its lease is a new one, and the        *)
(* session moves from the owner to the new caller.                         *)
LEMMA AcquirePreservesIInv == IInv /\ Acquire => IInv'
<1> USE NoSessionIsNoSession, CounterMaxIsNat DEF CanIssue, TakeStored
<1> SUFFICES ASSUME IInv, Acquire PROVE IInv'
  OBVIOUS
<1> DEFINE new == [generation |-> generation, lease |-> lastLease + 1,
                   session |-> stored]
<1>0. /\ new \in Caller
      /\ callers' = callers \cup {new}
      /\ lastLease + 1 \in Id
  BY DEF Acquire, IInv, TypeOK, Caller, Id
<1> USE DEF IInv, None
<1>1. TypeOK'
  BY <1>0 DEF Acquire, TypeOK, Id
<1>2. IssuedIds'
  BY <1>0 DEF Acquire, TypeOK, Id, IssuedIds, Caller
<1>3. UniqueLeases'
  BY <1>0 DEF UniqueLeases, IssuedIds, TypeOK, Id
<1>4. ExclusiveOwner'
  BY <1>0 DEF ExclusiveOwner, Acquire, TypeOK, Caller
<1>5. CallersKeepTheirGeneration'
  BY <1>0 DEF Acquire, CallersKeepTheirGeneration, NoResurrection
<1>6. BusyHasOneOwner'
  BY <1>0 DEF Acquire, BusyHasOneOwner, Current
<1>7. NoResurrection' /\ CancellationIsOwn'
  BY <1>0 DEF Acquire, NoResurrection, CancellationIsOwn, IssuedIds, TypeOK, Id
<1> QED
  BY <1>1, <1>2, <1>3, <1>4, <1>5, <1>6, <1>7

(* Releasing a stored session preserves the invariant. *)
LEMMA ReleaseStoredPreservesIInv == IInv /\ ReleaseStored => IInv'
<1> USE NoSessionIsNoSession, CounterMaxIsNat DEF CanIssue, TakeStored
<1> SUFFICES ASSUME IInv, ReleaseStored PROVE IInv'
  OBVIOUS
<1> USE DEF IInv, ReleaseStored, None
<1>1. TypeOK' /\ IssuedIds'
  <2>1. 0 \in Id
    BY DEF Id
  <2>2. TypeOK'
    BY <2>1 DEF TypeOK
  <2>3. IssuedIds'
    BY DEF TypeOK, Id, IssuedIds
  <2> QED
    BY <2>2, <2>3
<1>2. UniqueLeases' /\ CallersKeepTheirGeneration'
  BY DEF UniqueLeases, CallersKeepTheirGeneration
<1>3. ExclusiveOwner'
  BY DEF ExclusiveOwner, TypeOK, Caller
<1>4. BusyHasOneOwner' /\ NoResurrection' /\ CancellationIsOwn'
  BY DEF BusyHasOneOwner, NoResurrection, CancellationIsOwn
<1> QED
  BY <1>1, <1>2, <1>3, <1>4

(* Aborting the operation in flight preserves the invariant. *)
LEMMA AbortInFlightPreservesIInv == IInv /\ AbortInFlight => IInv'
<1> USE NoSessionIsNoSession, CounterMaxIsNat DEF CanIssue, TakeStored
<1> SUFFICES ASSUME IInv, AbortInFlight PROVE IInv'
  OBVIOUS
<1> USE DEF IInv, AbortInFlight, None
<1>1. TypeOK' /\ IssuedIds'
  BY DEF TypeOK, Id, IssuedIds
<1>2. UniqueLeases' /\ CallersKeepTheirGeneration' /\ ExclusiveOwner'
  BY DEF UniqueLeases, CallersKeepTheirGeneration, ExclusiveOwner
<1>3. BusyHasOneOwner' /\ NoResurrection' /\ CancellationIsOwn'
  BY DEF BusyHasOneOwner, NoResurrection, CancellationIsOwn, Current
<1> QED
  BY <1>1, <1>2, <1>3

(* Detaching the operation in flight preserves the invariant. *)
LEMMA DetachInFlightPreservesIInv == IInv /\ DetachInFlight => IInv'
<1> USE NoSessionIsNoSession, CounterMaxIsNat DEF CanIssue, TakeStored
<1> SUFFICES ASSUME IInv, DetachInFlight PROVE IInv'
  OBVIOUS
<1> USE DEF IInv, DetachInFlight, None
<1>1. TypeOK' /\ IssuedIds'
  BY DEF TypeOK, Id, IssuedIds
<1>2. UniqueLeases' /\ CallersKeepTheirGeneration' /\ ExclusiveOwner'
  BY DEF UniqueLeases, CallersKeepTheirGeneration, ExclusiveOwner
<1>3. BusyHasOneOwner' /\ NoResurrection' /\ CancellationIsOwn'
  BY DEF BusyHasOneOwner, NoResurrection, CancellationIsOwn
<1> QED
  BY <1>1, <1>2, <1>3

(* Every completion preserves the invariant.  A current lease finds the    *)
(* owner empty and, being unique, leaves no other current caller.          *)
LEMMA CompletePreservesIInv ==
    ASSUME IInv, NEW c \in callers, NEW action \in CompletionAction,
           Complete(c, action)
    PROVE  IInv'
<1> USE NoSessionIsNoSession, CounterMaxIsNat DEF CanIssue, TakeStored
<1> USE DEF IInv, None
<1>1. c \in Caller /\ c.session \in Session /\ c.lease \in Nat /\ c.lease # None
  BY DEF TypeOK, Caller, IssuedIds
<1>2. /\ callers' = callers \ {c}
      /\ bornIn' = bornIn
      /\ cancelled' = cancelled
  BY DEF Complete
<1>3. Current(c) => stored = NoSession
  BY <1>1 DEF BusyHasOneOwner, Current
<1>4. lastGeneration' = lastGeneration /\ lastLease' = lastLease
  BY DEF Complete, CompleteStale, CompleteCancelled, CompleteRestore,
         CompleteFinish, ownerVars
<1>5. TypeOK'
  <2>1. 0 \in Id
    BY DEF Id
  <2>2. /\ stored' \in Session \cup {NoSession}
        /\ generation' \in Id
        /\ inFlightLease' \in Id
        /\ cancellationRequested' \in BOOLEAN
    BY <1>1, <2>1 DEF Complete, CompleteStale, CompleteCancelled,
           CompleteRestore, CompleteFinish, ownerVars, TypeOK
  <2> QED
    BY <1>2, <1>4, <2>2 DEF TypeOK
<1>6. IssuedIds'
  BY <1>2, <1>4 DEF Complete, CompleteStale, CompleteCancelled,
         CompleteRestore, CompleteFinish, ownerVars, IssuedIds, TypeOK, Id
<1>7. UniqueLeases' /\ CallersKeepTheirGeneration'
  BY <1>2 DEF UniqueLeases, CallersKeepTheirGeneration
<1>8. CASE CompleteStale(c)
  <2>1. ExclusiveOwner'
    BY <1>2, <1>8 DEF ExclusiveOwner, CompleteStale, ownerVars
  <2>2. BusyHasOneOwner'
    BY <1>2, <1>8 DEF BusyHasOneOwner, CompleteStale, ownerVars, Current
  <2>3. NoResurrection' /\ CancellationIsOwn'
    BY <1>2, <1>8 DEF NoResurrection, CancellationIsOwn, CompleteStale, ownerVars
  <2> QED
    BY <1>5, <1>6, <1>7, <2>1, <2>2, <2>3
<1>9. CASE CompleteCancelled(c) \/ CompleteFinish(c)
  <2>1. /\ stored = NoSession /\ stored' = NoSession
        /\ generation' = None /\ inFlightLease' = None
    BY <1>3, <1>9 DEF CompleteCancelled, CompleteFinish
  <2>2. ExclusiveOwner'
    BY <1>2, <2>1 DEF ExclusiveOwner, TypeOK, Caller
  <2>3. BusyHasOneOwner' /\ NoResurrection' /\ CancellationIsOwn'
    BY <2>1 DEF BusyHasOneOwner, NoResurrection, CancellationIsOwn
  <2> QED
    BY <1>5, <1>6, <1>7, <2>2, <2>3
<1>10. CASE CompleteRestore(c)
  <2>1. /\ Current(c) /\ stored' = c.session
        /\ generation' = generation /\ inFlightLease' = None
    BY <1>10 DEF CompleteRestore
  <2>2. ExclusiveOwner'
    BY <1>2, <2>1 DEF ExclusiveOwner
  <2>3. \A d \in callers' : d.lease # inFlightLease'
    BY <1>2, <2>1 DEF IssuedIds
  <2>4. generation # None
    BY <2>1 DEF Current, IssuedIds
  <2>5. BusyHasOneOwner'
    BY <1>1, <2>1, <2>3, <2>4 DEF BusyHasOneOwner, Current
  <2>6. NoResurrection' /\ CancellationIsOwn'
    BY <1>2, <2>1 DEF NoResurrection, CancellationIsOwn,
                      CallersKeepTheirGeneration, Current
  <2> QED
    BY <1>5, <1>6, <1>7, <2>2, <2>5, <2>6
<1> QED
  BY <1>8, <1>9, <1>10 DEF Complete

(* Every step preserves the invariant. *)
LEMMA NextPreservesIInv == IInv /\ [Next]_vars => IInv'
<1> SUFFICES ASSUME IInv, [Next]_vars PROVE IInv'
  OBVIOUS
<1>1. ASSUME NEW s \in Session, Begin(s) PROVE IInv'
  BY <1>1, BeginPreservesIInv
<1>2. CASE Acquire
  BY <1>2, AcquirePreservesIInv
<1>3. CASE Abort
  BY <1>3, AbortInFlightPreservesIInv, ReleaseStoredPreservesIInv DEF Abort
<1>4. CASE CancelAndRelease
  BY <1>4, DetachInFlightPreservesIInv, ReleaseStoredPreservesIInv
     DEF CancelAndRelease
<1>5. ASSUME NEW c \in callers, NEW action \in CompletionAction,
              Complete(c, action)
      PROVE  IInv'
  BY <1>5, CompletePreservesIInv
<1>6. CASE UNCHANGED vars
  BY <1>6 DEF vars, ownerVars, IInv, TypeOK, IssuedIds, UniqueLeases,
              CallersKeepTheirGeneration, ExclusiveOwner, BusyHasOneOwner,
              NoResurrection, CancellationIsOwn, Current
<1> QED
  BY <1>1, <1>2, <1>3, <1>4, <1>5, <1>6 DEF Next

(* The inductive invariant holds in every reachable state. *)
THEOREM InductiveInvariant == Spec => []IInv
<1>1. Init => IInv
  BY InitEstablishesIInv
<1>2. IInv /\ [Next]_vars => IInv'
  BY NextPreservesIInv
<1> QED
  BY <1>1, <1>2, PTL DEF Spec

(* AsyncSessionOwner is type correct. *)
THEOREM TypeCorrect == Spec => []TypeOK
<1>1. IInv => TypeOK
  BY DEF IInv
<1> QED
  BY <1>1, InductiveInvariant, PTL

(* A payload has one owner, and the owner is busy exactly while the        *)
(* payload of its generation is stored, or lent to the one caller whose    *)
(* completion will be accepted (AsyncSessionOwner).                        *)
THEOREM OwnershipIsSafe == Spec => [](ExclusiveOwner /\ BusyHasOneOwner)
<1>1. IInv => ExclusiveOwner /\ BusyHasOneOwner
  BY DEF IInv
<1> QED
  BY <1>1, InductiveInvariant, PTL

(* No late completion puts the payload of an earlier generation into a     *)
(* newer one (AsyncSessionOwner::complete).                                *)
THEOREM NothingIsRevived == Spec => []NoResurrection
<1>1. IInv => NoResurrection
  BY DEF IInv
<1> QED
  BY <1>1, InductiveInvariant, PTL

(* A cancellation reaches the operation it was meant for and no later one  *)
(* (AsyncSessionOwner::abort).                                             *)
THEOREM CancellationsStay == Spec => []CancellationIsOwn
<1>1. IInv => CancellationIsOwn
  BY DEF IInv
<1> QED
  BY <1>1, InductiveInvariant, PTL
-----------------------------------------------------------------------------
(* The one current caller holds the session of the open generation. *)
LEMMA CurrentCallerHoldsSession ==
    ASSUME IInv, NEW c \in callers, Current(c)
    PROVE  /\ CurrentSession = c.session
           /\ stored = NoSession
           /\ generation # None
           /\ Phase = IF cancellationRequested THEN "doomed" ELSE "lent"
<1> USE DEF IInv, None
<1>1. generation # None /\ inFlightLease # None
  BY DEF IssuedIds, Current
<1>2. stored = NoSession
  BY <1>1 DEF BusyHasOneOwner
<1>3. \A d \in callers : Current(d) => d = c
  BY DEF UniqueLeases, Current
<1>4. CurrentSession = c.session
  BY <1>2, <1>3 DEF CurrentSession
<1> QED
  BY <1>1, <1>2, <1>4 DEF Phase

(* While no operation is in flight, no caller is current. *)
LEMMA NoCurrentCaller ==
    ASSUME IInv, inFlightLease = None
    PROVE  StaleCallers = callers
BY DEF IInv, IssuedIds, StaleCallers, Current, None

(* begin opens the slot. *)
LEMMA BeginRefinesOpen ==
    ASSUME IInv, NEW s \in Session, Begin(s)
    PROVE  Exclusive!Open(s)
<1> USE NoSessionIsNoSession DEF CanIssue, TakeStored
<1>1. IInv'
  BY BeginPreservesIInv
<1>2. inFlightLease = None /\ inFlightLease' = None
  BY DEF Begin, IInv, BusyHasOneOwner
<1>3. StaleCallers = callers /\ StaleCallers' = callers
  BY <1>1, <1>2, NoCurrentCaller, BeginPreservesIInv
     DEF Begin, IInv, IssuedIds, StaleCallers, Current, None
<1>4. Orphans' = Orphans /\ s \notin Orphans
  BY <1>3 DEF Orphans, Begin, Lent
<1>5. Phase = "idle" /\ Phase' = "stored" /\ CurrentSession' = s
  BY DEF Begin, Phase, CurrentSession, None, IInv, TypeOK, Id
<1> QED
  BY <1>4, <1>5 DEF Exclusive!Open

(* acquire lends the stored session. *)
LEMMA AcquireRefinesLend ==
    ASSUME IInv, Acquire
    PROVE  Exclusive!Lend
<1> USE NoSessionIsNoSession DEF CanIssue, TakeStored
<1>1. IInv'
  BY AcquirePreservesIInv
<1>2. PICK new : new = [generation |-> generation, lease |-> lastLease + 1,
                        session |-> stored]
  OBVIOUS
<1>3. /\ callers' = callers \cup {new}
      /\ stored # NoSession /\ generation # None /\ inFlightLease = None
      /\ generation' = generation /\ inFlightLease' = lastLease + 1
      /\ stored' = NoSession /\ cancellationRequested' = FALSE
  BY <1>2 DEF Acquire, IInv, BusyHasOneOwner
<1>4. new \in callers' /\ Current(new)'
  BY <1>2, <1>3 DEF Current
<1>5. \A d \in callers' : Current(d)' => d = new
  BY <1>1, <1>3, <1>4 DEF IInv, UniqueLeases, Current
<1>6. CurrentSession' = stored
  BY <1>2, <1>3, <1>4, <1>5 DEF CurrentSession
<1>7. new \notin callers
  BY <1>2 DEF IInv, IssuedIds, TypeOK, Id
<1>8. StaleCallers' = callers
  BY <1>3, <1>4, <1>5, <1>7 DEF StaleCallers
<1>9. Orphans' = Orphans
  BY <1>3, <1>8, NoCurrentCaller DEF Orphans
<1>10. Phase = "stored" /\ Phase' = "lent" /\ CurrentSession = stored
  BY <1>3 DEF Phase, CurrentSession
<1> QED
  BY <1>6, <1>9, <1>10 DEF Exclusive!Lend

(* Releasing a stored session closes the slot. *)
LEMMA ReleaseStoredRefinesClose ==
    ASSUME IInv, ReleaseStored
    PROVE  Exclusive!Close
<1> USE DEF TakeStored
<1>1. /\ inFlightLease = None /\ inFlightLease' = None
      /\ stored # NoSession /\ stored' = NoSession
      /\ generation # None /\ generation' = None /\ callers' = callers
  BY DEF ReleaseStored, IInv, BusyHasOneOwner
<1>2. StaleCallers = callers /\ StaleCallers' = callers'
  BY <1>1 DEF IInv, IssuedIds, StaleCallers, Current, None
<1>3. Orphans' = Orphans
  BY <1>1, <1>2 DEF Orphans
<1>4. \A c \in callers' : ~Current(c)'
  BY <1>2 DEF StaleCallers
<1>5. Phase = "stored" /\ Phase' = "idle" /\ CurrentSession' = NoSession
  BY <1>1, <1>4 DEF Phase, CurrentSession
<1> QED
  BY <1>3, <1>5 DEF Exclusive!Close

(* Aborting an operation in flight dooms it, once. *)
LEMMA AbortInFlightRefinesDoom ==
    ASSUME IInv, AbortInFlight
    PROVE  Exclusive!Doom \/ UNCHANGED Exclusive!vars
<1>1. PICK c \in callers : Current(c)
  BY DEF AbortInFlight, IInv, BusyHasOneOwner
<1>2. /\ stored' = stored /\ generation' = generation /\ callers' = callers
      /\ inFlightLease' = inFlightLease /\ cancellationRequested' = TRUE
  BY DEF AbortInFlight
<1>3. StaleCallers' = StaleCallers
  BY <1>2 DEF StaleCallers, Current
<1>4. Orphans' = Orphans
  BY <1>3 DEF Orphans
<1>5. CurrentSession' = CurrentSession
  BY <1>2 DEF CurrentSession, Current
<1>6. Phase' = "doomed" /\ Phase \in {"lent", "doomed"}
  BY <1>1, <1>2, CurrentCallerHoldsSession DEF Phase
<1> QED
  BY <1>4, <1>5, <1>6 DEF Exclusive!Doom, Exclusive!vars

(* Detaching the operation in flight turns its session into an orphan. *)
LEMMA DetachInFlightRefinesDetach ==
    ASSUME IInv, DetachInFlight
    PROVE  Exclusive!Detach
<1> USE DEF None
<1>1. PICK c \in callers : Current(c)
  BY DEF DetachInFlight, IInv, BusyHasOneOwner
<1>2. /\ stored' = stored /\ generation' = None /\ callers' = callers
      /\ inFlightLease' = None
  BY DEF DetachInFlight
<1>3. /\ CurrentSession = c.session /\ stored = NoSession
      /\ Phase \in {"lent", "doomed"}
  BY <1>1, CurrentCallerHoldsSession
<1>4. \A d \in callers : ~Current(d)'
  BY <1>2 DEF IInv, IssuedIds, Current
<1>5. StaleCallers' = StaleCallers \cup {c}
  BY <1>1, <1>2, <1>4 DEF StaleCallers, IInv, UniqueLeases, Current
<1>6. Orphans' = Orphans \cup {CurrentSession}
  BY <1>3, <1>5 DEF Orphans
<1>7. Phase' = "idle" /\ CurrentSession' = NoSession
  BY <1>2, <1>3, <1>4 DEF Phase, CurrentSession
<1> QED
  BY <1>3, <1>6, <1>7 DEF Exclusive!Detach

(* A stale completion drops an orphan; a current one returns the session   *)
(* to the slot or closes it.                                               *)
LEMMA CompleteRefines ==
    ASSUME IInv, NEW c \in callers, NEW action \in CompletionAction,
           Complete(c, action)
    PROVE  Exclusive!Next
<1> USE NoSessionIsNoSession DEF None
<1>1. c.session \in Session
  BY DEF IInv, TypeOK, Caller
<1>2. callers' = callers \ {c}
  BY DEF Complete
<1>3. CASE CompleteStale(c)
  <2>1. UNCHANGED <<stored, generation, inFlightLease, cancellationRequested>>
    BY <1>3 DEF CompleteStale, ownerVars
  <2>2. StaleCallers' = StaleCallers \ {c} /\ c \in StaleCallers
    BY <1>2, <1>3, <2>1 DEF StaleCallers, Current, CompleteStale
  <2>3. Orphans' = Orphans \ {c.session} /\ c.session \in Orphans
    BY <2>2 DEF Orphans, StaleCallers, IInv, ExclusiveOwner
  <2>4. {d \in callers' : Current(d)'} = {d \in callers : Current(d)}
    BY <1>2, <1>3, <2>1 DEF Current, CompleteStale
  <2>5. CurrentSession' = CurrentSession
    <3>1. CASE \E d \in callers : Current(d)
      <4>1. PICK d \in callers : Current(d)
        BY <3>1
      <4>2. d \in callers' /\ Current(d)'
        BY <2>4, <4>1
      <4>3. IInv'
        BY CompletePreservesIInv
      <4>4. \A e \in callers : Current(e) => e = d
        BY <4>1 DEF IInv, UniqueLeases, Current
      <4>5. \A e \in callers' : Current(e)' => e = d
        BY <4>2, <4>3 DEF IInv, UniqueLeases, Current
      <4> QED
        BY <2>1, <4>1, <4>2, <4>4, <4>5 DEF CurrentSession
    <3>2. CASE ~\E d \in callers : Current(d)
      BY <2>1, <2>4, <3>2 DEF CurrentSession
    <3> QED
      BY <3>1, <3>2
  <2>6. Phase' = Phase
    BY <2>1 DEF Phase
  <2>7. Exclusive!DropOrphan(c.session)
    BY <2>3, <2>5, <2>6 DEF Exclusive!DropOrphan
  <2> QED
    BY <1>1, <2>7 DEF Exclusive!Next
<1>4. CASE Current(c) /\ ~CompleteStale(c)
  <2>1. /\ CurrentSession = c.session /\ stored = NoSession
        /\ generation # None
        /\ Phase = IF cancellationRequested THEN "doomed" ELSE "lent"
    BY <1>4, CurrentCallerHoldsSession
  <2>2. inFlightLease' = None
    BY <1>4 DEF Complete, CompleteCancelled, CompleteRestore, CompleteFinish
  <2>3. \A d \in callers' : ~Current(d)'
    BY <1>2, <2>2 DEF IInv, IssuedIds, Current
  <2>4. StaleCallers' = StaleCallers
    BY <1>2, <1>4, <2>3 DEF StaleCallers, IInv, UniqueLeases, Current
  <2>5. Orphans' = Orphans
    BY <2>4 DEF Orphans
  <2>6. CASE CompleteRestore(c)
    <3>1. /\ Phase = "lent" /\ Phase' = "stored"
          /\ CurrentSession' = CurrentSession
      BY <1>1, <2>1, <2>6 DEF CompleteRestore, Phase, CurrentSession
    <3>2. Exclusive!Return
      BY <2>5, <3>1 DEF Exclusive!Return
    <3> QED
      BY <3>2 DEF Exclusive!Next
  <2>7. CASE CompleteCancelled(c) \/ CompleteFinish(c)
    <3>1. stored' = NoSession /\ generation' = None
      BY <2>1, <2>7 DEF CompleteCancelled, CompleteFinish
    <3>2. Phase # "idle" /\ Phase' = "idle" /\ CurrentSession' = NoSession
      BY <2>1, <2>3, <3>1 DEF Phase, CurrentSession
    <3>3. Exclusive!Close
      BY <2>5, <3>2 DEF Exclusive!Close
    <3> QED
      BY <3>3 DEF Exclusive!Next
  <2> QED
    BY <1>4, <2>6, <2>7 DEF Complete
<1> QED
  BY <1>3, <1>4 DEF Complete, CompleteCancelled, CompleteRestore, CompleteFinish

(* Every step of the owner is a step of the slot, or leaves it alone. *)
LEMMA NextRefines == IInv /\ [Next]_vars => [Exclusive!Next]_Exclusive!vars
<1> SUFFICES ASSUME IInv, [Next]_vars PROVE [Exclusive!Next]_Exclusive!vars
  OBVIOUS
<1>1. ASSUME NEW s \in Session, Begin(s) PROVE Exclusive!Next
  BY <1>1, BeginRefinesOpen DEF Exclusive!Next
<1>2. CASE Acquire
  BY <1>2, AcquireRefinesLend DEF Exclusive!Next
<1>3. CASE Abort
  BY <1>3, AbortInFlightRefinesDoom, ReleaseStoredRefinesClose
     DEF Abort, Exclusive!Next
<1>4. CASE CancelAndRelease
  BY <1>4, DetachInFlightRefinesDetach, ReleaseStoredRefinesClose
     DEF CancelAndRelease, Exclusive!Next
<1>5. ASSUME NEW c \in callers, NEW action \in CompletionAction,
              Complete(c, action)
      PROVE  Exclusive!Next
  BY <1>5, CompleteRefines
<1>6. CASE UNCHANGED vars
  BY <1>6 DEF vars, ownerVars, Exclusive!vars, Phase, CurrentSession, Orphans,
              StaleCallers, Current
<1> QED
  BY <1>1, <1>2, <1>3, <1>4, <1>5, <1>6 DEF Next

(* AsyncSessionOwner implements the exclusive session slot. *)
THEOREM OwnerImplementsExclusiveSession == Spec => ImplementsExclusiveSession
<1>1. Init => Exclusive!Init
  BY DEF Init, Exclusive!Init, Phase, CurrentSession, Orphans, StaleCallers
<1>2. IInv /\ [Next]_vars => [Exclusive!Next]_Exclusive!vars
  BY NextRefines
<1> QED
  BY <1>1, <1>2, InductiveInvariant, PTL
     DEF Spec, Exclusive!Spec, ImplementsExclusiveSession
=============================================================================

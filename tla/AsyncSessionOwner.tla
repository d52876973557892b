------------------------- MODULE AsyncSessionOwner -------------------------
(***************************************************************************)
(* AsyncSessionOwner<T> of pvlc-runtime-web/src/lib.rs: the cell that every *)
(* browser session authority uses to move its session between synchronous  *)
(* calls and one asynchronous operation.  The owner hands the session out  *)
(* with a lease (acquire), takes it back or drops it (complete), and can   *)
(* be aborted or detached while the session is out.                        *)
(*                                                                         *)
(* Callers that hold a lease are the set `callers`; they run concurrently, *)
(* and each of them calls complete exactly once, at a time of its own.     *)
(* Rejected calls (Busy, NoStoredSession, overflow, AlreadyIdle) change    *)
(* nothing and are the steps the guards exclude.                           *)
(***************************************************************************)
EXTENDS Naturals

CONSTANTS Session,      \* the payload objects
          NoSession,    \* an empty `stored`
          CounterMax    \* u64::MAX, the last generation and lease identifier

ASSUME NoSessionIsNoSession == NoSession \notin Session
ASSUME CounterMaxIsNat == CounterMax \in Nat

VARIABLES
    stored,                 \* the payload held by the owner, or NoSession
    generation,             \* the open generation, or None
    inFlightLease,          \* the lease of the operation in flight, or None
    cancellationRequested,
    lastGeneration,
    lastLease,
    callers,                \* the leases handed out and not yet completed
    bornIn,                 \* history: the generation each session was begun in
    cancelled               \* history: leases aborted while they were in flight

ownerVars == <<stored, generation, inFlightLease, cancellationRequested,
               lastGeneration, lastLease>>
vars == <<ownerVars, callers, bornIn, cancelled>>

(* Option::None of an identifier: the counters start at 0 and are          *)
(* incremented before use, so that identifiers are 1..CounterMax.          *)
None == 0
Id == 0..CounterMax
Caller == [generation : Id, lease : Id, session : Session]

(* A session some caller holds. *)
Lent == {c.session : c \in callers}

(* checked_add(1) of an identifier counter succeeds.                       *)
(* Mutant: an unchecked increment.                                         *)
CanIssueUnchecked(counter) == counter <= CounterMax
CanIssue(counter) == counter < CounterMax

(* complete()'s staleness test: c holds the lease of the operation in      *)
(* flight in the open generation.                                          *)
(* Mutant: any completion is accepted while the owner is busy.             *)
CurrentIfBusy(c) == generation # None
Current(c) == generation = c.generation /\ inFlightLease = c.lease

Init ==
    /\ stored = NoSession
    /\ generation = None
    /\ inFlightLease = None
    /\ cancellationRequested = FALSE
    /\ lastGeneration = 0
    /\ lastLease = 0
    /\ callers = {}
    /\ bornIn = [s \in Session |-> None]
    /\ cancelled = {}
-----------------------------------------------------------------------------
(* begin: store a new payload under the next generation, unless one is     *)
(* open or the generation counter would overflow.                          *)
Begin(s) ==
    /\ s # stored /\ s \notin Lent          \* a new object
    /\ generation = None
    /\ CanIssue(lastGeneration)
    /\ lastGeneration' = lastGeneration + 1
    /\ generation' = lastGeneration + 1
    /\ stored' = s
    /\ bornIn' = [bornIn EXCEPT ![s] = lastGeneration + 1]
    /\ UNCHANGED <<inFlightLease, cancellationRequested, lastLease, callers,
                   cancelled>>

(* Option::take of the stored payload.                                     *)
(* Mutant: the owner keeps what it hands out.                              *)
KeepStored == UNCHANGED stored
TakeStored == stored' = NoSession

(* Mutant of acquire: a cancellation of an earlier operation survives. *)
AcquireKeepingCancellation ==
    /\ CanIssue(lastLease)
    /\ generation # None
    /\ stored # NoSession
    /\ lastLease' = lastLease + 1
    /\ inFlightLease' = lastLease + 1
    /\ callers' = callers \cup {[generation |-> generation,
                                 lease |-> lastLease + 1,
                                 session |-> stored]}
    /\ TakeStored
    /\ UNCHANGED <<generation, cancellationRequested, lastGeneration, bornIn,
                   cancelled>>

(* acquire: move the stored payload to an asynchronous caller. *)
Acquire ==
    /\ CanIssue(lastLease)
    /\ generation # None
    /\ stored # NoSession
    /\ lastLease' = lastLease + 1
    /\ inFlightLease' = lastLease + 1
    /\ cancellationRequested' = FALSE
    /\ callers' = callers \cup {[generation |-> generation,
                                 lease |-> lastLease + 1,
                                 session |-> stored]}
    /\ TakeStored
    /\ UNCHANGED <<generation, lastGeneration, bornIn, cancelled>>

(* The branch abort and cancel_and_release share: nothing is in flight and *)
(* the stored payload is dropped with its generation.                      *)
ReleaseStored ==
    /\ inFlightLease = None
    /\ stored # NoSession
    /\ TakeStored
    /\ generation' = None
    /\ cancellationRequested' = FALSE
    /\ UNCHANGED <<inFlightLease, lastGeneration, lastLease, callers, bornIn,
                   cancelled>>

(* Mutant of abort: the operation in flight is not told. *)
AbortInFlightUnnoticed ==
    /\ inFlightLease # None
    /\ cancelled' = cancelled \cup {inFlightLease}
    /\ UNCHANGED <<ownerVars, callers, bornIn>>

(* abort with an operation in flight: the generation stays open until the  *)
(* operation completes.                                                    *)
AbortInFlight ==
    /\ inFlightLease # None
    /\ cancellationRequested' = TRUE
    /\ cancelled' = cancelled \cup {inFlightLease}
    /\ UNCHANGED <<stored, generation, inFlightLease, lastGeneration,
                   lastLease, callers, bornIn>>

Abort == AbortInFlight \/ ReleaseStored

(* cancel_and_release with an operation in flight: the owner is free at    *)
(* once and the caller keeps a payload it can only drop.                   *)
DetachInFlight ==
    /\ inFlightLease # None
    /\ cancellationRequested' = TRUE
    /\ generation' = None
    /\ inFlightLease' = None
    /\ cancelled' = cancelled \cup {inFlightLease}
    /\ UNCHANGED <<stored, lastGeneration, lastLease, callers, bornIn>>

CancelAndRelease == DetachInFlight \/ ReleaseStored

(* complete of a lease that is no longer current drops the payload. *)
CompleteStale(c) ==
    /\ ~Current(c)
    /\ UNCHANGED ownerVars

(* complete of a current lease: a requested cancellation wins over both    *)
(* completion actions.                                                     *)
CompleteCancelled(c) ==
    /\ Current(c)
    /\ cancellationRequested
    /\ inFlightLease' = None
    /\ cancellationRequested' = FALSE
    /\ generation' = None
    /\ UNCHANGED <<stored, lastGeneration, lastLease>>

(* Mutant: Restore wins over a requested cancellation. *)
CompleteRestoreAlways(c) ==
    /\ Current(c)
    /\ inFlightLease' = None
    /\ stored' = c.session
    /\ UNCHANGED <<generation, cancellationRequested, lastGeneration, lastLease>>

CompleteRestore(c) ==
    /\ Current(c)
    /\ ~cancellationRequested
    /\ inFlightLease' = None
    /\ stored' = c.session
    /\ UNCHANGED <<generation, cancellationRequested, lastGeneration, lastLease>>

CompleteFinish(c) ==
    /\ Current(c)
    /\ ~cancellationRequested
    /\ inFlightLease' = None
    /\ generation' = None
    /\ UNCHANGED <<stored, cancellationRequested, lastGeneration, lastLease>>

CompletionAction == {"restore", "finish"}

Complete(c, action) ==
    /\ c \in callers
    /\ callers' = callers \ {c}
    /\ UNCHANGED <<bornIn, cancelled>>
    /\ \/ CompleteStale(c)
       \/ CompleteCancelled(c)
       \/ action = "restore" /\ CompleteRestore(c)
       \/ action = "finish" /\ CompleteFinish(c)
-----------------------------------------------------------------------------
Next ==
    \/ \E s \in Session : Begin(s)
    \/ Acquire
    \/ Abort
    \/ CancelAndRelease
    \/ \E c \in callers, action \in CompletionAction : Complete(c, action)

Spec == Init /\ [][Next]_vars

(* Every asynchronous operation ends: WebGPU settles the promises it       *)
(* awaits.  Nothing forces a client to begin, acquire or abort.            *)
Fairness ==
    \A c \in Caller :
        WF_vars(\E action \in CompletionAction : Complete(c, action))

FairSpec == Spec /\ Fairness
-----------------------------------------------------------------------------
TypeOK ==
    /\ stored \in Session \cup {NoSession}
    /\ generation \in Id
    /\ inFlightLease \in Id
    /\ cancellationRequested \in BOOLEAN
    /\ lastGeneration \in Id
    /\ lastLease \in Id
    /\ callers \subseteq Caller
    /\ bornIn \in [Session -> Id]
    /\ cancelled \subseteq Id

(* A payload never has two owners: the owner does not keep what it lent,   *)
(* and two leases never carry the same payload ("the payload always has    *)
(* exactly one owner", lib.rs:573).                                        *)
ExclusiveOwner ==
    /\ \A c \in callers : c.session # stored
    /\ \A c, d \in callers : c.session = d.session => c = d

(* The owner is busy exactly while its generation's payload exists: it is  *)
(* stored, or out with the one caller whose completion will be accepted.   *)
(* Otherwise begin would be refused for ever, or would overwrite a live    *)
(* session.                                                                *)
BusyHasOneOwner ==
    /\ generation = None => stored = NoSession /\ inFlightLease = None
    /\ generation # None => (stored = NoSession <=> \E c \in callers : Current(c))
    /\ stored # NoSession => inFlightLease = None

(* A payload stored in the owner belongs to the open generation: the late  *)
(* completion of a cancelled operation never puts its old payload into a   *)
(* newer generation (lib.rs:723-724).                                      *)
NoResurrection == stored # NoSession => bornIn[stored] = generation

(* The operation in flight is marked for cancellation exactly when it was  *)
(* itself aborted: neither lost, nor inherited from a detached operation   *)
(* of an earlier generation.                                               *)
CancellationIsOwn ==
    inFlightLease # None => (cancellationRequested <=> inFlightLease \in cancelled)

(* A generation whose operation was cancelled in flight is eventually      *)
(* closed, so that the client can begin another one.                       *)
CancelledGenerationCloses ==
    \A g \in 1..CounterMax :
        (generation = g /\ inFlightLease \in cancelled) ~> generation # g
-----------------------------------------------------------------------------
(* The refinement mapping to the promise of the owner. *)
CurrentSession ==
    IF stored # NoSession THEN stored
    ELSE IF \E c \in callers : Current(c)
         THEN (CHOOSE c \in callers : Current(c)).session
         ELSE NoSession

Phase ==
    IF generation = None THEN "idle"
    ELSE IF stored # NoSession THEN "stored"
    ELSE IF cancellationRequested THEN "doomed" ELSE "lent"

(* The callers whose completion will be stale. *)
StaleCallers == {c \in callers : ~Current(c)}
Orphans == {c.session : c \in StaleCallers}

Exclusive == INSTANCE ExclusiveSession
                 WITH phase <- Phase, current <- CurrentSession, orphans <- Orphans

(* The owner implements the exclusive session slot. *)
ImplementsExclusiveSession == Exclusive!Spec
=============================================================================

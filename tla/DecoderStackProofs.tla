------------------------- MODULE DecoderStackProofs -------------------------
(***************************************************************************)
(* Proofs about DecoderStackSession, for any number of pending operations, *)
(* sessions, checkpoints and descriptors, and clients that do not await.   *)
(* Its leases, its poisoned sessions and its cache: the tokens a session   *)
(* counts are the rows its GPU cache holds, and a readout reads the row    *)
(* that was written last.                                                  *)
(* What is proved of its owner comes from AsyncSessionOwnerProofs.         *)
(***************************************************************************)
EXTENDS DecoderStackSession, FiniteSetTheorems, SequenceTheorems, TLAPS

Proved == INSTANCE AsyncSessionOwnerProofs

(* Operations and sessions are records with their fields: what these hold  *)
(* does not matter but for those named below.                              *)
OpFields == {"pc", "kind", "held", "left", "dirty", "plan", "key", "pack",
             "candidate", "fromPrefill"}
SessionFields == {"plan", "ready", "poisoned", "tokens", "rows", "wrote",
                  "sound"}
Shape ==
    /\ DOMAIN op = Op /\ \A o \in Op : DOMAIN op[o] = OpFields
    /\ DOMAIN sessions = Session
    /\ \A s \in Session : DOMAIN sessions[s] = SessionFields

(* Every operation but a begin holds a lease of its own.                   *)
HoldsLease(x) == x.kind \notin {"none", "begin"}
Sane(x) ==
    /\ x.kind = "none" <=> x.pc = "settled"
    /\ x.pc = "beginDrain" => x.kind = "begin"
    /\ x.pc = "gpu" => x.kind # "begin"
    /\ ~HoldsLease(x) => x.held.lease = 0
OpsHold ==
    /\ \A o \in Op : Sane(op[o])
    /\ \A o \in Op : HoldsLease(op[o]) => op[o].held \in callers
    /\ \A o, p \in Op : HoldsLease(op[o]) /\ op[o].held = op[p].held => o = p

Inv == Proved!IInv /\ Shape /\ OpsHold /\ LeasesArePending
-----------------------------------------------------------------------------
(* The owner.                                                              *)

LEMMA OwnerKept ==
    ASSUME Proved!IInv, UNCHANGED ownerVars PROVE Proved!IInv'
<1>1. UNCHANGED Proved!vars
  BY DEF ownerVars, Proved!vars, Proved!ownerVars
<1> QED
  BY <1>1, Proved!NextPreservesIInv,
     NoSessionIsNoSession, CounterMaxIsNat

LEMMA OwnerBegins ==
    ASSUME Proved!IInv, NEW s \in Session, Owner!Begin(s) PROVE Proved!IInv'
<1>1. Proved!Begin(s)
  BY DEF Proved!Begin, Owner!Begin, Proved!CanIssue, Owner!CanIssue,
         Proved!Lent, Owner!Lent, Proved!None, Owner!None
<1> QED
  BY <1>1, Proved!BeginPreservesIInv,
     NoSessionIsNoSession, CounterMaxIsNat

LEMMA OwnerAcquires == ASSUME Proved!IInv, Owner!Acquire PROVE Proved!IInv'
<1>1. Proved!Acquire
  BY DEF Proved!Acquire, Owner!Acquire, Proved!CanIssue, Owner!CanIssue,
         Proved!None, Owner!None, Proved!TakeStored, Owner!TakeStored
<1> QED
  BY <1>1, Proved!AcquirePreservesIInv,
     NoSessionIsNoSession, CounterMaxIsNat

LEMMA OwnerReleases ==
    ASSUME Proved!IInv, Owner!CancelAndRelease PROVE Proved!IInv'
<1>1. Proved!ReleaseStored \/ Proved!DetachInFlight
  BY DEF Owner!CancelAndRelease, Owner!ReleaseStored, Owner!DetachInFlight,
         Proved!ReleaseStored, Proved!DetachInFlight, Owner!None, Proved!None,
         Owner!TakeStored, Proved!TakeStored
<1> QED
  BY <1>1, Proved!ReleaseStoredPreservesIInv, Proved!DetachInFlightPreservesIInv,
     NoSessionIsNoSession, CounterMaxIsNat

LEMMA OwnerCompletes ==
    ASSUME Proved!IInv, NEW c, NEW action \in {"restore", "finish"},
           Owner!Complete(c, action)
    PROVE  Proved!IInv'
<1>1. Proved!Complete(c, action) /\ c \in callers
  BY DEF Owner!Complete, Owner!CompleteStale, Owner!CompleteCancelled,
         Owner!CompleteRestore, Owner!CompleteFinish, Owner!Current,
         Owner!ownerVars, Owner!None, Proved!Complete, Proved!CompleteStale,
         Proved!CompleteCancelled, Proved!CompleteRestore,
         Proved!CompleteFinish, Proved!Current, Proved!ownerVars, Proved!None
<1>2. action \in Proved!CompletionAction
  BY DEF Proved!CompletionAction
<1> QED
  BY <1>1, <1>2, Proved!CompletePreservesIInv,
     NoSessionIsNoSession, CounterMaxIsNat

(* What the other lemmas use of it.                                        *)
LEMMA OwnerFacts ==
    ASSUME Proved!IInv
    PROVE  /\ stored \in Session \union {NoSession} /\ lastLease \in Nat
           /\ \A c \in callers : /\ c.lease \in 1..lastLease
                                 /\ c.session \in Session /\ c.session # stored
           /\ generation = 0 => stored = NoSession /\ inFlightLease = 0
           /\ stored # NoSession => inFlightLease = 0
  BY NoSessionIsNoSession, CounterMaxIsNat
  DEF Proved!IInv, Proved!TypeOK, Proved!IssuedIds, Proved!ExclusiveOwner,
         Proved!BusyHasOneOwner, Proved!Id, Proved!Caller, Proved!None

(* A rejected call issues a lease that nobody holds.                       *)
LEMMA OwnerRejects ==
    ASSUME Proved!IInv,
           stored # NoSession, Owner!CanIssue(lastLease),
           lastLease' = lastLease + 1, cancellationRequested' = FALSE,
           UNCHANGED <<stored, generation, inFlightLease, lastGeneration,
                       callers, bornIn, cancelled>>
    PROVE  Proved!IInv'
<1> USE DEF Proved!IInv, Proved!None
<1>1. inFlightLease = 0
  BY OwnerFacts
<1>2. Proved!TypeOK'
  <2>1. lastLease' \in Proved!Id
    BY CounterMaxIsNat DEF Proved!TypeOK, Proved!Id, Owner!CanIssue
  <2>2. cancellationRequested' \in BOOLEAN
    OBVIOUS
  <2> QED
    BY <2>1, <2>2 DEF Proved!TypeOK
<1>3. Proved!IssuedIds'
  BY DEF Proved!TypeOK, Proved!Id, Proved!IssuedIds, Proved!Caller
<1>4. Proved!UniqueLeases' /\ Proved!ExclusiveOwner' /\ Proved!NoResurrection'
  BY DEF Proved!UniqueLeases, Proved!ExclusiveOwner, Proved!NoResurrection
<1>5. Proved!CallersKeepTheirGeneration'
  BY DEF Proved!CallersKeepTheirGeneration
<1>6. Proved!BusyHasOneOwner'
  BY DEF Proved!BusyHasOneOwner, Proved!Current
<1>7. Proved!CancellationIsOwn'
  BY <1>1 DEF Proved!CancellationIsOwn
<1> QED
  BY <1>2, <1>3, <1>4, <1>5, <1>6, <1>7
-----------------------------------------------------------------------------
(* Operations that go on, settle or start.                                 *)

LEMMA OpGoesOn ==
    ASSUME Inv, NEW o \in Op, NEW x, DOMAIN x = OpFields, Sane(x),
           HoldsLease(x) <=> HoldsLease(op[o]),
           HoldsLease(x) => x.held = op[o].held,
           op' = [op EXCEPT ![o] = x], UNCHANGED callers
    PROVE  (OpsHold /\ LeasesArePending)'
<1> USE DEF Inv, Shape
<1>1. op'[o] = x /\ \A p \in Op \ {o} : op'[p] = op[p]
  OBVIOUS
<1>2. \A c \in callers : c.lease # 0
  BY OwnerFacts
<1>3. \A p, q \in Op : HoldsLease(op[p]) /\ ~HoldsLease(op[q]) =>
                        op[p].held # op[q].held
  BY <1>2 DEF OpsHold, Sane
<1>4. HoldsLease(x) <=> HoldsLease(op[o])
  OBVIOUS
<1>5. HoldsLease(op'[o]) => op'[o].held = op[o].held
  BY <1>1
<1>6. OpsHold'
  <2>1. \A p \in Op : Sane(op'[p])
    BY <1>1 DEF OpsHold
  <2>2. \A p \in Op : HoldsLease(op'[p]) => op'[p].held \in callers
    BY <1>1 DEF OpsHold, HoldsLease
  <2>3. ASSUME NEW p \in Op, NEW q \in Op, HoldsLease(op'[p]),
               op'[p].held = op'[q].held
        PROVE  p = q
    <3>1. CASE HoldsLease(op'[q])
      BY <2>3, <3>1, <1>1, <1>4, <1>5 DEF OpsHold
    <3>2. CASE ~HoldsLease(op'[q])
      <4>1. op'[p].held \in callers
        BY <2>2, <2>3
      <4>2. op'[q].held.lease = 0
        BY <2>1, <3>2 DEF Sane
      <4> QED
        BY <2>3, <4>1, <4>2, <1>2
    <3> QED
      BY <3>1, <3>2
  <2> QED
    BY <2>1, <2>2, <2>3 DEF OpsHold
<1>7. LeasesArePending'
  <2> SUFFICES ASSUME NEW c \in callers PROVE \E p \in Op : c = op'[p].held
    BY DEF LeasesArePending
  <2>1. PICK p \in Op : c = op[p].held
    BY DEF LeasesArePending
  <2>2. HoldsLease(op[p])
    BY <2>1, <1>2 DEF OpsHold, Sane
  <2> QED
    BY <2>1, <2>2, <1>1, <1>4, <1>5
<1> QED
  BY <1>6, <1>7

LEMMA OpAcquires ==
    ASSUME Inv, NEW o \in Op, op[o].pc = "settled",
           NEW x, DOMAIN x = OpFields, Sane(x), HoldsLease(x),
           x.held.lease = lastLease + 1, callers' = callers \union {x.held},
           op' = [op EXCEPT ![o] = x]
    PROVE  (OpsHold /\ LeasesArePending)'
<1> USE DEF Inv, Shape
<1>1. op'[o] = x /\ \A p \in Op \ {o} : op'[p] = op[p]
  OBVIOUS
<1>2. /\ \A c \in callers : c.lease # 0 /\ c.lease # lastLease + 1
      /\ lastLease + 1 # 0
  BY OwnerFacts
<1>3. ~HoldsLease(op[o])
  BY DEF OpsHold, Sane, HoldsLease
<1>4. \A p \in Op \ {o} : op[p].held # x.held
  <2> SUFFICES ASSUME NEW p \in Op \ {o} PROVE op[p].held.lease # x.held.lease
    OBVIOUS
  <2>1. CASE HoldsLease(op[p])
    BY <2>1, <1>2 DEF OpsHold
  <2>2. CASE ~HoldsLease(op[p])
    BY <2>2, <1>2 DEF OpsHold, Sane
  <2> QED
    BY <2>1, <2>2
<1>5. \A p \in Op : Sane(op'[p])
  BY <1>1 DEF OpsHold
<1>6. \A p \in Op : HoldsLease(op'[p]) => op'[p].held \in callers'
  BY <1>1 DEF OpsHold
<1>7. ASSUME NEW p \in Op, NEW q \in Op, HoldsLease(op'[p]),
             op'[p].held = op'[q].held
      PROVE  p = q
  <2>1. CASE p = o
    BY <1>7, <2>1, <1>1, <1>4
  <2>2. CASE q = o
    BY <1>7, <2>2, <1>1, <1>4
  <2>3. CASE p # o /\ q # o
    BY <1>7, <2>3, <1>1 DEF OpsHold
  <2> QED
    BY <2>1, <2>2, <2>3
<1>8. LeasesArePending'
  <2> SUFFICES ASSUME NEW c \in callers' PROVE \E p \in Op : c = op'[p].held
    BY DEF LeasesArePending
  <2>1. CASE c = x.held
    BY <2>1, <1>1
  <2>2. CASE c \in callers
    <3>1. PICK p \in Op : c = op[p].held
      BY <2>2 DEF LeasesArePending
    <3>2. p # o
      BY <2>2, <3>1, <1>2, <1>3 DEF OpsHold, Sane
    <3> QED
      BY <3>1, <3>2, <1>1
  <2> QED
    BY <2>1, <2>2
<1> QED
  BY <1>5, <1>6, <1>7, <1>8 DEF OpsHold

LEMMA SettledIsSettled ==
    /\ DOMAIN Settled = OpFields /\ Sane(Settled) /\ ~HoldsLease(Settled)
    /\ Settled.held = Unheld /\ Settled.pc = "settled" /\ Settled.kind = "none"
    /\ Unheld.lease = 0
  BY DEF Settled, Unheld, OpFields, Sane, HoldsLease

LEMMA OpCompletes ==
    ASSUME Inv, NEW o \in Op, op[o].held \in callers,
           callers' = callers \ {op[o].held},
           op' = [op EXCEPT ![o] = Settled]
    PROVE  (OpsHold /\ LeasesArePending)'
<1> USE DEF Inv, Shape
<1>1. op'[o] = Settled /\ \A p \in Op \ {o} : op'[p] = op[p]
  OBVIOUS
<1>2. \A c \in callers : c.lease # 0
  BY OwnerFacts
<1>3. HoldsLease(op[o])
  BY <1>2 DEF OpsHold, Sane
<1>4. \A p \in Op : HoldsLease(op'[p]) => p # o
  BY <1>1, SettledIsSettled
<1>5. \A p \in Op : Sane(op'[p])
  BY <1>1, SettledIsSettled DEF OpsHold
<1>6. \A p \in Op : HoldsLease(op'[p]) => op'[p].held \in callers'
  BY <1>1, <1>4 DEF OpsHold
<1>7. ASSUME NEW p \in Op, NEW q \in Op, HoldsLease(op'[p]),
             op'[p].held = op'[q].held
      PROVE  p = q
  <2>1. op'[p].held \in callers /\ op'[p] = op[p]
    BY <1>1, <1>4, <1>6, <1>7
  <2>2. q # o
    BY <1>1, <1>2, <1>7, <2>1, SettledIsSettled
  <2> QED
    BY <1>1, <1>7, <2>1, <2>2 DEF OpsHold
<1>8. LeasesArePending'
  <2> SUFFICES ASSUME NEW c \in callers' PROVE \E p \in Op : c = op'[p].held
    BY DEF LeasesArePending
  <2>1. PICK p \in Op : c = op[p].held
    BY DEF LeasesArePending
  <2>2. p # o
    BY <2>1
  <2> QED
    BY <2>1, <2>2, <1>1
<1> QED
  BY <1>5, <1>6, <1>7, <1>8 DEF OpsHold
-----------------------------------------------------------------------------
(* Steps.                                                                  *)

(* What a step may do with a poisoned session (see PoisonIsTerminal).      *)
Terminal ==
    (stored # NoSession /\ sessions[stored].poisoned) =>
        \/ stored' = stored /\ sessions'[stored].poisoned
        \/ generation' = 0 /\ stored' = NoSession /\ inFlightLease' = 0

(* One session, if s is one, changes: not the stored one, or it stays      *)
(* poisoned.                                                               *)
Touches(s, y) ==
    /\ sessions' = [sessions EXCEPT ![s] = y]
    /\ s \in Session =>
          /\ DOMAIN y = SessionFields
          /\ s = stored => (sessions[s].poisoned => y.poisoned)

LEMMA SessionTouched ==
    ASSUME Shape, NEW s, NEW y, Touches(s, y)
    PROVE  /\ DOMAIN sessions' = Session
           /\ \A q \in Session : DOMAIN sessions'[q] = SessionFields
           /\ stored \in Session \union {NoSession} /\ UNCHANGED stored => Terminal
  BY DEF Shape, Touches, Terminal

LEMMA ShapeKept ==
    ASSUME Shape, NEW o \in Op, NEW x, DOMAIN x = OpFields,
           op' = [op EXCEPT ![o] = x],
           \/ UNCHANGED sessions
           \/ \E s, y : Touches(s, y)
    PROVE  Shape'
<1>1. DOMAIN op' = Op /\ \A p \in Op : DOMAIN op'[p] = OpFields
  BY DEF Shape
<1>2. /\ DOMAIN sessions' = Session
      /\ \A q \in Session : DOMAIN sessions'[q] = SessionFields
  BY SessionTouched DEF Shape
<1> QED
  BY <1>1, <1>2 DEF Shape

LEMMA StoredIsSession ==
    ASSUME Inv PROVE stored \in Session \union {NoSession}
  BY OwnerFacts DEF Inv

(* A step of one operation that leaves the owner alone.                    *)
LEMMA Step ==
    ASSUME Inv, NEW o \in Op, NEW x, DOMAIN x = OpFields, Sane(x),
           HoldsLease(x) <=> HoldsLease(op[o]),
           HoldsLease(x) => x.held = op[o].held,
           op' = [op EXCEPT ![o] = x], UNCHANGED ownerVars,
           \/ UNCHANGED sessions
           \/ \E s, y : Touches(s, y)
    PROVE  Inv' /\ Terminal
<1>1. Proved!IInv'
  BY OwnerKept DEF Inv
<1>2. UNCHANGED <<callers, stored>>
  BY DEF ownerVars
<1>3. (OpsHold /\ LeasesArePending)'
  BY <1>2, OpGoesOn
<1>4. Shape'
  BY ShapeKept DEF Inv
<1>5. Terminal
  <2>1. CASE UNCHANGED sessions
    BY <2>1, <1>2 DEF Terminal
  <2>2. ASSUME NEW s, NEW y, Touches(s, y) PROVE Terminal
    BY <2>2, <1>2, SessionTouched, StoredIsSession DEF Inv
  <2> QED
    BY <2>1, <2>2
<1> QED
  BY <1>1, <1>3, <1>4, <1>5 DEF Inv

(* The session of a lease that is out is not the stored one.               *)
LEMMA HeldSession ==
    ASSUME Inv, NEW o \in Op, HoldsLease(op[o])
    PROVE  /\ op[o].held \in callers /\ op[o].held.lease # 0
           /\ SessionOf(o) \in Session /\ SessionOf(o) # stored
<1>1. op[o].held \in callers
  BY DEF Inv, OpsHold
<1> QED
  BY <1>1, OwnerFacts DEF Inv, SessionOf

LEMMA RunningHolds ==
    ASSUME Inv, NEW o \in Op, op[o].pc # "settled", op[o].kind # "begin"
    PROVE  HoldsLease(op[o])
  BY DEF Inv, OpsHold, Sane, HoldsLease

(* The operation goes on to pc, and another session may change.            *)
LEMMA GoesTo ==
    ASSUME Inv, NEW o \in Op, op[o].pc # "settled",
           NEW x, DOMAIN x = OpFields, x.kind = op[o].kind, x.held = op[o].held,
           x.pc # "settled", x.pc = "beginDrain" => x.kind = "begin",
           x.pc = "gpu" => x.kind # "begin",
           op' = [op EXCEPT ![o] = x], UNCHANGED ownerVars,
           \/ UNCHANGED sessions
           \/ \E s, y : Touches(s, y)
    PROVE  Inv' /\ Terminal
<1>1. Sane(op[o])
  BY DEF Inv, OpsHold
<1>2. Sane(x) /\ (HoldsLease(x) <=> HoldsLease(op[o]))
  BY <1>1 DEF Sane, HoldsLease
<1> QED
  BY <1>2, Step

LEMMA PopMoves ==
    ASSUME NEW o \in Op, NEW x, DOMAIN x = OpFields, NEW pc, NEW left, NEW stack,
           PopStarted(o, x, pc, left, stack)
    PROVE  \E y : /\ op' = [op EXCEPT ![o] = y] /\ DOMAIN y = OpFields
                  /\ y.pc = pc /\ y.kind = x.kind /\ y.held = x.held
                  /\ y.fromPrefill = x.fromPrefill
<1> DEFINE d == x.dirty \/ stack = <<>> \/ (stack # <<>> /\ stack[Len(stack)])
           y == [x EXCEPT !.pc = pc, !.left = left, !.dirty = d]
<1>1. op' = [op EXCEPT ![o] = y]
  BY Zenon DEF PopStarted
<1> HIDE DEF d
<1>2. /\ DOMAIN y = OpFields
      /\ y.pc = pc /\ y.kind = x.kind /\ y.held = x.held
      /\ y.fromPrefill = x.fromPrefill
  BY DEF OpFields
<1> HIDE DEF y
<1> QED
  BY <1>1, <1>2

LEMMA PopStep ==
    ASSUME Inv, NEW o \in Op, op[o].pc # "settled", NEW pc, NEW left, NEW stack,
           \/ pc \in {"failDrain", "okDrain", "staleDrain"}
           \/ pc = "beginDrain" /\ op[o].kind = "begin",
           PopStarted(o, op[o], pc, left, stack), UNCHANGED ownerVars,
           \/ UNCHANGED sessions
           \/ \E s, y : Touches(s, y)
    PROVE  Inv' /\ Terminal
<1>1. DOMAIN op[o] = OpFields
  BY DEF Inv, Shape
<1>2. PICK x : /\ op' = [op EXCEPT ![o] = x] /\ DOMAIN x = OpFields
               /\ x.pc = pc /\ x.kind = op[o].kind /\ x.held = op[o].held
  BY <1>1, PopMoves
<1> QED
  BY <1>2, GoesTo

(* A begin ends.                                                           *)
LEMMA BeginSettles ==
    ASSUME Inv, NEW o \in Op, op[o].kind = "begin",
           op' = [op EXCEPT ![o] = Settled], UNCHANGED ownerVars,
           \/ UNCHANGED sessions
           \/ \E s, y : Touches(s, y)
    PROVE  Inv' /\ Terminal
<1>1. ~HoldsLease(op[o])
  BY DEF HoldsLease
<1> QED
  BY <1>1, SettledIsSettled, Step
-----------------------------------------------------------------------------
(* The calls.                                                              *)

LEMMA BeginIsQueued ==
    ASSUME Inv, NEW o \in Op, op[o].pc = "settled",
           NEW x, DOMAIN x = OpFields, x.kind = "begin", x.held = Unheld,
           Queue(o, x), UNCHANGED ownerVars
    PROVE  Inv' /\ Terminal
<1> DEFINE y == [x EXCEPT !.pc = "queued"]
<1>1. /\ DOMAIN y = OpFields /\ y.kind = "begin" /\ y.held = Unheld
      /\ y.pc = "queued"
  BY DEF OpFields
<1>2. op' = [op EXCEPT ![o] = y] /\ UNCHANGED sessions
  BY DEF Queue
<1> HIDE DEF y
<1>3. Sane(y) /\ ~HoldsLease(y) /\ ~HoldsLease(op[o])
  BY <1>1, SettledIsSettled DEF Inv, OpsHold, Sane, HoldsLease
<1> QED
  BY <1>1, <1>2, <1>3, Step

LEMMA CallBeginKeepsInv ==
    ASSUME Inv, NEW o \in Op, NEW d \in Descriptor, NEW k \in Key \cup {NoKey},
           CallBegin(o, d, k)
    PROVE  Inv' /\ Terminal
<1> DEFINE x == [Settled EXCEPT !.kind = "begin", !.plan = d, !.key = k,
                                !.pack = TRUE]
<1>1. op[o].pc = "settled" /\ Queue(o, x) /\ UNCHANGED ownerVars
  BY DEF CallBegin, MayCall
<1>2. DOMAIN x = OpFields /\ x.kind = "begin" /\ x.held = Unheld
  BY DEF Settled, OpFields
<1> HIDE DEF x
<1> QED
  BY <1>1, <1>2, BeginIsQueued

LEMMA CallBeginResidentKeepsInv ==
    ASSUME Inv, NEW o \in Op, NEW d \in Descriptor, CallBeginResident(o, d)
    PROVE  Inv' /\ Terminal
<1> DEFINE x == [Settled EXCEPT !.kind = "begin", !.plan = d,
                                !.key = resident.key]
<1>1. op[o].pc = "settled" /\ Queue(o, x) /\ UNCHANGED ownerVars
  BY DEF CallBeginResident, MayCall
<1>2. DOMAIN x = OpFields /\ x.kind = "begin" /\ x.held = Unheld
  BY DEF Settled, OpFields
<1> HIDE DEF x
<1> QED
  BY <1>1, <1>2, BeginIsQueued

(* An operation takes the session, which is usable: it is not poisoned.    *)
LEMMA CallKeepsInv ==
    ASSUME Inv, NEW o \in Op, NEW x, DOMAIN x = OpFields,
           x.kind \in {"step", "prefill", "readout", "finish"}, Call(o, x)
    PROVE  Inv' /\ Terminal
<1> DEFINE held == [generation |-> generation, lease |-> lastLease + 1,
                    session |-> stored]
           y == [[x EXCEPT !.held = held] EXCEPT !.pc = "queued"]
<1>1. /\ op[o].pc = "settled" /\ Usable(stored) /\ Owner!Acquire
      /\ op' = [op EXCEPT ![o] = y] /\ UNCHANGED sessions
  BY DEF Call, MayCall, Queue
<1>2. held.lease = lastLease + 1 /\ callers' = callers \union {held}
  BY <1>1 DEF Owner!Acquire
<1> HIDE DEF held
<1>3. /\ DOMAIN y = OpFields /\ y.held = held /\ y.pc = "queued"
      /\ y.kind = x.kind
  BY DEF OpFields
<1> HIDE DEF y
<1>4. Sane(y) /\ HoldsLease(y)
  BY <1>3 DEF Sane, HoldsLease
<1>5. (OpsHold /\ LeasesArePending)'
  BY <1>1, <1>2, <1>3, <1>4, OpAcquires
<1>6. Proved!IInv'
  BY <1>1, OwnerAcquires DEF Inv
<1>7. Shape'
  BY <1>1, <1>3, ShapeKept DEF Inv
<1>8. Terminal
  BY <1>1 DEF Terminal, Usable
<1> QED
  BY <1>5, <1>6, <1>7, <1>8 DEF Inv

LEMMA CallsKeepInv ==
    ASSUME Inv, NEW o \in Op,
           CallStep(o) \/ CallPrefill(o) \/ CallReadout(o) \/ CallFinish(o)
    PROVE  Inv' /\ Terminal
<1>1. ASSUME NEW k \in {"step", "prefill", "finish"},
             Call(o, [Settled EXCEPT !.kind = k])
      PROVE  Inv' /\ Terminal
  <2> DEFINE x == [Settled EXCEPT !.kind = k]
  <2>1. DOMAIN x = OpFields /\ x.kind = k
    BY DEF Settled, OpFields
  <2>2. Call(o, x)
    BY <1>1
  <2> HIDE DEF x
  <2> QED
    BY <2>1, <2>2, CallKeepsInv
<1>2. ASSUME NEW b, Call(o, [Settled EXCEPT !.kind = "readout", !.fromPrefill = b])
      PROVE  Inv' /\ Terminal
  <2> DEFINE x == [Settled EXCEPT !.kind = "readout", !.fromPrefill = b]
  <2>1. DOMAIN x = OpFields /\ x.kind = "readout"
    BY DEF Settled, OpFields
  <2>2. Call(o, x)
    BY <1>2
  <2> HIDE DEF x
  <2> QED
    BY <2>1, <2>2, CallKeepsInv
<1>3. CASE CallStep(o)
  BY <1>1, <1>3 DEF CallStep
<1>4. CASE CallPrefill(o)
  BY <1>1, <1>4 DEF CallPrefill
<1>5. CASE CallReadout(o)
  BY <1>2, <1>5 DEF CallReadout
<1>6. CASE CallFinish(o)
  BY <1>1, <1>6 DEF CallFinish
<1> QED
  BY <1>3, <1>4, <1>5, <1>6

LEMMA RejectedCallKeepsInv ==
    ASSUME Inv, NEW o \in Op, RejectedCall(o) PROVE Inv' /\ Terminal
<1>1. /\ stored # NoSession /\ Owner!CanIssue(lastLease)
      /\ lastLease' = lastLease + 1 /\ cancellationRequested' = FALSE
      /\ UNCHANGED <<stored, generation, inFlightLease, lastGeneration, callers,
                     bornIn, cancelled, sessions, op>>
  BY DEF RejectedCall, Usable
<1>2. Proved!IInv'
  BY <1>1, OwnerRejects DEF Inv
<1>3. Shape' /\ OpsHold' /\ LeasesArePending'
  BY <1>1 DEF Inv, Shape, OpsHold, LeasesArePending
<1>4. Terminal
  BY <1>1 DEF Terminal
<1> QED
  BY <1>2, <1>3, <1>4 DEF Inv

(* A stored session is dropped with its generation; one that is out is not *)
(* stored.                                                                 *)
LEMMA AbortKeepsInv == ASSUME Inv, Abort PROVE Inv' /\ Terminal
<1>1. Owner!CancelAndRelease /\ Discard(stored) /\ UNCHANGED op
  BY DEF Abort
<1>2. Proved!IInv'
  BY <1>1, OwnerReleases DEF Inv
<1>3. UNCHANGED callers
  BY <1>1 DEF Owner!CancelAndRelease, Owner!ReleaseStored, Owner!DetachInFlight
<1>4. OpsHold' /\ LeasesArePending'
  BY <1>1, <1>3 DEF Inv, OpsHold, LeasesArePending
<1>5. DOMAIN Dropped = SessionFields
  BY DEF Dropped, SessionFields
<1>6. Shape'
  BY <1>1, <1>5 DEF Inv, Shape, Discard
<1>7. Terminal
  <2>1. stored # NoSession => inFlightLease = 0
    BY OwnerFacts DEF Inv
  <2> QED
    BY <1>1, <2>1 DEF Terminal, Owner!CancelAndRelease, Owner!ReleaseStored,
       Owner!DetachInFlight, Owner!None, Owner!TakeStored
<1> QED
  BY <1>2, <1>4, <1>6, <1>7 DEF Inv
-----------------------------------------------------------------------------
(* begin.                                                                  *)

LEMMA BeginFlags ==
    ASSUME NEW f, NEW s
    PROVE  /\ [f EXCEPT ![s].poisoned = TRUE]
                = [f EXCEPT ![s] = [f[s] EXCEPT !.poisoned = TRUE]]
           /\ [f EXCEPT ![s].ready = TRUE]
                = [f EXCEPT ![s] = [f[s] EXCEPT !.ready = TRUE]]
  BY Zenon

LEMMA FieldsKept ==
    ASSUME NEW x, DOMAIN x = SessionFields
    PROVE  /\ DOMAIN [x EXCEPT !.poisoned = TRUE] = SessionFields
           /\ [x EXCEPT !.poisoned = TRUE].poisoned
           /\ DOMAIN [x EXCEPT !.ready = TRUE] = SessionFields
           /\ [x EXCEPT !.ready = TRUE].poisoned = x.poisoned
  BY DEF SessionFields

LEMMA BeginEndsKeepInv ==
    ASSUME Inv, NEW o \in Op,
           BeginUnsupported(o) \/ BeginFailed(o) \/ BeginStale(o)
             \/ BeginPoisons(o) \/ BeginReady(o)
    PROVE  Inv' /\ Terminal
<1>1. op' = [op EXCEPT ![o] = Settled] /\ UNCHANGED ownerVars
  BY DEF BeginUnsupported, BeginFailed, BeginStale, BeginPoisons, BeginReady,
         BeginDrained
<1>2. op[o].kind = "begin"
  BY DEF BeginUnsupported, BeginFailed, BeginStale, BeginPoisons, BeginReady,
         BeginDrained, Inv, OpsHold, Sane
<1>3. \/ UNCHANGED sessions
      \/ sessions' = [sessions EXCEPT ![stored].poisoned = TRUE]
      \/ sessions' = [sessions EXCEPT ![stored].ready = TRUE]
  BY DEF BeginUnsupported, BeginFailed, BeginStale, BeginPoisons, BeginReady
<1>4. stored \in Session => DOMAIN sessions[stored] = SessionFields
  BY DEF Inv, Shape
<1>5. \/ UNCHANGED sessions
      \/ \E s, y : Touches(s, y)
  <2>1. CASE sessions' = [sessions EXCEPT ![stored].poisoned = TRUE]
    <3> DEFINE y == [sessions[stored] EXCEPT !.poisoned = TRUE]
    <3>1. sessions' = [sessions EXCEPT ![stored] = y]
      BY <2>1, BeginFlags, Zenon
    <3>2. stored \in Session => DOMAIN y = SessionFields /\ y.poisoned
      BY <1>4, FieldsKept
    <3> HIDE DEF y
    <3> QED
      BY <3>1, <3>2 DEF Touches
  <2>2. CASE sessions' = [sessions EXCEPT ![stored].ready = TRUE]
    <3> DEFINE y == [sessions[stored] EXCEPT !.ready = TRUE]
    <3>1. sessions' = [sessions EXCEPT ![stored] = y]
      BY <2>2, BeginFlags, Zenon
    <3>2. stored \in Session =>
            DOMAIN y = SessionFields /\ y.poisoned = sessions[stored].poisoned
      BY <1>4, FieldsKept
    <3> HIDE DEF y
    <3> QED
      BY <3>1, <3>2 DEF Touches
  <2> QED
    BY <1>3, <2>1, <2>2
<1> QED
  BY <1>1, <1>2, <1>5, BeginSettles

LEMMA BeginPopsKeepInv ==
    ASSUME Inv, NEW o \in Op,
           \/ \E n \in 0..Checked, hit \in Hit : RunBeginFails(o, n, hit)
           \/ BeginPop(o)
    PROVE  Inv' /\ Terminal
<1>1. ASSUME NEW n \in 0..Checked, NEW hit \in Hit, RunBeginFails(o, n, hit)
      PROVE  Inv' /\ Terminal
  <2>1. /\ op[o].pc # "settled" /\ UNCHANGED ownerVars /\ UNCHANGED sessions
        /\ PopStarted(o, op[o], "failDrain", IF n < Checked THEN n ELSE n - 1,
                      Pushed(n, hit))
    BY <1>1 DEF RunBeginFails
  <2> QED
    BY <2>1, PopStep
<1>2. CASE BeginPop(o)
  <2>1. /\ op[o].pc = "beginDrain" /\ UNCHANGED ownerVars /\ UNCHANGED sessions
        /\ PopStarted(o, op[o], "beginDrain", op[o].left - 1, scopes)
    BY <1>2 DEF BeginPop
  <2>2. op[o].kind = "begin"
    BY <2>1 DEF Inv, OpsHold, Sane
  <2> QED
    BY <2>1, <2>2, PopStep
<1> QED
  BY <1>1, <1>2

(* Nothing is stored while no generation is open.                          *)
LEMMA RunBeginStoresKeepsInv ==
    ASSUME Inv, NEW o \in Op, NEW s \in Session, NEW hit \in Hit,
           RunBeginStores(o, s, hit)
    PROVE  Inv' /\ Terminal
<1> DEFINE b == op[o]
           cached == Cached(b.key)
           y == [Dropped EXCEPT
            !.plan = b.plan,
            !.tokens = IF PrefillCapable(b.plan) THEN 0 ELSE InitialTokens(b.plan),
            !.rows = IF PrefillCapable(b.plan) THEN 0 ELSE InitialTokens(b.plan),
            !.sound = /\ hit = 0
                      /\ IF cached THEN resident = [key |-> b.key, sound |-> TRUE]
                         ELSE b.pack]
           held == [generation |-> lastGeneration + 1, lease |-> 0, session |-> s]
           x == [b EXCEPT !.held = held, !.candidate = ~cached /\ b.key # NoKey]
<1>1. /\ b.pc = "queued" /\ b.kind = "begin" /\ Owner!Begin(s)
      /\ sessions' = [sessions EXCEPT ![s] = y]
      /\ PopStarted(o, x, "beginDrain", Checked - 1, Pushed(Checked, hit))
  BY DEF RunBeginStores
<1>2. DOMAIN y = SessionFields
  BY DEF Dropped, SessionFields
<1>3. /\ DOMAIN x = OpFields /\ x.kind = b.kind /\ x.held = held
      /\ held.lease = 0
  BY DEF Inv, Shape, OpFields
<1>4. DOMAIN op[o] = OpFields
  BY DEF Inv, Shape
<1> HIDE DEF x, y, held, cached
<1>5. PICK z : /\ op' = [op EXCEPT ![o] = z] /\ DOMAIN z = OpFields
               /\ z.pc = "beginDrain" /\ z.kind = x.kind /\ z.held = x.held
  BY <1>1, <1>3, PopMoves
<1>6. Sane(z) /\ ~HoldsLease(z) /\ ~HoldsLease(op[o])
  BY <1>1, <1>3, <1>5 DEF Sane, HoldsLease
<1>7. UNCHANGED callers /\ generation = 0
  BY <1>1 DEF Owner!Begin, Owner!None
<1>8. stored = NoSession /\ s # stored
  BY <1>7, OwnerFacts, NoSessionIsNoSession DEF Inv
<1>9. (OpsHold /\ LeasesArePending)'
  BY <1>5, <1>6, <1>7, OpGoesOn
<1>10. Touches(s, y)
  BY <1>1, <1>2, <1>8 DEF Touches
<1>11. Shape'
  BY <1>5, <1>10, ShapeKept DEF Inv
<1>12. Proved!IInv'
  BY <1>1, OwnerBegins DEF Inv
<1> QED
  BY <1>8, <1>9, <1>11, <1>12 DEF Inv, Terminal
-----------------------------------------------------------------------------
(* step, prefill, logits, top1 and finish.                                 *)

(* Work on the session of a lease is not work on the stored one.           *)
LEMMA WorksOn ==
    ASSUME Inv, NEW o \in Op, HoldsLease(op[o]),
           NEW y, DOMAIN y = SessionFields,
           sessions' = [sessions EXCEPT ![SessionOf(o)] = y]
    PROVE  \E s, z : Touches(s, z)
<1>1. SessionOf(o) # stored
  BY HeldSession
<1>2. Touches(SessionOf(o), y)
  BY <1>1 DEF Touches
<1> QED
  BY <1>2

LEMMA FailureFlags ==
    ASSUME NEW f, NEW s \in DOMAIN f, NEW b, DOMAIN f[s] = SessionFields
    PROVE  \E y : /\ [f EXCEPT ![s].poisoned = TRUE, ![s].sound = @ /\ b]
                       = [f EXCEPT ![s] = y]
                  /\ DOMAIN y = SessionFields /\ y.wrote = f[s].wrote
                  /\ y.plan = f[s].plan /\ y.tokens = f[s].tokens
                  /\ y.ready = f[s].ready /\ y.poisoned = TRUE
                  /\ y.sound \in BOOLEAN
<1> DEFINE x == [f[s] EXCEPT !.poisoned = TRUE]
           y == [x EXCEPT !.sound = x.sound /\ b]
           g == [f EXCEPT ![s] = x]
<1>1. g[s] = x
  OBVIOUS
<1>2. [f EXCEPT ![s].poisoned = TRUE] = g
  BY Zenon
<1>3. [g EXCEPT ![s].sound = @ /\ b] = [g EXCEPT ![s] = y]
  BY <1>1, Zenon
<1>4. [f EXCEPT ![s].poisoned = TRUE, ![s].sound = @ /\ b]
        = [g EXCEPT ![s].sound = @ /\ b]
  BY <1>2, Zenon
<1>5. /\ DOMAIN y = SessionFields /\ y.wrote = f[s].wrote
      /\ y.plan = f[s].plan /\ y.tokens = f[s].tokens
      /\ y.ready = f[s].ready /\ y.poisoned = TRUE
  BY DEF SessionFields
<1>7. y.sound \in BOOLEAN
  <2> DEFINE c == x.sound /\ b
  <2>1. c \in BOOLEAN
    BY Zenon
  <2> HIDE DEF c
  <2>2. [x EXCEPT !.sound = c].sound = c
    BY DEF SessionFields
  <2> QED
    BY <2>1, <2>2 DEF c
<1> HIDE DEF y, x
<1>6. [g EXCEPT ![s] = y] = [f EXCEPT ![s] = y]
  OBVIOUS
<1> QED
  BY <1>3, <1>4, <1>5, <1>6, <1>7

LEMMA RunFailsKeepsInv ==
    ASSUME Inv, NEW o \in Op, NEW n \in 0..Checked, NEW hit \in Hit,
           RunFails(o, n, hit)
    PROVE  Inv' /\ Terminal
<1> DEFINE s == SessionOf(o)
<1>1. /\ op[o].pc = "queued" /\ op[o].kind # "begin" /\ UNCHANGED ownerVars
      /\ sessions' = [sessions EXCEPT ![s].poisoned = TRUE,
                                      ![s].sound = @ /\ hit = 0]
      /\ PopStarted(o, op[o], "failDrain", IF n < Checked THEN n ELSE n - 1,
                    Pushed(n, hit))
  BY DEF RunFails
<1>2. HoldsLease(op[o])
  BY <1>1, RunningHolds
<1>3. s \in DOMAIN sessions /\ DOMAIN sessions[s] = SessionFields
  BY <1>2, HeldSession DEF Inv, Shape
<1> HIDE DEF s
<1>4. PICK y : /\ sessions' = [sessions EXCEPT ![s] = y]
               /\ DOMAIN y = SessionFields
  <2>1. PICK y :
            /\ [sessions EXCEPT ![s].poisoned = TRUE, ![s].sound = @ /\ hit = 0]
                 = [sessions EXCEPT ![s] = y]
            /\ DOMAIN y = SessionFields /\ y.wrote = sessions[s].wrote
            /\ y.plan = sessions[s].plan /\ y.tokens = sessions[s].tokens
            /\ y.ready = sessions[s].ready /\ y.poisoned = TRUE
            /\ y.sound \in BOOLEAN
    BY <1>3, FailureFlags, Zenon
  <2> QED
    BY <1>1, <2>1, Zenon
<1>5. \E q, z : Touches(q, z)
  BY <1>2, <1>4, WorksOn DEF s
<1> QED
  BY <1>1, <1>5, PopStep

LEMMA RunEncodesKeepsInv ==
    ASSUME Inv, NEW o \in Op, NEW hit \in Hit, RunEncodes(o, hit)
    PROVE  Inv' /\ Terminal
<1> DEFINE x == sessions[SessionOf(o)]
           written == [step |-> x.tokens + 1, prefill |-> x.plan.prefill]
           writes == op[o].kind \in DOMAIN written
           y == [x EXCEPT !.poisoned = TRUE,
                   !.sound = @ /\ hit = 0,
                   !.rows = IF writes THEN written[op[o].kind] ELSE @,
                   !.wrote = IF writes THEN op[o].kind ELSE @]
           z == [op[o] EXCEPT !.pc = "gpu"]
<1>1. /\ op[o].pc = "queued" /\ op[o].kind # "begin" /\ UNCHANGED ownerVars
      /\ sessions' = [sessions EXCEPT ![SessionOf(o)] = y]
  BY DEF RunEncodes
<1>2. op' = [op EXCEPT ![o] = z]
  BY Zenon DEF RunEncodes
<1>3. HoldsLease(op[o])
  BY <1>1, RunningHolds
<1>4. DOMAIN x = SessionFields
  BY <1>3, HeldSession DEF Inv, Shape
<1> HIDE DEF written, writes, x
<1>5. DOMAIN y = SessionFields
  BY <1>4
<1>6. /\ DOMAIN z = OpFields /\ z.kind = op[o].kind /\ z.held = op[o].held
      /\ z.pc = "gpu"
  BY DEF Inv, Shape, OpFields
<1> HIDE DEF y, z
<1>7. \E s, q : Touches(s, q)
  BY <1>1, <1>3, <1>5, WorksOn
<1> QED
  BY <1>1, <1>2, <1>6, <1>7, GoesTo

LEMMA GpuMovesKeepInv ==
    ASSUME Inv, NEW o \in Op, GpuStale(o) \/ FinishReadsKeys(o)
    PROVE  Inv' /\ Terminal
<1>1. PICK pc \in {"stale", "gpu2"} : op' = [op EXCEPT ![o].pc = pc]
  BY DEF GpuStale, FinishReadsKeys
<1>2. op[o].pc = "gpu" /\ UNCHANGED ownerVars /\ UNCHANGED sessions
  BY DEF GpuStale, FinishReadsKeys
<1> DEFINE z == [op[o] EXCEPT !.pc = pc]
<1>3. op' = [op EXCEPT ![o] = z]
  BY <1>1, Zenon
<1>4. /\ DOMAIN z = OpFields /\ z.kind = op[o].kind /\ z.held = op[o].held
      /\ z.pc = pc
  BY DEF Inv, Shape, OpFields
<1> HIDE DEF z
<1> QED
  BY <1>2, <1>3, <1>4, GoesTo

LEMMA DrainsKeepInv ==
    ASSUME Inv, NEW o \in Op,
           GpuFails(o) \/ FinishReadsValues(o) \/ StaleDrain(o) \/ DrainPop(o)
    PROVE  Inv' /\ Terminal
<1>1. PICK pc, left : /\ pc \in {"failDrain", "okDrain", "staleDrain"}
                       /\ PopStarted(o, op[o], pc, left, scopes)
  BY DEF GpuFails, FinishReadsValues, StaleDrain, DrainPop
<1>2. op[o].pc # "settled" /\ UNCHANGED ownerVars /\ UNCHANGED sessions
  BY DEF GpuFails, FinishReadsValues, StaleDrain, DrainPop
<1> QED
  BY <1>1, <1>2, PopStep

LEMMA GpuReadsKeepsInv ==
    ASSUME Inv, NEW o \in Op, GpuReads(o) PROVE Inv' /\ Terminal
<1> DEFINE x == sessions[SessionOf(o)]
           y == Committed(x, op[o].kind)
<1>1. /\ op[o].pc = "gpu" /\ UNCHANGED ownerVars
      /\ PopStarted(o, op[o], "okDrain", Checked - 1, scopes)
  BY DEF GpuReads
<1>2. sessions' = [sessions EXCEPT ![SessionOf(o)] = y]
  BY DEF GpuReads
<1>3. HoldsLease(op[o])
  BY <1>1, RunningHolds DEF Inv, OpsHold, Sane
<1>4. DOMAIN x = SessionFields
  BY <1>3, HeldSession DEF Inv, Shape
<1>5. DOMAIN y = SessionFields
  BY <1>4 DEF Committed
<1> HIDE DEF y
<1>6. \E s, q : Touches(s, q)
  BY <1>2, <1>3, <1>5, WorksOn
<1> QED
  BY <1>1, <1>6, PopStep

(* The owner takes the session back or forgets it.  While another session  *)
(* is stored the lease is stale, and nothing happens to that session.      *)
LEMMA SettleKeepsInv ==
    ASSUME Inv, NEW o \in Op, NEW action \in {"restore", "finish"},
           NEW poisoned, Settle(o, action, poisoned)
    PROVE  Inv' /\ Terminal
<1> DEFINE s == SessionOf(o)
           y == IF stored' = s
                THEN [sessions[s] EXCEPT !.poisoned = poisoned] ELSE Dropped
<1>1. /\ Owner!Complete(op[o].held, action)
      /\ op' = [op EXCEPT ![o] = Settled]
      /\ sessions' = [sessions EXCEPT ![s] = y]
  BY DEF Settle
<1>2. op[o].held \in callers /\ callers' = callers \ {op[o].held}
  BY <1>1 DEF Owner!Complete
<1>3. s \in Session /\ s # stored /\ op[o].held.lease # 0
  BY <1>2, OwnerFacts DEF Inv, SessionOf
<1>4. DOMAIN y = SessionFields
  BY <1>3 DEF Inv, Shape, Dropped, SessionFields
<1>5. Proved!IInv'
  BY <1>1, OwnerCompletes DEF Inv
<1>6. (OpsHold /\ LeasesArePending)'
  BY <1>1, <1>2, OpCompletes
<1> HIDE DEF y, s
<1>7. Touches(s, y)
  BY <1>1, <1>3, <1>4 DEF Touches
<1>8. Shape'
  BY <1>1, <1>7, ShapeKept, SettledIsSettled DEF Inv
<1>9. Terminal
  <2> SUFFICES ASSUME stored # NoSession PROVE Terminal
    BY DEF Terminal
  <2>1. inFlightLease = 0
    BY OwnerFacts DEF Inv
  <2>2. stored' = stored
    BY <1>1, <1>3, <2>1
    DEF Owner!Complete, Owner!CompleteStale, Owner!CompleteCancelled,
        Owner!CompleteRestore, Owner!CompleteFinish, Owner!Current,
        Owner!ownerVars
  <2> QED
    BY <1>7, <2>2, SessionTouched, StoredIsSession DEF Inv
<1> QED
  BY <1>5, <1>6, <1>8, <1>9 DEF Inv

LEMMA SettlesKeepInv ==
    ASSUME Inv, NEW o \in Op,
           Failed(o) \/ StaleDone(o) \/ Captured(o) \/ Done(o)
    PROVE  Inv' /\ Terminal
<1>1. \/ Settle(o, "restore", TRUE) \/ Settle(o, "restore", FALSE)
      \/ Settle(o, "finish", TRUE)
  BY DEF Failed, StaleDone, Captured, Done
<1> QED
  BY <1>1, SettleKeepsInv
-----------------------------------------------------------------------------
LEMMA InitInv == Init => Inv
<1> SUFFICES ASSUME Init PROVE Inv
  OBVIOUS
<1>1. Proved!Init
  BY DEF Init, Owner!Init, Proved!Init, Owner!None, Proved!None
<1>2. Proved!IInv
  BY <1>1, Proved!InitEstablishesIInv, NoSessionIsNoSession, CounterMaxIsNat
<1>3. callers = {} /\ op = [o \in Op |-> Settled]
  BY DEF Init, Owner!Init
<1>4. DOMAIN Dropped = SessionFields
  BY DEF Dropped, SessionFields
<1>5. Shape
  BY <1>3, <1>4, SettledIsSettled DEF Init, Shape
<1>6. OpsHold /\ LeasesArePending
  BY <1>3, SettledIsSettled DEF OpsHold, LeasesArePending
<1> QED
  BY <1>2, <1>5, <1>6 DEF Inv

LEMMA NextKeepsInv == Inv /\ [Next]_vars => Inv' /\ (Terminal \/ UNCHANGED vars)
<1> SUFFICES ASSUME Inv, [Next]_vars
             PROVE  Inv' /\ (Terminal \/ UNCHANGED vars)
  OBVIOUS
<1>1. CASE UNCHANGED vars
  <2>1. UNCHANGED <<ownerVars, callers, sessions, op>>
    BY <1>1 DEF vars, ownerVars
  <2>2. Proved!IInv'
    BY <2>1, OwnerKept DEF Inv
  <2> QED
    BY <1>1, <2>1, <2>2 DEF Inv, Shape, OpsHold, LeasesArePending
<1>2. CASE Abort
  BY <1>2, AbortKeepsInv
<1>3. ASSUME NEW o \in Op, Calls(o) PROVE Inv' /\ Terminal
  BY <1>3, CallBeginKeepsInv, CallBeginResidentKeepsInv, CallsKeepInv,
     RejectedCallKeepsInv
  DEF Calls
<1>4. ASSUME NEW o \in Op, Runs(o) PROVE Inv' /\ Terminal
  BY <1>4, BeginEndsKeepInv, BeginPopsKeepInv, RunBeginStoresKeepsInv,
     RunFailsKeepsInv, RunEncodesKeepsInv, GpuMovesKeepInv, DrainsKeepInv,
     GpuReadsKeepsInv, SettlesKeepInv
  DEF Runs
<1> QED
  BY <1>1, <1>2, <1>3, <1>4 DEF Next

LEMMA InvAlways == Spec => []Inv
<1>1. Init => Inv
  BY InitInv
<1>2. Inv /\ [Next]_vars => Inv'
  BY NextKeepsInv
<1> QED
  BY <1>1, <1>2, PTL DEF Spec

(* Whatever its clients call and however their promises interleave, a      *)
(* lease of the owner is out only while the operation that completes it is *)
(* pending: the authority is never left busy by an operation that is over. *)
THEOREM BusyOnlyWhilePending == Spec => []LeasesArePending
<1>1. Inv => LeasesArePending
  BY DEF Inv
<1> QED
  BY <1>1, InvAlways, PTL

(* No call, no answer of the GPU and no late completion of an earlier      *)
(* lease makes a poisoned session work again: it goes only with its        *)
(* generation.                                                             *)
THEOREM PoisonLasts == Spec => PoisonIsTerminal
<1>1. Inv /\ [Next]_vars => [Terminal]_vars
  BY NextKeepsInv
<1>2. Spec => [][Terminal]_vars
  BY <1>1, InvAlways, PTL DEF Spec
<1> QED
  BY <1>2 DEF PoisonIsTerminal, Terminal

(* What is proved of the owner alone holds of the one in this authority,   *)
(* whose calls also take a lease and give it back in one step: a session   *)
(* is stored or lent to one operation, never both, and the owner is busy   *)
(* exactly while there is one.                                             *)
THEOREM SessionsHaveOneOwner ==
    Spec => [](Owner!ExclusiveOwner /\ Owner!BusyHasOneOwner)
<1>1. Inv => Owner!ExclusiveOwner /\ Owner!BusyHasOneOwner
  BY DEF Inv, Proved!IInv, Proved!ExclusiveOwner, Proved!BusyHasOneOwner,
         Owner!ExclusiveOwner, Owner!BusyHasOneOwner, Owner!Current,
         Proved!Current, Owner!None, Proved!None
<1> QED
  BY <1>1, InvAlways, PTL
-----------------------------------------------------------------------------
(* The key-value cache.                                                    *)

(* A session between two operations: its prompt is written or not, and     *)
(* after it one row for each token of a step.                              *)
AtRest(x) ==
    /\ x.plan \in Descriptor /\ PlanAdmitted(x.plan)
    /\ x.tokens \in Nat /\ x.tokens = x.rows /\ x.rows <= x.plan.capacity
    /\ PrefillCapable(x.plan) =>
          \/ x.tokens = 0 /\ x.wrote = "none"
          \/ x.tokens = x.plan.prefill /\ x.wrote = "prefill"
          \/ x.tokens > x.plan.prefill /\ x.wrote = "step"
    /\ ~PrefillCapable(x.plan) =>
          /\ x.tokens >= InitialTokens(x.plan)
          /\ x.wrote \in {"none", "step"}

(* What an operation x knows of its session s: rows that are written are   *)
(* those that its commit is going to count.                                *)
LeaseCache(x, s) ==
    /\ x.kind \in {"step", "prefill", "readout", "finish"}
    /\ x.pc = "queued" =>
          /\ AtRest(s)
          /\ x.kind = "step" => StepAdmitted(s)
          /\ x.kind = "prefill" => s.tokens = 0
    /\ x.pc = "gpu" /\ x.kind # "finish" => AtRest(Committed(s, x.kind))
    /\ x.pc = "okDrain" /\ x.kind # "finish" => AtRest(s)
    /\ x.kind = "readout" => (x.fromPrefill <=> s.wrote = "prefill")
OpCache(x, s) ==
    /\ x.pc = "queued" /\ x.kind = "begin" =>
          x.plan \in Descriptor /\ PlanAdmitted(x.plan)
    /\ x.pc = "gpu2" => x.kind = "finish"
    /\ HoldsLease(x) => LeaseCache(x, s)

StoredCache == (stored # NoSession /\ ~sessions[stored].poisoned) =>
                   AtRest(sessions[stored])
OpsCache == \A o \in Op : OpCache(op[o], sessions[SessionOf(o)])

CacheInv == StoredCache /\ OpsCache
-----------------------------------------------------------------------------
(* Only these fields matter.                                               *)
LEMMA SameCache ==
    ASSUME NEW x, NEW y, x.plan = y.plan, x.tokens = y.tokens, x.rows = y.rows,
           x.wrote = y.wrote
    PROVE  AtRest(x) <=> AtRest(y)
  BY DEF AtRest

(* No two operations share a session, and none has the stored one.         *)
LEMMA OwnSessions ==
    ASSUME Inv, NEW o \in Op, NEW p \in Op, o # p,
           HoldsLease(op[o]), HoldsLease(op[p])
    PROVE  SessionOf(o) # SessionOf(p)
<1>1. op[o].held \in callers /\ op[p].held \in callers /\ op[o].held # op[p].held
  BY DEF Inv, OpsHold
<1>2. \A c, d \in callers : c.session = d.session => c = d
  BY DEF Inv, Proved!IInv, Proved!ExclusiveOwner
<1> QED
  BY <1>1, <1>2 DEF SessionOf

(* An operation becomes x, and session s changes that no other one holds.  *)
LEMMA CacheStep ==
    ASSUME Inv, CacheInv, NEW o \in Op, NEW x, op' = [op EXCEPT ![o] = x],
           NEW s, NEW y,
           UNCHANGED sessions \/ sessions' = [sessions EXCEPT ![s] = y],
           \A p \in Op \ {o} : HoldsLease(op[p]) => SessionOf(p) # s,
           OpCache(x, sessions'[x.held.session])
    PROVE  OpsCache'
<1>1. op'[o] = x /\ \A p \in Op \ {o} : op'[p] = op[p]
  BY DEF Inv, Shape
<1>2. OpCache(op'[o], sessions'[op'[o].held.session])
  BY <1>1
<1>3. ASSUME NEW p \in Op \ {o}
      PROVE  OpCache(op'[p], sessions'[op'[p].held.session])
  <2>1. op'[p] = op[p] /\ OpCache(op[p], sessions[op[p].held.session])
    BY <1>1 DEF CacheInv, OpsCache, SessionOf
  <2>2. HoldsLease(op[p]) =>
           sessions'[op[p].held.session] = sessions[op[p].held.session]
    BY HeldSession DEF Inv, Shape, SessionOf
  <2> QED
    BY <2>1, <2>2 DEF OpCache
<1> QED
  BY <1>2, <1>3 DEF OpsCache, SessionOf

LEMMA StoredKept ==
    ASSUME Inv, CacheInv, UNCHANGED stored, NEW s, NEW y,
           \/ UNCHANGED sessions
           \/ sessions' = [sessions EXCEPT ![s] = y] /\ s # stored
    PROVE  StoredCache'
  BY StoredIsSession DEF Inv, Shape, CacheInv, StoredCache

(* A step of one operation that leaves the sessions alone.                 *)
LEMMA QuietStep ==
    ASSUME Inv, CacheInv, NEW o \in Op, NEW x, op' = [op EXCEPT ![o] = x],
           UNCHANGED <<stored, sessions>>,
           OpCache(x, sessions[x.held.session])
    PROVE  CacheInv'
<1>1. \A p \in Op \ {o} : HoldsLease(op[p]) => SessionOf(p) # NoSession
  BY HeldSession, NoSessionIsNoSession
<1>2. OpsCache'
  BY <1>1, CacheStep
<1>3. StoredCache'
  BY StoredKept
<1> QED
  BY <1>2, <1>3 DEF CacheInv

(* A step of one operation on the session of its lease.                    *)
LEMMA WorkStep ==
    ASSUME Inv, CacheInv, NEW o \in Op, HoldsLease(op[o]),
           NEW x, op' = [op EXCEPT ![o] = x], x.held = op[o].held,
           UNCHANGED stored,
           NEW y, sessions' = [sessions EXCEPT ![SessionOf(o)] = y],
           OpCache(x, y)
    PROVE  CacheInv'
<1>1. \A p \in Op \ {o} : HoldsLease(op[p]) => SessionOf(p) # SessionOf(o)
  BY OwnSessions
<1>2. SessionOf(o) \in Session /\ SessionOf(o) # stored
  BY HeldSession
<1>3. sessions'[x.held.session] = y
  BY <1>2 DEF SessionOf, Inv, Shape
<1>4. OpCache(x, sessions'[x.held.session])
  BY <1>3
<1> DEFINE s == SessionOf(o)
<1> HIDE DEF s
<1>5. /\ sessions' = [sessions EXCEPT ![s] = y]
      /\ \A p \in Op \ {o} : HoldsLease(op[p]) => SessionOf(p) # s
  BY <1>1 DEF s
<1>6. OpsCache'
  BY <1>4, <1>5, CacheStep
<1>7. StoredCache'
  BY <1>2, StoredKept
<1> QED
  BY <1>6, <1>7 DEF CacheInv

LEMMA SettledKnowsNothing == ASSUME NEW s PROVE OpCache(Settled, s)
  BY SettledIsSettled DEF OpCache
-----------------------------------------------------------------------------
(* The calls.                                                              *)

LEMMA BeginCalled ==
    ASSUME Inv, CacheInv, NEW o \in Op, NEW d \in Descriptor, PlanAdmitted(d),
           NEW x, DOMAIN x = OpFields, x.kind = "begin", x.plan = d,
           Queue(o, x), UNCHANGED ownerVars
    PROVE  CacheInv'
<1> DEFINE y == [x EXCEPT !.pc = "queued"]
<1>1. y.kind = "begin" /\ y.plan = d /\ y.pc = "queued"
  BY DEF OpFields
<1>2. op' = [op EXCEPT ![o] = y] /\ UNCHANGED <<stored, sessions>>
  BY DEF Queue, ownerVars
<1> HIDE DEF y
<1>3. OpCache(y, sessions[y.held.session])
  BY <1>1 DEF OpCache, HoldsLease
<1> QED
  BY <1>2, <1>3, QuietStep

LEMMA BeginCallsKeepCache ==
    ASSUME Inv, CacheInv, NEW o \in Op, NEW d \in Descriptor,
           \/ \E k \in Key \union {NoKey} : CallBegin(o, d, k)
           \/ CallBeginResident(o, d)
    PROVE  CacheInv'
<1>1. ASSUME NEW k \in Key \union {NoKey}, CallBegin(o, d, k) PROVE CacheInv'
  <2> DEFINE x == [Settled EXCEPT !.kind = "begin", !.plan = d, !.key = k,
                                  !.pack = TRUE]
  <2>1. PlanAdmitted(d) /\ Queue(o, x) /\ UNCHANGED ownerVars
    BY <1>1 DEF CallBegin
  <2>2. DOMAIN x = OpFields /\ x.kind = "begin" /\ x.plan = d
    BY DEF Settled, OpFields
  <2> HIDE DEF x
  <2> QED
    BY <2>1, <2>2, BeginCalled
<1>2. CASE CallBeginResident(o, d)
  <2> DEFINE x == [Settled EXCEPT !.kind = "begin", !.plan = d,
                                  !.key = resident.key]
  <2>1. PlanAdmitted(d) /\ Queue(o, x) /\ UNCHANGED ownerVars
    BY <1>2 DEF CallBeginResident
  <2>2. DOMAIN x = OpFields /\ x.kind = "begin" /\ x.plan = d
    BY DEF Settled, OpFields
  <2> HIDE DEF x
  <2> QED
    BY <2>1, <2>2, BeginCalled
<1> QED
  BY <1>1, <1>2

(* The session that is taken is not poisoned, hence at rest.               *)
LEMMA CallKeepsCache ==
    ASSUME Inv, CacheInv, NEW o \in Op, NEW x, DOMAIN x = OpFields,
           x.kind \in {"step", "prefill", "readout", "finish"}, Call(o, x),
           x.kind = "step" => StepAdmitted(sessions[stored]),
           x.kind = "prefill" => sessions[stored].tokens = 0,
           x.kind = "readout" => (x.fromPrefill <=> FromPrefill(sessions[stored]))
    PROVE  CacheInv'
<1> DEFINE held == [generation |-> generation, lease |-> lastLease + 1,
                    session |-> stored]
           y == [[x EXCEPT !.held = held] EXCEPT !.pc = "queued"]
           s == sessions[stored]
<1>1. /\ Usable(stored) /\ op' = [op EXCEPT ![o] = y] /\ UNCHANGED sessions
      /\ stored' = NoSession
  BY DEF Call, Queue, Owner!Acquire, Owner!TakeStored
<1>2. AtRest(s)
  BY <1>1 DEF Usable, CacheInv, StoredCache
<1>3. FromPrefill(s) <=> s.wrote = "prefill"
  <2>1. s.plan \in [prefix : Nat, capacity : Nat, prefill : Nat, vocab : BOOLEAN]
    BY <1>2, DescriptorIsDescriptor DEF AtRest
  <2> QED
    BY <1>2, <2>1 DEF AtRest, FromPrefill, PrefillCapable
<1>4. held.session = stored
  OBVIOUS
<1> HIDE DEF held
<1>5. /\ y.held = held /\ y.pc = "queued" /\ y.kind = x.kind
      /\ y.fromPrefill = x.fromPrefill
  BY DEF OpFields
<1> HIDE DEF y
<1>6. OpCache(y, s)
  BY <1>2, <1>3, <1>5 DEF OpCache, LeaseCache
<1>7. OpCache(y, sessions'[y.held.session])
  BY <1>1, <1>4, <1>5, <1>6
<1>8. \A p \in Op \ {o} : HoldsLease(op[p]) => SessionOf(p) # NoSession
  BY HeldSession, NoSessionIsNoSession
<1>9. OpsCache'
  BY <1>1, <1>7, <1>8, CacheStep
<1> QED
  BY <1>1, <1>9 DEF CacheInv, StoredCache

LEMMA CallsKeepCache ==
    ASSUME Inv, CacheInv, NEW o \in Op,
           CallStep(o) \/ CallPrefill(o) \/ CallReadout(o) \/ CallFinish(o)
    PROVE  CacheInv'
<1>1. ASSUME NEW k \in {"step", "prefill", "finish"},
             Call(o, [Settled EXCEPT !.kind = k]),
             k = "step" => StepAdmitted(sessions[stored]),
             k = "prefill" => sessions[stored].tokens = 0
      PROVE  CacheInv'
  <2> DEFINE x == [Settled EXCEPT !.kind = k]
  <2>1. DOMAIN x = OpFields /\ x.kind = k
    BY DEF Settled, OpFields
  <2>2. Call(o, x)
    BY <1>1
  <2> HIDE DEF x
  <2> QED
    BY <1>1, <2>1, <2>2, CallKeepsCache
<1>2. CASE CallReadout(o)
  <2> DEFINE b == FromPrefill(sessions[stored])
             x == [Settled EXCEPT !.kind = "readout", !.fromPrefill = b]
  <2>1. DOMAIN x = OpFields /\ x.kind = "readout" /\ x.fromPrefill = b
    BY DEF Settled, OpFields
  <2>2. Call(o, x)
    BY <1>2 DEF CallReadout
  <2>3. x.fromPrefill <=> FromPrefill(sessions[stored])
    BY <2>1
  <2> HIDE DEF x, b
  <2> QED
    BY <2>1, <2>2, <2>3, CallKeepsCache
<1>3. CASE CallStep(o)
  BY <1>1, <1>3 DEF CallStep
<1>4. CASE CallPrefill(o)
  BY <1>1, <1>4 DEF CallPrefill
<1>5. CASE CallFinish(o)
  BY <1>1, <1>5 DEF CallFinish
<1> QED
  BY <1>2, <1>3, <1>4, <1>5

LEMMA AbortKeepsCache == ASSUME Inv, CacheInv, Abort PROVE CacheInv'
<1>1. UNCHANGED op /\ Discard(stored)
  BY DEF Abort
<1>2. stored' = NoSession
  <2>1. stored # NoSession => inFlightLease = 0
    BY OwnerFacts DEF Inv
  <2> QED
    BY <2>1 DEF Abort, Owner!CancelAndRelease, Owner!ReleaseStored,
       Owner!DetachInFlight, Owner!None, Owner!TakeStored
<1>3. \A o \in Op : HoldsLease(op[o]) =>
                      sessions'[SessionOf(o)] = sessions[SessionOf(o)]
  BY <1>1, HeldSession DEF Discard, Inv, Shape
<1>4. OpsCache'
  <2> SUFFICES ASSUME NEW o \in Op
               PROVE  OpCache(op[o], sessions'[op[o].held.session])
    BY <1>1 DEF OpsCache, SessionOf
  <2>1. OpCache(op[o], sessions[op[o].held.session])
    BY DEF CacheInv, OpsCache, SessionOf
  <2> QED
    BY <1>3, <2>1 DEF OpCache, SessionOf
<1> QED
  BY <1>2, <1>4 DEF CacheInv, StoredCache
-----------------------------------------------------------------------------
(* begin.                                                                  *)

LEMMA BeginEndsKeepCache ==
    ASSUME Inv, CacheInv, NEW o \in Op,
           BeginUnsupported(o) \/ BeginFailed(o) \/ BeginStale(o)
             \/ BeginPoisons(o) \/ BeginReady(o)
    PROVE  CacheInv'
<1> DEFINE x == Settled
<1>1. op' = [op EXCEPT ![o] = x] /\ UNCHANGED stored
  BY DEF BeginUnsupported, BeginFailed, BeginStale, BeginPoisons, BeginReady,
         BeginDrained, ownerVars
<1>2. \/ UNCHANGED sessions
      \/ sessions' = [sessions EXCEPT ![stored].poisoned = TRUE]
      \/ sessions' = [sessions EXCEPT ![stored].ready = TRUE]
  BY DEF BeginUnsupported, BeginFailed, BeginStale, BeginPoisons, BeginReady
<1>3. stored \in Session => stored \in DOMAIN sessions
                              /\ DOMAIN sessions[stored] = SessionFields
  BY DEF Inv, Shape
<1>4. \A p \in Op \ {o} : HoldsLease(op[p]) => SessionOf(p) # stored
  BY HeldSession
<1>5. OpCache(x, sessions'[x.held.session])
  BY SettledKnowsNothing
<1> HIDE DEF x
<1>6. CASE UNCHANGED sessions
  BY <1>1, <1>5, <1>6, QuietStep
<1>7. CASE sessions' = [sessions EXCEPT ![stored].poisoned = TRUE]
  <2> DEFINE y == [sessions[stored] EXCEPT !.poisoned = TRUE]
  <2>1. sessions' = [sessions EXCEPT ![stored] = y]
    BY <1>7, BeginFlags, Zenon
  <2>2. stored \in Session => y.poisoned
    BY <1>3, FieldsKept
  <2> HIDE DEF y
  <2>3. OpsCache'
    BY <1>1, <1>4, <1>5, <2>1, CacheStep
  <2>4. StoredCache'
    BY <1>1, <1>3, <2>1, <2>2, StoredIsSession DEF StoredCache
  <2> QED
    BY <2>3, <2>4 DEF CacheInv
<1>8. CASE sessions' = [sessions EXCEPT ![stored].ready = TRUE]
  <2> DEFINE y == [sessions[stored] EXCEPT !.ready = TRUE]
  <2>1. sessions' = [sessions EXCEPT ![stored] = y]
    BY <1>8, BeginFlags, Zenon
  <2>2. stored \in Session =>
          /\ y.poisoned = sessions[stored].poisoned
          /\ AtRest(sessions[stored]) <=> AtRest(y)
    <3>1. ASSUME stored \in Session
          PROVE  /\ y.plan = sessions[stored].plan
                 /\ y.tokens = sessions[stored].tokens
                 /\ y.rows = sessions[stored].rows
                 /\ y.wrote = sessions[stored].wrote
      BY <1>3, <3>1 DEF SessionFields
    <3>2. stored \in Session => y.poisoned = sessions[stored].poisoned
      BY <1>3, FieldsKept
    <3> HIDE DEF y
    <3> QED
      BY <3>1, <3>2, SameCache
  <2> HIDE DEF y
  <2>3. OpsCache'
    BY <1>1, <1>4, <1>5, <2>1, CacheStep
  <2>4. StoredCache'
    BY <1>1, <1>3, <2>1, <2>2, StoredIsSession DEF StoredCache, CacheInv
  <2> QED
    BY <2>3, <2>4 DEF CacheInv
<1> QED
  BY <1>2, <1>6, <1>7, <1>8

LEMMA DrainKnows ==
    ASSUME NEW x, NEW y, NEW s, NEW t, OpCache(x, s),
           y.kind = x.kind, y.fromPrefill = x.fromPrefill,
           y.pc \notin {"queued", "gpu", "gpu2", "okDrain"}, t.wrote = s.wrote
    PROVE  OpCache(y, t)
  BY DEF OpCache, LeaseCache, HoldsLease

(* A pop that leaves the sessions alone.                                   *)
LEMMA PopKeepsCache ==
    ASSUME Inv, CacheInv, NEW o \in Op, NEW pc, NEW left, NEW stack,
           PopStarted(o, op[o], pc, left, stack), UNCHANGED <<stored, sessions>>,
           \/ pc \in {"beginDrain", "failDrain", "staleDrain"}
           \/ pc = "okDrain" /\ op[o].kind = "finish"
           \/ pc = "okDrain" /\ op[o].pc = "okDrain"
    PROVE  CacheInv'
<1>1. DOMAIN op[o] = OpFields
  BY DEF Inv, Shape
<1>2. PICK x : /\ op' = [op EXCEPT ![o] = x] /\ DOMAIN x = OpFields
               /\ x.pc = pc /\ x.kind = op[o].kind /\ x.held = op[o].held
               /\ x.fromPrefill = op[o].fromPrefill
  BY <1>1, PopMoves
<1>3. OpCache(op[o], sessions[SessionOf(o)])
  BY DEF CacheInv, OpsCache
<1>4. OpCache(x, sessions[SessionOf(o)])
  BY <1>2, <1>3, DrainKnows DEF OpCache, LeaseCache, HoldsLease
<1>5. x.held.session = SessionOf(o)
  BY <1>2 DEF SessionOf
<1> QED
  BY <1>2, <1>4, <1>5, QuietStep

LEMMA PopsKeepCache ==
    ASSUME Inv, CacheInv, NEW o \in Op,
           \/ \E n \in 0..Checked, hit \in Hit : RunBeginFails(o, n, hit)
           \/ BeginPop(o) \/ GpuFails(o) \/ FinishReadsValues(o)
           \/ StaleDrain(o) \/ DrainPop(o)
    PROVE  CacheInv'
<1>1. UNCHANGED <<stored, sessions>>
  BY DEF RunBeginFails, BeginPop, GpuFails, FinishReadsValues, StaleDrain,
         DrainPop, ownerVars
<1>2. OpCache(op[o], sessions[SessionOf(o)])
  BY DEF CacheInv, OpsCache
<1>3. FinishReadsValues(o) => op[o].kind = "finish"
  BY <1>2 DEF OpCache, FinishReadsValues
<1>4. \E pc, left, stack :
         /\ PopStarted(o, op[o], pc, left, stack)
         /\ \/ pc \in {"beginDrain", "failDrain", "staleDrain"}
            \/ pc = "okDrain" /\ op[o].kind = "finish"
            \/ pc = "okDrain" /\ op[o].pc = "okDrain"
  BY <1>3 DEF RunBeginFails, BeginPop, GpuFails, FinishReadsValues, StaleDrain,
              DrainPop
<1> QED
  BY <1>1, <1>4, PopKeepsCache

(* A new session is at rest: its cache has the rows of the given prefix.   *)
LEMMA NewSessionAtRest ==
    ASSUME NEW d \in Descriptor, PlanAdmitted(d), NEW y, y.plan = d,
           y.wrote = "none",
           y.tokens = IF PrefillCapable(d) THEN 0 ELSE InitialTokens(d),
           y.rows = IF PrefillCapable(d) THEN 0 ELSE InitialTokens(d)
    PROVE  AtRest(y)
<1>1. /\ d \in [prefix : Nat, capacity : Nat, prefill : Nat, vocab : BOOLEAN]
      /\ d.capacity \in Nat /\ d.prefill \in Nat /\ d.prefix \in Nat
  BY DescriptorIsDescriptor
<1>2. InitialTokens(d) \in 1..d.capacity - 1
  BY DEF PlanAdmitted
<1> QED
  BY <1>1, <1>2 DEF AtRest

LEMMA RunBeginStoresKeepsCache ==
    ASSUME Inv, CacheInv, NEW o \in Op, NEW s \in Session, NEW hit \in Hit,
           RunBeginStores(o, s, hit)
    PROVE  CacheInv'
<1> DEFINE b == op[o]
           cached == Cached(b.key)
           n == IF PrefillCapable(b.plan) THEN 0 ELSE InitialTokens(b.plan)
           sound == /\ hit = 0
                    /\ IF cached THEN resident = [key |-> b.key, sound |-> TRUE]
                       ELSE b.pack
           y == [Dropped EXCEPT !.plan = b.plan, !.tokens = n, !.rows = n,
                                !.sound = sound]
           held == [generation |-> lastGeneration + 1, lease |-> 0, session |-> s]
           x == [b EXCEPT !.held = held, !.candidate = ~cached /\ b.key # NoKey]
<1>1. /\ b.pc = "queued" /\ b.kind = "begin" /\ Owner!Begin(s)
      /\ sessions' = [sessions EXCEPT ![s] = y]
      /\ PopStarted(o, x, "beginDrain", Checked - 1, Pushed(Checked, hit))
  BY DEF RunBeginStores
<1> HIDE DEF cached, sound, n
<1>2. /\ y.plan = b.plan /\ y.wrote = "none" /\ y.tokens = n /\ y.rows = n
  BY DEF Dropped
<1>3. DOMAIN x = OpFields /\ x.kind = b.kind
  BY DEF Inv, Shape, OpFields
<1> HIDE DEF x, y, held
<1>4. b.plan \in Descriptor /\ PlanAdmitted(b.plan)
  BY <1>1 DEF CacheInv, OpsCache, OpCache
<1>5. AtRest(y)
  BY <1>2, <1>4, NewSessionAtRest DEF n
<1>6. PICK z : /\ op' = [op EXCEPT ![o] = z]
               /\ z.pc = "beginDrain" /\ z.kind = x.kind
  BY <1>1, <1>3, PopMoves
<1>7. OpCache(z, sessions'[z.held.session])
  BY <1>1, <1>3, <1>6 DEF OpCache, HoldsLease
<1>8. \A p \in Op \ {o} : HoldsLease(op[p]) => SessionOf(p) # s
  BY <1>1 DEF Inv, OpsHold, SessionOf, Owner!Begin, Owner!Lent
<1>9. OpsCache'
  BY <1>1, <1>6, <1>7, <1>8, CacheStep
<1>10. stored' = s /\ sessions'[s] = y
  BY <1>1 DEF Owner!Begin, Inv, Shape
<1>11. StoredCache'
  BY <1>5, <1>10 DEF StoredCache
<1> QED
  BY <1>9, <1>11 DEF CacheInv
-----------------------------------------------------------------------------
(* step, prefill, logits, top1 and finish.                                 *)

LEMMA RunFailsKeepsCache ==
    ASSUME Inv, CacheInv, NEW o \in Op, NEW n \in 0..Checked, NEW hit \in Hit,
           RunFails(o, n, hit)
    PROVE  CacheInv'
<1> DEFINE s == SessionOf(o)
<1>1. /\ op[o].pc = "queued" /\ op[o].kind # "begin" /\ UNCHANGED stored
      /\ sessions' = [sessions EXCEPT ![s].poisoned = TRUE,
                                      ![s].sound = @ /\ hit = 0]
      /\ PopStarted(o, op[o], "failDrain", IF n < Checked THEN n ELSE n - 1,
                    Pushed(n, hit))
  BY DEF RunFails, ownerVars
<1>2. HoldsLease(op[o])
  BY <1>1, RunningHolds
<1>3. s \in DOMAIN sessions /\ DOMAIN sessions[s] = SessionFields
  BY <1>2, HeldSession DEF Inv, Shape
<1>4. OpCache(op[o], sessions[s])
  BY DEF CacheInv, OpsCache
<1> HIDE DEF s
<1>5. PICK y : /\ sessions' = [sessions EXCEPT ![s] = y]
               /\ y.wrote = sessions[s].wrote
  <2>1. PICK y :
            /\ [sessions EXCEPT ![s].poisoned = TRUE, ![s].sound = @ /\ hit = 0]
                 = [sessions EXCEPT ![s] = y]
            /\ DOMAIN y = SessionFields /\ y.wrote = sessions[s].wrote
            /\ y.plan = sessions[s].plan /\ y.tokens = sessions[s].tokens
            /\ y.ready = sessions[s].ready /\ y.poisoned = TRUE
            /\ y.sound \in BOOLEAN
    BY <1>3, FailureFlags, Zenon
  <2> QED
    BY <1>1, <2>1, Zenon
<1>6. DOMAIN op[o] = OpFields
  BY DEF Inv, Shape
<1>7. PICK x : /\ op' = [op EXCEPT ![o] = x]
               /\ x.pc = "failDrain" /\ x.kind = op[o].kind
               /\ x.held = op[o].held /\ x.fromPrefill = op[o].fromPrefill
  BY <1>1, <1>6, PopMoves
<1>8. OpCache(x, y)
  BY <1>4, <1>5, <1>7, DrainKnows
<1> QED
  BY <1>1, <1>2, <1>5, <1>7, <1>8, WorkStep DEF s

(* The rows that are written are those that the commit counts.             *)
LEMMA EncodedRows ==
    ASSUME NEW x, DOMAIN x = SessionFields, AtRest(x),
           NEW y, y.plan = x.plan, y.tokens = x.tokens,
           NEW kind \in {"step", "prefill", "readout"},
           kind = "step" => /\ StepAdmitted(x) /\ y.rows = x.tokens + 1
                            /\ y.wrote = "step",
           kind = "prefill" => /\ x.tokens = 0 /\ y.rows = x.plan.prefill
                               /\ y.wrote = "prefill",
           kind = "readout" => y.rows = x.rows /\ y.wrote = x.wrote,
           NEW z, z.plan = y.plan, z.rows = y.rows, z.wrote = y.wrote,
           z.tokens = CASE kind = "step" -> y.tokens + 1
                        [] kind = "prefill" -> y.plan.prefill
                        [] kind = "readout" -> y.tokens
    PROVE  AtRest(z)
<1> DEFINE d == x.plan
<1>1. /\ d \in Descriptor /\ PlanAdmitted(d)
      /\ d.capacity \in Nat /\ d.prefill \in Nat /\ d.prefix \in Nat
  BY DescriptorIsDescriptor DEF AtRest
<1>2. /\ x.tokens \in Nat /\ x.tokens = x.rows /\ x.rows <= d.capacity
  BY DEF AtRest
<1>3. CASE kind = "step"
  <2>1. z.tokens = x.tokens + 1 /\ z.rows = x.tokens + 1 /\ z.wrote = "step"
        /\ z.plan = d
    BY <1>3
  <2>2. x.tokens >= InitialTokens(d) /\ x.tokens < d.capacity
        /\ InitialTokens(d) \in Nat
    BY <1>1, <1>2, <1>3 DEF StepAdmitted, PlanAdmitted
  <2>3. PrefillCapable(d) => x.tokens >= d.prefill
    BY <1>1, <1>2, <2>2
    DEF AtRest, InitialTokens, PrefillCapable, PlanAdmitted
  <2> QED
    BY <1>1, <1>2, <2>1, <2>2, <2>3 DEF AtRest
<1>4. CASE kind = "prefill"
  <2>1. z.tokens = d.prefill /\ z.rows = d.prefill /\ z.wrote = "prefill"
        /\ z.plan = d
    BY <1>4
  <2>2. PrefillCapable(d)
    BY <1>1, <1>4 DEF AtRest, PlanAdmitted
  <2>3. d.prefill <= d.capacity
    BY <1>1, <2>2 DEF PlanAdmitted
  <2> QED
    BY <1>1, <2>1, <2>2, <2>3 DEF AtRest
<1>5. CASE kind = "readout"
  <2>1. z.plan = x.plan /\ z.tokens = x.tokens /\ z.rows = x.rows
        /\ z.wrote = x.wrote
    BY <1>5
  <2> QED
    BY <2>1, SameCache
<1> QED
  BY <1>3, <1>4, <1>5

LEMMA CommitFields ==
    ASSUME NEW x, DOMAIN x = SessionFields,
           NEW kind \in {"step", "prefill", "readout"}
    PROVE  LET z == Committed(x, kind)
           IN  /\ z.plan = x.plan /\ z.rows = x.rows /\ z.wrote = x.wrote
               /\ z.tokens = CASE kind = "step" -> x.tokens + 1
                               [] kind = "prefill" -> x.plan.prefill
                               [] kind = "readout" -> x.tokens
  BY DEF Committed, SessionFields

LEMMA RunEncodesKeepsCache ==
    ASSUME Inv, CacheInv, NEW o \in Op, NEW hit \in Hit, RunEncodes(o, hit)
    PROVE  CacheInv'
<1> DEFINE x == sessions[SessionOf(o)]
           kind == op[o].kind
           written == [step |-> x.tokens + 1, prefill |-> x.plan.prefill]
           writes == kind \in DOMAIN written
           rows == IF writes THEN written[kind] ELSE x.rows
           wrote == IF writes THEN kind ELSE x.wrote
           sound == x.sound /\ hit = 0
           y == [x EXCEPT !.poisoned = TRUE, !.sound = sound, !.rows = rows,
                          !.wrote = wrote]
           z == [op[o] EXCEPT !.pc = "gpu"]
<1>1. /\ op[o].pc = "queued" /\ kind # "begin" /\ UNCHANGED stored
      /\ sessions' = [sessions EXCEPT ![SessionOf(o)] = y]
  BY DEF RunEncodes, ownerVars
<1>2. op' = [op EXCEPT ![o] = z]
  BY Zenon DEF RunEncodes
<1>3. HoldsLease(op[o])
  BY <1>1, RunningHolds
<1>4. DOMAIN x = SessionFields
  BY <1>3, HeldSession DEF Inv, Shape
<1>5. OpCache(op[o], x)
  BY DEF CacheInv, OpsCache
<1>6. /\ kind = "step" => rows = x.tokens + 1 /\ wrote = "step"
      /\ kind = "prefill" => rows = x.plan.prefill /\ wrote = "prefill"
      /\ kind = "readout" => rows = x.rows /\ wrote = x.wrote
  OBVIOUS
<1> HIDE DEF written, writes, rows, wrote, sound, x
<1>7. /\ DOMAIN y = SessionFields /\ y.plan = x.plan /\ y.tokens = x.tokens
      /\ y.rows = rows /\ y.wrote = wrote
  BY <1>4 DEF SessionFields
<1>8. /\ z.kind = kind /\ z.held = op[o].held /\ z.pc = "gpu"
      /\ z.fromPrefill = op[o].fromPrefill
  BY DEF Inv, Shape, OpFields
<1> HIDE DEF y, z
<1>9. kind \in {"step", "prefill", "readout", "finish"}
  BY <1>3, <1>5 DEF OpCache, LeaseCache
<1>10. kind # "finish" => AtRest(Committed(y, kind))
  <2> SUFFICES ASSUME kind \in {"step", "prefill", "readout"}
               PROVE  AtRest(Committed(y, kind))
    BY <1>9
  <2>1. /\ AtRest(x)
        /\ kind = "step" => StepAdmitted(x)
        /\ kind = "prefill" => x.tokens = 0
    BY <1>1, <1>3, <1>5 DEF OpCache, LeaseCache
  <2> DEFINE w == Committed(y, kind)
  <2>2. /\ w.plan = y.plan /\ w.rows = y.rows /\ w.wrote = y.wrote
        /\ w.tokens = CASE kind = "step" -> y.tokens + 1
                        [] kind = "prefill" -> y.plan.prefill
                        [] kind = "readout" -> y.tokens
    BY <1>7, CommitFields
  <2> HIDE DEF w, kind
  <2>3. /\ kind = "step" => StepAdmitted(x) /\ y.rows = x.tokens + 1
                              /\ y.wrote = "step"
        /\ kind = "prefill" => x.tokens = 0 /\ y.rows = x.plan.prefill
                                 /\ y.wrote = "prefill"
        /\ kind = "readout" => y.rows = x.rows /\ y.wrote = x.wrote
    BY <1>6, <1>7, <2>1
  <2>4. AtRest(w)
    BY <1>4, <1>7, <2>1, <2>2, <2>3, EncodedRows
  <2> QED
    BY <2>4 DEF w
<1>11. kind = "readout" => (z.fromPrefill <=> y.wrote = "prefill")
  BY <1>3, <1>5, <1>6, <1>7, <1>8 DEF OpCache, LeaseCache
<1>12. OpCache(z, y)
  BY <1>8, <1>9, <1>10, <1>11 DEF OpCache, LeaseCache
<1> QED
  BY <1>1, <1>2, <1>3, <1>8, <1>12, WorkStep

LEMMA GpuMovesKeepCache ==
    ASSUME Inv, CacheInv, NEW o \in Op, GpuStale(o) \/ FinishReadsKeys(o)
    PROVE  CacheInv'
<1>1. PICK pc \in {"stale", "gpu2"} :
         /\ op' = [op EXCEPT ![o].pc = pc]
         /\ pc = "gpu2" => op[o].kind = "finish"
  BY DEF GpuStale, FinishReadsKeys
<1>2. UNCHANGED <<stored, sessions>>
  BY DEF GpuStale, FinishReadsKeys, ownerVars
<1> DEFINE z == [op[o] EXCEPT !.pc = pc]
<1>3. op' = [op EXCEPT ![o] = z]
  BY <1>1, Zenon
<1>4. /\ z.kind = op[o].kind /\ z.held = op[o].held /\ z.pc = pc
      /\ z.fromPrefill = op[o].fromPrefill
  BY DEF Inv, Shape, OpFields
<1> HIDE DEF z
<1>5. OpCache(op[o], sessions[z.held.session])
  BY <1>4 DEF CacheInv, OpsCache, SessionOf
<1>6. OpCache(z, sessions[z.held.session])
  BY <1>1, <1>4, <1>5 DEF OpCache, LeaseCache, HoldsLease
<1> QED
  BY <1>2, <1>3, <1>6, QuietStep

LEMMA GpuReadsKeepsCache ==
    ASSUME Inv, CacheInv, NEW o \in Op, GpuReads(o) PROVE CacheInv'
<1> DEFINE x == sessions[SessionOf(o)]
           y == Committed(x, op[o].kind)
<1>1. /\ op[o].pc = "gpu" /\ op[o].kind # "finish" /\ UNCHANGED stored
      /\ PopStarted(o, op[o], "okDrain", Checked - 1, scopes)
  BY DEF GpuReads, ownerVars
<1>2. sessions' = [sessions EXCEPT ![SessionOf(o)] = y]
  BY DEF GpuReads
<1>3. HoldsLease(op[o])
  BY <1>1, RunningHolds DEF Inv, OpsHold, Sane
<1>4. DOMAIN x = SessionFields /\ DOMAIN op[o] = OpFields
  BY <1>3, HeldSession DEF Inv, Shape
<1>5. OpCache(op[o], x)
  BY DEF CacheInv, OpsCache
<1>6. AtRest(y) /\ op[o].kind \in {"step", "prefill", "readout"}
  BY <1>1, <1>3, <1>5 DEF OpCache, LeaseCache
<1>7. y.wrote = x.wrote
  BY <1>4, <1>6, CommitFields
<1>8. PICK z : /\ op' = [op EXCEPT ![o] = z]
               /\ z.pc = "okDrain" /\ z.kind = op[o].kind
               /\ z.held = op[o].held /\ z.fromPrefill = op[o].fromPrefill
  BY <1>1, <1>4, PopMoves
<1> HIDE DEF y, x
<1>9. OpCache(z, y)
  BY <1>3, <1>5, <1>6, <1>7, <1>8 DEF OpCache, LeaseCache
<1> QED
  BY <1>1, <1>2, <1>3, <1>8, <1>9, WorkStep

(* The owner takes back only what is at rest, or poisoned.                 *)
LEMMA SettleKeepsCache ==
    ASSUME Inv, CacheInv, NEW o \in Op, NEW action \in {"restore", "finish"},
           NEW poisoned, Settle(o, action, poisoned),
           action = "restore" => poisoned = TRUE \/ AtRest(sessions[SessionOf(o)])
    PROVE  CacheInv'
<1> DEFINE s == SessionOf(o)
           z == [sessions[s] EXCEPT !.poisoned = poisoned]
           y == IF stored' = s THEN z ELSE Dropped
           x == Settled
<1>1. /\ Owner!Complete(op[o].held, action)
      /\ op' = [op EXCEPT ![o] = x]
      /\ sessions' = [sessions EXCEPT ![s] = y]
  BY DEF Settle
<1>2. op[o].held \in callers
  BY <1>1 DEF Owner!Complete
<1>3. s \in Session /\ s # stored /\ op[o].held.lease # 0
  BY <1>2, OwnerFacts DEF Inv, SessionOf
<1>4. HoldsLease(op[o])
  BY <1>3 DEF Inv, OpsHold, Sane
<1>5. DOMAIN sessions = Session /\ DOMAIN sessions[s] = SessionFields
  BY <1>3 DEF Inv, Shape
<1>6. \A p \in Op \ {o} : HoldsLease(op[p]) => SessionOf(p) # s
  BY <1>4, OwnSessions
<1>7. OpCache(x, sessions'[x.held.session])
  BY SettledKnowsNothing
<1>8. z.poisoned = poisoned /\ (AtRest(z) <=> AtRest(sessions[s]))
  <2>1. /\ z.poisoned = poisoned /\ z.plan = sessions[s].plan
        /\ z.tokens = sessions[s].tokens /\ z.rows = sessions[s].rows
        /\ z.wrote = sessions[s].wrote
    BY <1>5 DEF SessionFields
  <2> HIDE DEF z
  <2> QED
    BY <2>1, SameCache
<1>9. \/ stored' = stored
      \/ action = "restore" /\ stored' = s
  BY <1>1 DEF Owner!Complete, Owner!CompleteStale, Owner!CompleteCancelled,
     Owner!CompleteRestore, Owner!CompleteFinish, Owner!ownerVars, SessionOf
<1> HIDE DEF x, s, z
<1>10. OpsCache'
  BY <1>1, <1>6, <1>7, CacheStep
<1>11. CASE stored' = stored
  BY <1>1, <1>3, <1>11, StoredKept, <1>10 DEF CacheInv
<1>12. CASE action = "restore" /\ stored' = s
  <2>1. sessions'[s] = z
    BY <1>1, <1>3, <1>5, <1>12
  <2>2. z.poisoned \/ AtRest(z)
    BY <1>8, <1>12 DEF s
  <2> QED
    BY <1>10, <1>12, <2>1, <2>2 DEF CacheInv, StoredCache
<1> QED
  BY <1>9, <1>11, <1>12

LEMMA SettlesKeepCache ==
    ASSUME Inv, CacheInv, NEW o \in Op,
           Failed(o) \/ StaleDone(o) \/ Captured(o) \/ Done(o)
    PROVE  CacheInv'
<1>1. CASE Settle(o, "restore", TRUE) \/ Settle(o, "finish", TRUE)
  BY <1>1, SettleKeepsCache
<1>2. CASE /\ Settle(o, "restore", FALSE)
           /\ op[o].pc = "okDrain" /\ op[o].kind # "finish"
  <2>1. op[o].held \in callers
    BY <1>2 DEF Settle, Owner!Complete
  <2>2. HoldsLease(op[o])
    BY <2>1, OwnerFacts DEF Inv, OpsHold, Sane
  <2>3. AtRest(sessions[SessionOf(o)])
    BY <1>2, <2>2 DEF CacheInv, OpsCache, OpCache, LeaseCache
  <2> QED
    BY <1>2, <2>3, SettleKeepsCache
<1> QED
  BY <1>1, <1>2 DEF Failed, StaleDone, Captured, Done, Drained
-----------------------------------------------------------------------------
LEMMA InitCache == Init => CacheInv
<1> SUFFICES ASSUME Init PROVE CacheInv
  OBVIOUS
<1>1. stored = NoSession /\ op = [o \in Op |-> Settled]
  BY DEF Init, Owner!Init
<1>2. OpsCache
  BY <1>1, SettledKnowsNothing DEF OpsCache
<1> QED
  BY <1>1, <1>2 DEF CacheInv, StoredCache

LEMMA NextKeepsCache == Inv /\ CacheInv /\ [Next]_vars => CacheInv'
<1> SUFFICES ASSUME Inv, CacheInv, [Next]_vars PROVE CacheInv'
  OBVIOUS
<1>1. CASE UNCHANGED vars
  <2>1. UNCHANGED <<stored, sessions, op>>
    BY <1>1 DEF vars, ownerVars
  <2> QED
    BY <2>1 DEF CacheInv, StoredCache, OpsCache, SessionOf
<1>2. CASE Abort
  BY <1>2, AbortKeepsCache
<1>3. ASSUME NEW o \in Op, Calls(o) PROVE CacheInv'
  <2>1. CASE RejectedCall(o)
    <3>1. UNCHANGED <<stored, sessions, op>>
      BY <2>1 DEF RejectedCall
    <3> QED
      BY <3>1 DEF CacheInv, StoredCache, OpsCache, SessionOf
  <2> QED
    BY <1>3, <2>1, BeginCallsKeepCache, CallsKeepCache DEF Calls
<1>4. ASSUME NEW o \in Op, Runs(o) PROVE CacheInv'
  BY <1>4, BeginEndsKeepCache, PopsKeepCache, RunBeginStoresKeepsCache,
     RunFailsKeepsCache, RunEncodesKeepsCache, GpuMovesKeepCache,
     GpuReadsKeepsCache, SettlesKeepCache
  DEF Runs
<1> QED
  BY <1>1, <1>2, <1>3, <1>4 DEF Next

LEMMA CacheAlways == Spec => []CacheInv
<1>1. Init => CacheInv
  BY InitCache
<1>2. Inv /\ CacheInv /\ [Next]_vars => CacheInv'
  BY NextKeepsCache
<1> QED
  BY <1>1, <1>2, InvAlways, PTL DEF Spec

(* The next step of a session that can be used neither overwrites a row of *)
(* its GPU cache nor skips one, whatever failed, was aborted or overlapped *)
(* before.                                                                 *)
THEOREM TokensCountRows == Spec => []TokensMatchRows
<1>1. CacheInv => TokensMatchRows
  BY DEF CacheInv, StoredCache, TokensMatchRows, Usable, AtRest
<1> QED
  BY <1>1, CacheAlways, PTL

(* logits and top1 read the hidden row that was written last: of the       *)
(* prefill, or of a step.                                                  *)
THEOREM ReadoutsAreCurrent == Spec => []ReadoutReadsCurrentRow
<1>1. CacheInv => ReadoutReadsCurrentRow
  BY DEF CacheInv, OpsCache, OpCache, LeaseCache, HoldsLease,
         ReadoutReadsCurrentRow
<1> QED
  BY <1>1, CacheAlways, PTL
-----------------------------------------------------------------------------
(* The error scopes of the session and its types: no scope outlives the    *)
(* operations, and of a client that awaits its calls no session with a GPU *)
(* error can be used.                                                      *)

SessionTyped(x) ==
    /\ x.plan \in Descriptor \union {NoPlan}
    /\ x.ready \in BOOLEAN /\ x.poisoned \in BOOLEAN /\ x.sound \in BOOLEAN
    /\ x.tokens \in 0..x.plan.capacity
    /\ x.wrote \in {"none", "step", "prefill"}
OpTyped(x) ==
    /\ x.pc \in PC /\ x.kind \in OpKind
    /\ x.left \in 0..Checked /\ x.dirty \in BOOLEAN
    /\ x.held.session \in Session \union {NoSession}
    /\ x.pc = "beginDrain" => x.held.session \in Session
    /\ x.key \in Key \union {NoKey}
    /\ x.candidate => x.key # NoKey
Typed ==
    /\ \A s \in Session : SessionTyped(sessions[s])
    /\ resident \in [key : Key \union {NoKey}, sound : BOOLEAN]
    /\ resident.key = NoKey => resident = NoResident
    /\ scopes \in Seq(BOOLEAN)
    /\ \A o \in Op : OpTyped(op[o])

(* The scopes that operation x still has to pop, and those of all.         *)
Ledger(x) == IF x.pc \in {"gpu", "gpu2", "stale"} THEN Checked
             ELSE IF x.pc \in {"settled", "queued"} THEN 0 ELSE x.left
Owed == {e \in Op \X (1..Checked) : e[2] <= Ledger(op[e[1]])}

(* Fewer may be left: a ledger also names the scope whose push failed.     *)
Counted == IsFiniteSet(Owed) /\ Len(scopes) <= Cardinality(Owed)

(* An error was captured, or is in a scope that is still there.            *)
Seen(dirty, stack) == dirty \/ \E i \in 1..Len(stack) : stack[i]

(* What is known of the one operation of a client that awaits: x, with the *)
(* sessions ss, the scopes sc, generation g, stored session st and         *)
(* resident weights r.                                                     *)
LeaseSound(x, s, sc) ==
    /\ x.pc = "queued" => s.sound
    /\ x.pc \in {"gpu", "gpu2", "stale", "okDrain"} => s.sound \/ Seen(x.dirty, sc)
BeginSound(x, ss, sc, g, st, r) ==
    /\ x.pc = "queued" => x.pack \/ (x.key # NoKey /\ r.key = x.key)
    /\ x.pc = "beginDrain" =>
          /\ x.held.generation # 0 /\ g \in {0, x.held.generation}
          /\ g # 0 => /\ st = x.held.session /\ ~ss[st].ready
                      /\ ss[st].sound \/ Seen(x.dirty, sc)
OpSound(x, ss, sc, g, st, r) ==
    /\ Len(sc) <= Ledger(x)
    /\ HoldsLease(x) => LeaseSound(x, ss[x.held.session], sc)
    /\ x.kind = "begin" => BeginSound(x, ss, sc, g, st, r)
OneAtATime ==
    \A p, q \in Op : op[p].pc # "settled" /\ op[q].pc # "settled" => p = q
Sound ==
    /\ OneAtATime
    /\ ReadyIsSound /\ ResidentIsSound
    /\ \A o \in Op : op[o].pc # "settled" =>
          OpSound(op[o], sessions, scopes, generation, stored, resident)

(* Of the whole: `awaited` says that a call is made only when nothing is   *)
(* pending, as AwaitsCalls does for every call of the specification.       *)
ScopeInv(awaited) == Typed /\ Counted /\ (awaited => Sound)
NothingPending == \A o \in Op : op[o].pc = "settled"
-----------------------------------------------------------------------------
(* Counting.                                                               *)

(* S is R with n more, all of o.                                           *)
Adds(S, R, o, n) == \A e : e \in S <=> e \in R \/ \E i \in 1..n : e = <<o, i>>

LEMMA CountOfOne ==
    ASSUME NEW R, IsFiniteSet(R), NEW o, \A e \in R : e[1] # o,
           NEW n \in 0..3, NEW S, Adds(S, R, o, n)
    PROVE  IsFiniteSet(S) /\ Cardinality(S) = Cardinality(R) + n
<1> DEFINE A == R \union {<<o, 1>>}
           B == A \union {<<o, 2>>}
           C == B \union {<<o, 3>>}
<1>1. IsFiniteSet(A) /\ Cardinality(A) = Cardinality(R) + 1
  BY FS_AddElement
<1>2. IsFiniteSet(B) /\ Cardinality(B) = Cardinality(A) + 1
  <2>1. <<o, 2>> \notin A
    OBVIOUS
  <2> HIDE DEF A
  <2> QED
    BY <1>1, <2>1, FS_AddElement
<1>3. IsFiniteSet(C) /\ Cardinality(C) = Cardinality(B) + 1
  <2>1. <<o, 3>> \notin B
    OBVIOUS
  <2> HIDE DEF B
  <2> QED
    BY <1>2, <2>1, FS_AddElement
<1>4. Cardinality(R) \in Nat
  BY FS_CardinalityType
<1>5. CASE n = 0
  <2>1. S = R
    BY <1>5 DEF Adds
  <2> QED
    BY <1>4, <1>5, <2>1
<1>6. CASE n = 1
  <2>1. S = A
    BY <1>6 DEF Adds
  <2> HIDE DEF A
  <2> QED
    BY <1>1, <1>6, <2>1
<1>7. CASE n = 2
  <2>1. S = B
    BY <1>7 DEF Adds
  <2> HIDE DEF A, B
  <2> QED
    BY <1>1, <1>2, <1>4, <1>7, <2>1
<1>8. CASE n = 3
  <2>1. S = C
    BY <1>8 DEF Adds
  <2> HIDE DEF A, B, C
  <2> QED
    BY <1>1, <1>2, <1>3, <1>4, <1>8, <2>1
<1> QED
  BY <1>5, <1>6, <1>7, <1>8

LEMMA LedgerIsSmall == ASSUME NEW x, OpTyped(x) PROVE Ledger(x) \in 0..3
  BY DEF OpTyped, Ledger, Checked

LEMMA CountChanges ==
    ASSUME Shape, IsFiniteSet(Owed), NEW o \in Op, NEW x, OpTyped(op[o]),
           OpTyped(x), op' = [op EXCEPT ![o] = x]
    PROVE  /\ IsFiniteSet(Owed')
           /\ Cardinality(Owed') + Ledger(op[o]) = Cardinality(Owed) + Ledger(x)
           /\ Cardinality(Owed') \in Nat /\ Cardinality(Owed) \in Nat
<1> DEFINE R == {e \in Owed : e[1] # o}
           m == Ledger(op[o])
           n == Ledger(x)
<1>1. IsFiniteSet(R)
  BY FS_Subset
<1>2. \A e \in R : e[1] # o
  OBVIOUS
<1>3. m \in 0..3 /\ n \in 0..3
  BY LedgerIsSmall
<1>4. Adds(Owed, R, o, m)
  BY <1>3 DEF Adds, Owed, Checked
<1>5. Adds(Owed', R, o, n)
  <2>1. op'[o] = x /\ \A p \in Op \ {o} : op'[p] = op[p]
    BY DEF Shape
  <2> QED
    BY <1>3, <2>1 DEF Adds, Owed, Checked
<1> HIDE DEF R, m, n
<1>6. Cardinality(Owed) = Cardinality(R) + m
  BY <1>1, <1>2, <1>3, <1>4, CountOfOne
<1>7. IsFiniteSet(Owed') /\ Cardinality(Owed') = Cardinality(R) + n
  BY <1>1, <1>2, <1>3, <1>5, CountOfOne
<1>8. Cardinality(R) \in Nat
  BY <1>1, FS_CardinalityType
<1> QED
  BY <1>3, <1>6, <1>7, <1>8 DEF m, n
-----------------------------------------------------------------------------
(* Steps.                                                                  *)

LEMMA TypedStep ==
    ASSUME Inv, Typed, NEW o \in Op, NEW x, op' = [op EXCEPT ![o] = x],
           OpTyped(x), NEW s, NEW y,
           \/ UNCHANGED sessions
           \/ /\ sessions' = [sessions EXCEPT ![s] = y]
              /\ s \in Session => SessionTyped(y),
           scopes' \in Seq(BOOLEAN),
           resident' \in [key : Key \union {NoKey}, sound : BOOLEAN],
           resident'.key = NoKey => resident' = NoResident
    PROVE  Typed'
<1>1. \A p \in Op : OpTyped(op'[p])
  BY DEF Inv, Shape, Typed
<1>2. \A q \in Session : SessionTyped(sessions'[q])
  BY DEF Inv, Shape, Typed
<1> QED
  BY <1>1, <1>2 DEF Typed

LEMMA CountedStep ==
    ASSUME Inv, Typed, Counted, NEW o \in Op, NEW x, op' = [op EXCEPT ![o] = x],
           OpTyped(x), scopes' \in Seq(BOOLEAN),
           \/ Len(scopes') = 0
           \/ Len(scopes') + Ledger(op[o]) <= Len(scopes) + Ledger(x)
    PROVE  Counted'
<1>1. Shape /\ OpTyped(op[o]) /\ IsFiniteSet(Owed)
  BY DEF Inv, Typed, Counted
<1>2. /\ IsFiniteSet(Owed')
      /\ Cardinality(Owed') + Ledger(op[o]) = Cardinality(Owed) + Ledger(x)
      /\ Cardinality(Owed') \in Nat /\ Cardinality(Owed) \in Nat
  BY <1>1, CountChanges
<1>3. Ledger(op[o]) \in 0..3 /\ Ledger(x) \in 0..3
  BY <1>1, LedgerIsSmall
<1>4. Len(scopes) <= Cardinality(Owed) /\ Len(scopes) \in Nat
        /\ Len(scopes') \in Nat
  BY DEF Counted, Typed
<1>5. Len(scopes') <= Cardinality(Owed')
  BY <1>2, <1>3, <1>4
<1> QED
  BY <1>2, <1>5 DEF Counted

LEMMA SoundStep ==
    ASSUME Inv, Sound, NEW o \in Op, NEW x, op' = [op EXCEPT ![o] = x],
           \/ op[o].pc # "settled"
           \/ \A p \in Op : op[p].pc = "settled",
           ReadyIsSound', ResidentIsSound',
           x.pc # "settled" =>
              OpSound(x, sessions', scopes', generation', stored', resident')
    PROVE  Sound'
<1>1. op'[o] = x /\ \A p \in Op \ {o} : op'[p] = op[p]
  BY DEF Inv, Shape
<1>2. \A p \in Op \ {o} : op'[p].pc = "settled"
  BY <1>1 DEF Sound, OneAtATime
<1> QED
  BY <1>1, <1>2 DEF Sound, OneAtATime

(* When no operation is pending nothing is owed.                           *)
LEMMA NothingOwed ==
    ASSUME Typed, Counted, \A o \in Op : op[o].pc = "settled"
    PROVE  scopes = <<>>
<1>1. Owed = {}
  BY DEF Owed, Ledger
<1>2. Len(scopes) = 0
  BY <1>1, FS_EmptySet DEF Counted, Typed
<1> QED
  BY <1>2 DEF Typed

LEMMA PushedIsStack ==
    ASSUME Typed, NEW n \in 0..3, NEW hit \in 0..3
    PROVE  /\ Pushed(n, hit) \in Seq(BOOLEAN)
           /\ Len(Pushed(n, hit)) = Len(scopes) + n
           /\ scopes = <<>> /\ hit \in 1..n => Pushed(n, hit)[hit]
<1> DEFINE more == [i \in 1..n |-> i = hit]
<1>1. more \in Seq(BOOLEAN) /\ Len(more) = n
  <2>1. \A i \in 1..n : more[i] \in BOOLEAN
    BY Zenon
  <2>2. more \in [1..n -> BOOLEAN]
    BY <2>1
  <2> HIDE DEF more
  <2> QED
    BY <2>2
<1>2. hit \in 1..n => more[hit]
  BY Zenon
<1> HIDE DEF more
<1>3. Pushed(n, hit) = scopes \o more
  BY DEF Pushed, more
<1> QED
  BY <1>1, <1>2, <1>3 DEF Typed

(* What a pop does: no error gets lost.                                    *)
LEMMA PopEffect ==
    ASSUME NEW o \in Op, NEW x, DOMAIN x = OpFields, NEW pc, NEW left,
           NEW stack \in Seq(BOOLEAN), PopStarted(o, x, pc, left, stack)
    PROVE  \E y : /\ op' = [op EXCEPT ![o] = y] /\ DOMAIN y = OpFields
                  /\ y.pc = pc /\ y.left = left /\ y.dirty \in BOOLEAN
                  /\ y.kind = x.kind /\ y.held = x.held /\ y.pack = x.pack
                  /\ y.key = x.key /\ y.candidate = x.candidate
                  /\ Seen(x.dirty, stack) => Seen(y.dirty, scopes')
                  /\ scopes' \in Seq(BOOLEAN)
                  /\ Len(scopes') = IF stack = <<>> THEN 0 ELSE Len(stack) - 1
<1> DEFINE d == x.dirty \/ stack = <<>> \/ (stack # <<>> /\ stack[Len(stack)])
           y == [x EXCEPT !.pc = pc, !.left = left, !.dirty = d]
<1>1. op' = [op EXCEPT ![o] = y]
  BY Zenon DEF PopStarted
<1>2. d \in BOOLEAN
  BY Zenon
<1>3. scopes' = IF stack = <<>> THEN stack ELSE SubSeq(stack, 1, Len(stack) - 1)
  BY DEF PopStarted
<1>4. /\ scopes' \in Seq(BOOLEAN)
      /\ Len(scopes') = IF stack = <<>> THEN 0 ELSE Len(stack) - 1
      /\ \A i \in 1..Len(stack) - 1 : scopes'[i] = stack[i]
  <2>1. CASE stack = <<>>
    BY <1>3, <2>1
  <2>2. CASE stack # <<>>
    <3> DEFINE n == Len(stack) - 1
    <3>1. Len(stack) \in Nat /\ Len(stack) > 0
      BY <2>2
    <3>2. n \in Nat /\ n \in Int /\ 1 \in Int /\ n = Len(stack) - 1
            /\ \A i \in 1..n : stack[i] \in BOOLEAN
      BY <3>1
    <3>3. scopes' = SubSeq(stack, 1, n)
      BY <1>3, <2>2
    <3> HIDE DEF n
    <3>4. /\ SubSeq(stack, 1, n) \in Seq(BOOLEAN)
          /\ Len(SubSeq(stack, 1, n)) = IF 1 <= n THEN n - 1 + 1 ELSE 0
          /\ \A i \in 1..n - 1 + 1 : SubSeq(stack, 1, n)[i] = stack[1 + i - 1]
      BY <3>2, SubSeqProperties
    <3>5. Len(scopes') = n
      BY <3>2, <3>3, <3>4
    <3>6. \A i \in 1..n : scopes'[i] = stack[i]
      BY <3>2, <3>3, <3>4
    <3> QED
      BY <2>2, <3>2, <3>3, <3>4, <3>5, <3>6
  <2> QED
    BY <2>1, <2>2
<1>5. Seen(x.dirty, stack) => d \/ \E i \in 1..Len(scopes') : scopes'[i]
  <2>1. CASE x.dirty
    BY <2>1
  <2>2. ASSUME NEW i \in 1..Len(stack), stack[i] PROVE d \/ \E k \in 1..Len(scopes') : scopes'[k]
    <3>1. Len(stack) \in Nat /\ stack # <<>>
      BY <2>2
    <3>2. CASE i = Len(stack)
      BY <2>2, <3>1, <3>2
    <3>3. CASE i # Len(stack)
      <4>1. i \in 1..Len(scopes') /\ scopes'[i] = stack[i]
        BY <1>4, <3>1, <3>3
      <4> QED
        BY <2>2, <4>1
    <3> QED
      BY <3>2, <3>3
  <2> QED
    BY <2>1, <2>2 DEF Seen
<1> HIDE DEF d
<1>6. /\ DOMAIN y = OpFields /\ y.pc = pc /\ y.left = left /\ y.dirty = d
      /\ y.kind = x.kind /\ y.held = x.held /\ y.pack = x.pack
      /\ y.key = x.key /\ y.candidate = x.candidate
  BY DEF OpFields
<1> HIDE DEF y
<1> QED
  BY <1>1, <1>2, <1>4, <1>5, <1>6 DEF Seen
-----------------------------------------------------------------------------
(* The calls.                                                              *)

(* A new operation waits for its turn: nothing is pushed yet.              *)
LEMMA CalledStep ==
    ASSUME NEW awaited, Inv, ScopeInv(awaited), NEW o \in Op, MayCall(o),
           awaited => NothingPending,
           NEW x, op' = [op EXCEPT ![o] = x], x.pc = "queued", OpTyped(x),
           UNCHANGED <<sessions, resident, scopes>>,
           stored' = stored \/ stored' = NoSession,
           awaited /\ ReadyIsSound /\ ResidentIsSound =>
              /\ HoldsLease(x) => sessions[x.held.session].sound
              /\ x.kind = "begin" => x.pack \/ (x.key # NoKey /\ resident.key = x.key)
    PROVE  ScopeInv(awaited)'
<1>1. Typed'
  BY TypedStep DEF ScopeInv, Typed
<1>2. Counted'
  <2>1. Ledger(x) = 0 /\ Ledger(op[o]) = 0
    BY DEF MayCall, Ledger
  <2>2. Len(scopes') \in Nat /\ scopes' \in Seq(BOOLEAN)
    BY DEF ScopeInv, Typed
  <2>3. Len(scopes') + Ledger(op[o]) <= Len(scopes) + Ledger(x)
    BY <2>1, <2>2
  <2> QED
    BY <2>2, <2>3, CountedStep DEF ScopeInv
<1>3. ASSUME awaited PROVE Sound'
  <2>1. \A p \in Op : op[p].pc = "settled"
    BY <1>3 DEF NothingPending
  <2>2. scopes' = <<>>
    BY <2>1, NothingOwed DEF ScopeInv
  <2>3. Sound
    BY <1>3 DEF ScopeInv
  <2>4. ReadyIsSound' /\ ResidentIsSound'
    BY <2>3 DEF Sound, ReadyIsSound, ResidentIsSound, Usable
  <2>5. OpSound(x, sessions', scopes', generation', stored', resident')
    <3>1. Len(scopes') <= Ledger(x)
      BY <2>2 DEF Ledger
    <3>2. HoldsLease(x) => LeaseSound(x, sessions'[x.held.session], scopes')
      BY <1>3, <2>3 DEF LeaseSound, Sound
    <3>3. x.kind = "begin" =>
            BeginSound(x, sessions', scopes', generation', stored', resident')
      BY <1>3, <2>3 DEF BeginSound, Sound
    <3> QED
      BY <3>1, <3>2, <3>3 DEF OpSound
  <2> QED
    BY <2>1, <2>3, <2>4, <2>5, SoundStep
<1> QED
  BY <1>1, <1>2, <1>3 DEF ScopeInv

LEMMA BeginCallsKeepScopes ==
    ASSUME NEW awaited, Inv, ScopeInv(awaited), NEW o \in Op,
           NEW d \in Descriptor,
           awaited => NothingPending,
           \/ \E k \in Key \union {NoKey} : CallBegin(o, d, k)
           \/ CallBeginResident(o, d)
    PROVE  ScopeInv(awaited)'
<1>1. ASSUME NEW x, DOMAIN x = OpFields, x.kind = "begin", x.left = 0,
             x.dirty = FALSE, ~x.candidate, x.held = Unheld,
             x.key \in Key \union {NoKey},
             x.pack \/ (x.key # NoKey /\ resident.key = x.key),
             MayCall(o), Queue(o, x), UNCHANGED ownerVars
      PROVE  ScopeInv(awaited)'
  <2> DEFINE y == [x EXCEPT !.pc = "queued"]
  <2>1. /\ y.pc = "queued" /\ y.kind = "begin" /\ y.left = 0 /\ y.dirty = FALSE
        /\ y.candidate = x.candidate /\ y.held = Unheld /\ y.key = x.key
        /\ y.pack = x.pack
    BY <1>1 DEF OpFields
  <2>2. op' = [op EXCEPT ![o] = y] /\ UNCHANGED <<sessions, resident, scopes, stored>>
    BY <1>1 DEF Queue, ownerVars
  <2> HIDE DEF y
  <2>3. Unheld.session = NoSession
    BY DEF Unheld
  <2>4. y.key \in Key \union {NoKey} /\ y.held.session = NoSession
    BY <1>1, <2>1, <2>3
  <2>5. OpTyped(y)
    <3>1. ~y.candidate
      BY <1>1, <2>1, Zenon
    <3>2. y.dirty \in BOOLEAN
      BY <2>1
    <3> QED
      BY <2>1, <2>4, <3>1, <3>2 DEF OpTyped, PC, OpKind, Checked
  <2>6. ~HoldsLease(y)
    BY <2>1 DEF HoldsLease
  <2> QED
    BY <1>1, <2>1, <2>2, <2>5, <2>6, CalledStep
<1>2. ASSUME NEW k \in Key \union {NoKey}, CallBegin(o, d, k) PROVE ScopeInv(awaited)'
  <2> DEFINE x == [Settled EXCEPT !.kind = "begin", !.plan = d, !.key = k,
                                  !.pack = TRUE]
  <2>1. MayCall(o) /\ Queue(o, x) /\ UNCHANGED ownerVars
    BY <1>2 DEF CallBegin
  <2>2. /\ DOMAIN x = OpFields /\ x.kind = "begin" /\ x.left = 0
        /\ x.dirty = FALSE /\ x.candidate = FALSE /\ x.held = Unheld
        /\ x.key = k /\ x.pack = TRUE
    BY DEF Settled, OpFields
  <2> HIDE DEF x
  <2> QED
    BY <1>1, <2>1, <2>2
<1>3. CASE CallBeginResident(o, d)
  <2> DEFINE x == [Settled EXCEPT !.kind = "begin", !.plan = d,
                                  !.key = resident.key]
  <2>1. MayCall(o) /\ Queue(o, x) /\ UNCHANGED ownerVars /\ resident # NoResident
    BY <1>3 DEF CallBeginResident
  <2>2. /\ DOMAIN x = OpFields /\ x.kind = "begin" /\ x.left = 0
        /\ x.dirty = FALSE /\ x.candidate = FALSE /\ x.held = Unheld
        /\ x.key = resident.key
    BY DEF Settled, OpFields
  <2> HIDE DEF x
  <2>3. x.key \in Key /\ x.key # NoKey
    BY <2>1, <2>2, NoKeyIsNoKey DEF ScopeInv, Typed
  <2> QED
    BY <1>1, <2>1, <2>2, <2>3
<1> QED
  BY <1>2, <1>3

LEMMA CallKeepsScopes ==
    ASSUME NEW awaited, Inv, ScopeInv(awaited), NEW o \in Op,
           awaited => NothingPending, NEW x, DOMAIN x = OpFields,
           x.kind \in {"step", "prefill", "readout", "finish"}, x.left = 0,
           x.dirty \in BOOLEAN, ~x.candidate, x.key = NoKey, Call(o, x)
    PROVE  ScopeInv(awaited)'
<1> DEFINE held == [generation |-> generation, lease |-> lastLease + 1,
                    session |-> stored]
           y == [[x EXCEPT !.held = held] EXCEPT !.pc = "queued"]
<1>1. /\ MayCall(o) /\ Usable(stored) /\ op' = [op EXCEPT ![o] = y]
      /\ UNCHANGED <<sessions, resident, scopes>> /\ stored' = NoSession
  BY DEF Call, Queue, Owner!Acquire, Owner!TakeStored
<1>2. held.session = stored
  OBVIOUS
<1> HIDE DEF held
<1>3. /\ y.held = held /\ y.pc = "queued" /\ y.kind = x.kind /\ y.left = 0
      /\ y.dirty = x.dirty /\ y.candidate = x.candidate /\ y.key = NoKey
  BY DEF OpFields
<1> HIDE DEF y
<1>4. y.held.session = stored /\ stored \in Session \union {NoSession}
  BY <1>2, <1>3, StoredIsSession
<1>5. OpTyped(y)
  <2>1. ~y.candidate
    BY <1>3, Zenon
  <2>2. y.dirty \in BOOLEAN
    BY <1>3
  <2> QED
    BY <1>3, <1>4, <2>1, <2>2 DEF OpTyped, PC, OpKind, Checked
<1>6. ReadyIsSound => sessions[y.held.session].sound
  BY <1>1, <1>4 DEF ReadyIsSound
<1>7. y.kind # "begin"
  BY <1>3
<1> QED
  BY <1>1, <1>3, <1>5, <1>6, <1>7, CalledStep

LEMMA CallsKeepScopes ==
    ASSUME NEW awaited, Inv, ScopeInv(awaited), NEW o \in Op,
           awaited => NothingPending,
           CallStep(o) \/ CallPrefill(o) \/ CallReadout(o) \/ CallFinish(o)
    PROVE  ScopeInv(awaited)'
<1>1. ASSUME NEW k \in {"step", "prefill", "finish"},
             Call(o, [Settled EXCEPT !.kind = k])
      PROVE  ScopeInv(awaited)'
  <2> DEFINE x == [Settled EXCEPT !.kind = k]
  <2>1. DOMAIN x = OpFields /\ x.kind = k /\ x.left = 0 /\ x.dirty = FALSE
          /\ ~x.candidate /\ x.key = NoKey
    BY DEF Settled, OpFields
  <2>2. Call(o, x)
    BY <1>1
  <2> HIDE DEF x
  <2> QED
    BY <1>1, <2>1, <2>2, CallKeepsScopes
<1>2. CASE CallReadout(o)
  <2> DEFINE b == FromPrefill(sessions[stored])
             x == [Settled EXCEPT !.kind = "readout", !.fromPrefill = b]
  <2>1. DOMAIN x = OpFields /\ x.kind = "readout" /\ x.left = 0
          /\ x.dirty = FALSE /\ ~x.candidate /\ x.key = NoKey
    BY DEF Settled, OpFields
  <2>2. Call(o, x)
    BY <1>2 DEF CallReadout
  <2> HIDE DEF x
  <2> QED
    BY <2>1, <2>2, CallKeepsScopes
<1> QED
  BY <1>1, <1>2 DEF CallStep, CallPrefill, CallFinish

LEMMA RejectedCallKeepsScopes ==
    ASSUME NEW awaited, Inv, ScopeInv(awaited), NEW o \in Op,
           RejectedCall(o)
    PROVE  ScopeInv(awaited)'
<1>1. UNCHANGED <<stored, generation, sessions, resident, scopes, op>>
  BY DEF RejectedCall
<1> QED
  BY <1>1 DEF ScopeInv, Typed, Counted, Owed, Sound, OneAtATime, ReadyIsSound,
     ResidentIsSound, Usable

(* The session of a lease is not the one that is dropped.                  *)
LEMMA AbortKeepsScopes ==
    ASSUME NEW awaited, Inv, ScopeInv(awaited), Abort
    PROVE  ScopeInv(awaited)'
<1>1. UNCHANGED <<op, resident, scopes>> /\ Discard(stored)
  BY DEF Abort
<1>2. stored' = NoSession /\ generation' = 0
  <2>1. stored # NoSession => inFlightLease = 0
    BY OwnerFacts DEF Inv
  <2> QED
    BY <2>1 DEF Abort, Owner!CancelAndRelease, Owner!ReleaseStored,
       Owner!DetachInFlight, Owner!None, Owner!TakeStored
<1>3. Typed'
  <2>1. SessionTyped(Dropped)
    BY DEF SessionTyped, Dropped, NoPlan
  <2>2. \A s \in Session : SessionTyped(sessions'[s])
    BY <1>1, <2>1 DEF ScopeInv, Typed, Discard, Inv, Shape
  <2> QED
    BY <1>1, <2>2 DEF ScopeInv, Typed
<1>4. Counted'
  BY <1>1 DEF ScopeInv, Counted, Owed
<1>5. ASSUME awaited PROVE Sound'
  <2>1. OneAtATime' /\ ReadyIsSound' /\ ResidentIsSound'
    BY <1>1, <1>2, <1>5
    DEF ScopeInv, Sound, OneAtATime, ReadyIsSound, Usable, ResidentIsSound
  <2> SUFFICES ASSUME NEW o \in Op, op[o].pc # "settled"
               PROVE  OpSound(op[o], sessions', scopes, 0, NoSession, resident)
    BY <1>1, <1>2, <2>1 DEF Sound
  <2>2. OpSound(op[o], sessions, scopes, generation, stored, resident)
    BY <1>5 DEF ScopeInv, Sound
  <2>3. HoldsLease(op[o]) =>
          sessions'[op[o].held.session] = sessions[op[o].held.session]
    BY <1>1, HeldSession DEF Discard, Inv, Shape, SessionOf
  <2> QED
    BY <2>2, <2>3 DEF OpSound, BeginSound
<1> QED
  BY <1>3, <1>4, <1>5 DEF ScopeInv
-----------------------------------------------------------------------------
(* The steps of a called operation.                                        *)

LEMMA MovedStep ==
    ASSUME NEW awaited, Inv, ScopeInv(awaited), NEW o \in Op,
           op[o].pc # "settled",
           NEW y, op' = [op EXCEPT ![o] = y], OpTyped(y),
           NEW s, NEW z,
           \/ UNCHANGED sessions
           \/ /\ sessions' = [sessions EXCEPT ![s] = z]
              /\ s \in Session => SessionTyped(z),
           resident' \in [key : Key \union {NoKey}, sound : BOOLEAN],
           resident'.key = NoKey => resident' = NoResident,
           scopes' \in Seq(BOOLEAN),
           \/ Len(scopes') = 0
           \/ Len(scopes') + Ledger(op[o]) <= Len(scopes) + Ledger(y),
           awaited /\ Sound =>
              /\ ReadyIsSound' /\ ResidentIsSound'
              /\ y.pc # "settled" =>
                    OpSound(y, sessions', scopes', generation', stored', resident')
    PROVE  ScopeInv(awaited)'
<1>1. Typed /\ Counted
  BY DEF ScopeInv
<1>2. Typed'
  BY <1>1, TypedStep
<1>3. Counted'
  BY <1>1, CountedStep
<1>4. awaited => Sound'
  <2> SUFFICES ASSUME awaited PROVE Sound'
    OBVIOUS
  <2>1. Sound
    BY DEF ScopeInv
  <2> QED
    BY <2>1, SoundStep
<1> QED
  BY <1>2, <1>3, <1>4 DEF ScopeInv

LEMMA ReadyKept ==
    ASSUME Inv, ReadyIsSound, UNCHANGED stored, NEW s, NEW z,
           \/ UNCHANGED sessions
           \/ sessions' = [sessions EXCEPT ![s] = z] /\ s # stored
    PROVE  ReadyIsSound'
  BY StoredIsSession DEF Inv, Shape, ReadyIsSound, Usable

(* A pop starts: `stack` is what is left of the scopes and what was pushed *)
(* on them, and of it `left` scopes remain to be popped.                   *)
LEMMA PopKeepsScopes ==
    ASSUME NEW awaited, Inv, ScopeInv(awaited), NEW o \in Op,
           op[o].pc # "settled",
           NEW pc \in {"beginDrain", "failDrain", "okDrain", "staleDrain"},
           NEW left \in 0..2, NEW stack \in Seq(BOOLEAN),
           PopStarted(o, op[o], pc, left, stack),
           UNCHANGED <<resident, stored, generation>>,
           NEW s, NEW z,
           \/ UNCHANGED sessions
           \/ /\ sessions' = [sessions EXCEPT ![s] = z] /\ s # stored
              /\ s \in Session => SessionTyped(z),
           Len(stack) + Ledger(op[o]) <= Len(scopes) + left + 1,
           pc = "beginDrain" => /\ op[o].pc = "beginDrain" /\ stack = scopes
                                /\ UNCHANGED sessions,
           Sound /\ HoldsLease(op[o]) /\ pc = "okDrain" =>
              sessions'[SessionOf(o)].sound \/ Seen(op[o].dirty, stack)
    PROVE  ScopeInv(awaited)'
<1> DEFINE b == op[o]
<1>1. DOMAIN b = OpFields /\ OpTyped(b) /\ scopes \in Seq(BOOLEAN)
  BY DEF Inv, Shape, ScopeInv, Typed
<1>2. PICK y : /\ op' = [op EXCEPT ![o] = y] /\ DOMAIN y = OpFields
               /\ y.pc = pc /\ y.left = left /\ y.dirty \in BOOLEAN
               /\ y.kind = b.kind /\ y.held = b.held /\ y.pack = b.pack
               /\ y.key = b.key /\ y.candidate = b.candidate
               /\ Seen(b.dirty, stack) => Seen(y.dirty, scopes')
               /\ scopes' \in Seq(BOOLEAN)
               /\ Len(scopes') = IF stack = <<>> THEN 0 ELSE Len(stack) - 1
  BY <1>1, PopEffect
<1>3. OpTyped(y)
  BY <1>1, <1>2 DEF OpTyped, PC, Checked
<1>4. Ledger(y) = left
  BY <1>2 DEF Ledger
<1>5. Len(stack) \in Nat /\ Len(scopes) \in Nat /\ Ledger(b) \in 0..3
        /\ (stack # <<>> => Len(stack) > 0)
  BY <1>1, LedgerIsSmall
<1>6. Len(scopes') = 0 \/ Len(scopes') + Ledger(b) <= Len(scopes) + Ledger(y)
  BY <1>2, <1>4, <1>5
<1>7. ASSUME Sound
      PROVE  /\ ReadyIsSound' /\ ResidentIsSound'
             /\ OpSound(y, sessions', scopes', generation', stored', resident')
  <2>1. ReadyIsSound'
    <3>1. ReadyIsSound /\ UNCHANGED stored
      BY <1>7 DEF Sound
    <3>2. \/ UNCHANGED sessions
          \/ sessions' = [sessions EXCEPT ![s] = z] /\ s # stored
      OBVIOUS
    <3> QED
      BY ONLY Inv, <3>1, <3>2, ReadyKept
  <2>2. ResidentIsSound'
    BY <1>7 DEF Sound, ResidentIsSound
  <2>3. OpSound(b, sessions, scopes, generation, stored, resident)
    BY <1>7 DEF Sound
  <2>4. Len(scopes') <= Ledger(y)
    <3>1. Len(scopes) <= Ledger(b)
      BY <2>3 DEF OpSound
    <3> QED
      BY <3>1, <1>2, <1>4, <1>5
  <2>5. HoldsLease(y) => LeaseSound(y, sessions'[y.held.session], scopes')
    BY <1>2, <1>7 DEF LeaseSound, HoldsLease, SessionOf
  <2>6. y.kind = "begin" =>
          BeginSound(y, sessions', scopes', generation', stored', resident')
    BY <1>2, <2>3 DEF OpSound, BeginSound
  <2> QED
    BY <2>1, <2>2, <2>4, <2>5, <2>6 DEF OpSound
<1>8. resident' \in [key : Key \union {NoKey}, sound : BOOLEAN]
        /\ (resident'.key = NoKey => resident' = NoResident)
  BY DEF ScopeInv, Typed
<1> HIDE DEF b
<1>9. \/ UNCHANGED sessions
      \/ /\ sessions' = [sessions EXCEPT ![s] = z]
         /\ s \in Session => SessionTyped(z)
  OBVIOUS
<1> QED
  BY <1>2, <1>3, <1>6, <1>7, <1>8, <1>9, MovedStep DEF b

(* The pops that follow the first one.                                     *)
LEMMA PopsKeepScopes ==
    ASSUME NEW awaited, Inv, ScopeInv(awaited), NEW o \in Op,
           BeginPop(o) \/ DrainPop(o)
    PROVE  ScopeInv(awaited)'
<1> DEFINE pc == op[o].pc
           left == op[o].left - 1
<1>1. /\ pc \in {"beginDrain", "okDrain", "failDrain", "staleDrain"}
      /\ op[o].left > 0 /\ PopStarted(o, op[o], pc, left, scopes)
      /\ UNCHANGED <<resident, stored, generation, sessions>>
  BY DEF BeginPop, DrainPop, ownerVars
<1>2. OpTyped(op[o]) /\ scopes \in Seq(BOOLEAN)
  BY DEF ScopeInv, Typed
<1>3. left \in 0..2 /\ Ledger(op[o]) = left + 1
  BY <1>1, <1>2 DEF OpTyped, Checked, Ledger
<1>4. Len(scopes) + Ledger(op[o]) <= Len(scopes) + left + 1
  BY <1>2, <1>3
<1>5. Sound /\ HoldsLease(op[o]) /\ pc = "okDrain" =>
        sessions'[SessionOf(o)].sound \/ Seen(op[o].dirty, scopes)
  BY <1>1 DEF Sound, OpSound, LeaseSound, SessionOf
<1>6. op[o].pc = pc
  OBVIOUS
<1> HIDE DEF pc, left
<1> QED
  BY <1>1, <1>2, <1>3, <1>4, <1>5, <1>6, PopKeepsScopes

(* The first pop after the GPU work of an operation, whose three scopes    *)
(* are all still there.                                                    *)
LEMMA FirstPopsKeepScopes ==
    ASSUME NEW awaited, Inv, CacheInv, ScopeInv(awaited), NEW o \in Op,
           GpuFails(o) \/ FinishReadsValues(o) \/ StaleDrain(o)
    PROVE  ScopeInv(awaited)'
<1>1. PICK pc \in {"failDrain", "okDrain", "staleDrain"} :
        PopStarted(o, op[o], pc, 2, scopes)
  BY DEF GpuFails, FinishReadsValues, StaleDrain, Checked
<1>2. op[o].pc \in {"gpu", "gpu2", "stale"}
        /\ UNCHANGED <<resident, stored, generation, sessions>>
  BY DEF GpuFails, FinishReadsValues, StaleDrain, ownerVars
<1>3. scopes \in Seq(BOOLEAN)
  BY DEF ScopeInv, Typed
<1>4. Len(scopes) + Ledger(op[o]) <= Len(scopes) + 2 + 1
  BY <1>2, <1>3 DEF Ledger, Checked
<1>5. Sound /\ HoldsLease(op[o]) =>
        sessions'[SessionOf(o)].sound \/ Seen(op[o].dirty, scopes)
  BY <1>2 DEF Sound, OpSound, LeaseSound, SessionOf
<1> QED
  BY <1>1, <1>2, <1>3, <1>4, <1>5, PopKeepsScopes

(* A push fails, or what follows the pushes.                               *)
LEMMA PushedLedger ==
    ASSUME Typed, NEW n \in 0..Checked, NEW hit \in Hit,
           NEW left, left = IF n < Checked THEN n ELSE n - 1
    PROVE  /\ left \in 0..2 /\ Pushed(n, hit) \in Seq(BOOLEAN)
           /\ Len(Pushed(n, hit)) <= Len(scopes) + left + 1
<1>1. n \in 0..3 /\ hit \in 0..3 /\ left \in 0..2 /\ n <= left + 1
  BY HitIsScope DEF Checked
<1>2. /\ Pushed(n, hit) \in Seq(BOOLEAN)
      /\ Len(Pushed(n, hit)) = Len(scopes) + n
  BY <1>1, PushedIsStack
<1>3. Len(scopes) \in Nat
  BY DEF Typed
<1> QED
  BY <1>1, <1>2, <1>3

LEMMA RunBeginFailsKeepsScopes ==
    ASSUME NEW awaited, Inv, ScopeInv(awaited), NEW o \in Op,
           NEW n \in 0..Checked, NEW hit \in Hit,
           RunBeginFails(o, n, hit)
    PROVE  ScopeInv(awaited)'
<1> DEFINE left == IF n < Checked THEN n ELSE n - 1
           stack == Pushed(n, hit)
<1>1. /\ op[o].pc = "queued" /\ PopStarted(o, op[o], "failDrain", left, stack)
      /\ UNCHANGED <<resident, stored, generation, sessions>>
  BY DEF RunBeginFails, ownerVars
<1>2. /\ left \in 0..2 /\ stack \in Seq(BOOLEAN)
      /\ Len(stack) <= Len(scopes) + left + 1
  BY PushedLedger DEF ScopeInv
<1>3. Ledger(op[o]) = 0
  BY <1>1 DEF Ledger
<1> HIDE DEF left, stack
<1>4. Len(stack) + Ledger(op[o]) <= Len(scopes) + left + 1
  BY <1>2, <1>3
<1> QED
  BY <1>1, <1>2, <1>4, PopKeepsScopes

LEMMA RunFailsKeepsScopes ==
    ASSUME NEW awaited, Inv, ScopeInv(awaited), NEW o \in Op,
           NEW n \in 0..Checked, NEW hit \in Hit,
           RunFails(o, n, hit)
    PROVE  ScopeInv(awaited)'
<1> DEFINE left == IF n < Checked THEN n ELSE n - 1
           stack == Pushed(n, hit)
           s == SessionOf(o)
<1>1. /\ op[o].pc = "queued" /\ op[o].kind # "begin"
      /\ PopStarted(o, op[o], "failDrain", left, stack)
      /\ sessions' = [sessions EXCEPT ![s].poisoned = TRUE,
                                      ![s].sound = @ /\ hit = 0]
      /\ UNCHANGED <<resident, stored, generation>>
  BY DEF RunFails, ownerVars
<1>2. /\ left \in 0..2 /\ stack \in Seq(BOOLEAN)
      /\ Len(stack) <= Len(scopes) + left + 1
  BY PushedLedger DEF ScopeInv
<1>3. Ledger(op[o]) = 0
  BY <1>1 DEF Ledger
<1>4. s \in Session /\ s # stored
  BY <1>1, RunningHolds, HeldSession
<1>5. s \in DOMAIN sessions /\ DOMAIN sessions[s] = SessionFields
        /\ SessionTyped(sessions[s])
  BY <1>4 DEF Inv, Shape, ScopeInv, Typed
<1> HIDE DEF left, stack, s
<1>6. Len(stack) + Ledger(op[o]) <= Len(scopes) + left + 1
  BY <1>2, <1>3
<1>7. PICK z : /\ sessions' = [sessions EXCEPT ![s] = z]
               /\ z.wrote = sessions[s].wrote /\ z.plan = sessions[s].plan
               /\ z.tokens = sessions[s].tokens /\ z.ready = sessions[s].ready
               /\ z.poisoned = TRUE /\ z.sound \in BOOLEAN
  <2>1. PICK z :
            /\ [sessions EXCEPT ![s].poisoned = TRUE, ![s].sound = @ /\ hit = 0]
                 = [sessions EXCEPT ![s] = z]
            /\ DOMAIN z = SessionFields /\ z.wrote = sessions[s].wrote
            /\ z.plan = sessions[s].plan /\ z.tokens = sessions[s].tokens
            /\ z.ready = sessions[s].ready /\ z.poisoned = TRUE
            /\ z.sound \in BOOLEAN
    BY <1>5, FailureFlags, Zenon
  <2> QED
    BY <1>1, <2>1, Zenon
<1>8. SessionTyped(z)
  BY <1>5, <1>7 DEF SessionTyped
<1> QED
  BY <1>1, <1>2, <1>4, <1>6, <1>7, <1>8, PopKeepsScopes

(* A committed session counts no more rows than its cache has.             *)
LEMMA GpuReadsKeepsScopes ==
    ASSUME NEW awaited, Inv, CacheInv, ScopeInv(awaited), NEW o \in Op,
           GpuReads(o)
    PROVE  ScopeInv(awaited)'
<1> DEFINE s == SessionOf(o)
           x == sessions[s]
           kind == op[o].kind
           z == Committed(x, kind)
<1>1. /\ op[o].pc = "gpu" /\ kind # "finish"
      /\ PopStarted(o, op[o], "okDrain", 2, scopes)
      /\ UNCHANGED <<resident, stored, generation>>
  BY DEF GpuReads, ownerVars, Checked
<1>2. sessions' = [sessions EXCEPT ![s] = z]
  BY DEF GpuReads
<1>3. HoldsLease(op[o])
  BY <1>1, RunningHolds DEF Inv, OpsHold, Sane
<1>4. s \in Session /\ s # stored /\ DOMAIN x = SessionFields /\ SessionTyped(x)
        /\ DOMAIN sessions = Session
  BY <1>3, HeldSession DEF Inv, Shape, ScopeInv, Typed
<1>5. OpCache(op[o], x)
  BY DEF CacheInv, OpsCache
<1>6. AtRest(z) /\ kind \in {"step", "prefill", "readout"}
  BY <1>1, <1>3, <1>5 DEF OpCache, LeaseCache
<1>7. /\ z.plan = x.plan /\ z.wrote = x.wrote /\ z.ready = x.ready
      /\ z.poisoned = FALSE /\ z.sound = x.sound
  BY <1>4, <1>6 DEF Committed, SessionFields
<1>8. scopes \in Seq(BOOLEAN)
  BY DEF ScopeInv, Typed
<1> HIDE DEF z, x, kind
<1>9. SessionTyped(z)
  <2>1. z.tokens \in 0..z.plan.capacity
    BY <1>6, DescriptorIsDescriptor DEF AtRest
  <2> QED
    BY <1>4, <1>7, <2>1 DEF SessionTyped
<1>10. Len(scopes) + Ledger(op[o]) <= Len(scopes) + 2 + 1
  BY <1>1, <1>8 DEF Ledger, Checked
<1>11. sessions'[s] = z
  BY <1>2, <1>4
<1>12. Sound => sessions'[s].sound \/ Seen(op[o].dirty, scopes)
  BY <1>1, <1>3, <1>7, <1>11 DEF Sound, OpSound, LeaseSound, SessionOf, x
<1> HIDE DEF s
<1>13. Sound => sessions'[SessionOf(o)].sound \/ Seen(op[o].dirty, scopes)
  BY <1>12 DEF s
<1>14. op[o].pc # "settled" /\ 2 \in 0..2
  BY <1>1
<1>15. /\ sessions' = [sessions EXCEPT ![s] = z] /\ s # stored
       /\ s \in Session => SessionTyped(z)
  BY <1>2, <1>4, <1>9
<1> QED
  BY <1>1, <1>8, <1>10, <1>13, <1>14, <1>15, PopKeepsScopes

(* What the GPU work of an operation raises, one of its scopes records.    *)
LEMMA RunEncodesKeepsScopes ==
    ASSUME NEW awaited, Inv, ScopeInv(awaited), NEW o \in Op,
           NEW hit \in Hit, RunEncodes(o, hit)
    PROVE  ScopeInv(awaited)'
<1> DEFINE s == SessionOf(o)
           x == sessions[s]
           kind == op[o].kind
           written == [step |-> x.tokens + 1, prefill |-> x.plan.prefill]
           writes == kind \in DOMAIN written
           rows == IF writes THEN written[kind] ELSE x.rows
           wrote == IF writes THEN kind ELSE x.wrote
           sound == x.sound /\ hit = 0
           z == [x EXCEPT !.poisoned = TRUE, !.sound = sound, !.rows = rows,
                          !.wrote = wrote]
           y == [op[o] EXCEPT !.pc = "gpu"]
<1>1. /\ op[o].pc = "queued" /\ kind # "begin" /\ scopes' = Pushed(3, hit)
      /\ sessions' = [sessions EXCEPT ![s] = z]
      /\ UNCHANGED <<resident, stored, generation>>
  BY DEF RunEncodes, ownerVars, Checked
<1>2. op' = [op EXCEPT ![o] = y]
  BY Zenon DEF RunEncodes
<1>3. HoldsLease(op[o])
  BY <1>1, RunningHolds
<1>4. s \in Session /\ s # stored /\ DOMAIN x = SessionFields /\ SessionTyped(x)
        /\ DOMAIN sessions = Session
  BY <1>3, HeldSession DEF Inv, Shape, ScopeInv, Typed
<1>5. sound \in BOOLEAN
  BY Zenon
<1>6. wrote \in {"none", "step", "prefill"}
  BY <1>4 DEF SessionTyped
<1> HIDE DEF written, writes, rows, wrote, sound, x
<1>7. /\ z.plan = x.plan /\ z.tokens = x.tokens /\ z.ready = x.ready
      /\ z.poisoned = TRUE /\ z.sound = sound /\ z.wrote = wrote
  BY <1>4 DEF SessionFields
<1>8. /\ y.pc = "gpu" /\ y.kind = kind /\ y.held = op[o].held
      /\ y.left = op[o].left /\ y.dirty = op[o].dirty /\ y.key = op[o].key
      /\ y.candidate = op[o].candidate
  BY DEF Inv, Shape, OpFields
<1> HIDE DEF y, z
<1>9. SessionTyped(z)
  BY <1>4, <1>5, <1>6, <1>7 DEF SessionTyped
<1>10. OpTyped(op[o]) /\ OpTyped(y)
  BY <1>8 DEF ScopeInv, Typed, OpTyped, PC
<1>11. hit \in 0..3 /\ scopes \in Seq(BOOLEAN) /\ Len(scopes) \in Nat
  BY HitIsScope DEF ScopeInv, Typed
<1>12. /\ scopes' \in Seq(BOOLEAN) /\ Len(scopes') = Len(scopes) + 3
       /\ scopes = <<>> /\ hit \in 1..3 => scopes'[hit]
  <2>1. Typed /\ 3 \in 0..3
    BY DEF ScopeInv
  <2>2. /\ Pushed(3, hit) \in Seq(BOOLEAN)
        /\ Len(Pushed(3, hit)) = Len(scopes) + 3
        /\ scopes = <<>> /\ hit \in 1..3 => Pushed(3, hit)[hit]
    BY <1>11, <2>1, PushedIsStack
  <2> QED
    BY <1>1, <2>2
<1>13. Ledger(y) = 3 /\ Ledger(op[o]) = 0
  BY <1>1, <1>8 DEF Ledger, Checked
<1>14. Len(scopes') + Ledger(op[o]) <= Len(scopes) + Ledger(y)
  BY <1>11, <1>12, <1>13
<1>15. ASSUME Sound
       PROVE  /\ ReadyIsSound' /\ ResidentIsSound'
              /\ OpSound(y, sessions', scopes', generation', stored', resident')
  <2>1. ReadyIsSound'
    BY <1>1, <1>4, <1>15, ReadyKept DEF Sound
  <2>2. ResidentIsSound'
    BY <1>1, <1>15 DEF Sound, ResidentIsSound
  <2>3. OpSound(op[o], sessions, scopes, generation, stored, resident)
    BY <1>1, <1>15 DEF Sound
  <2>4. scopes = <<>>
    BY <1>11, <1>13, <2>3 DEF OpSound
  <2>5. x.sound
    BY <1>1, <1>3, <2>3 DEF OpSound, LeaseSound, x, SessionOf
  <2>6. z.sound \/ Seen(y.dirty, scopes')
    <3>1. CASE hit = 0
      <4>1. sound
        BY <2>5, <3>1 DEF sound
      <4> QED
        BY <1>7, <4>1
    <3>2. CASE hit # 0
      <4>1. hit \in 1..Len(scopes') /\ scopes'[hit]
        BY <1>11, <1>12, <2>4, <3>2
      <4> QED
        BY <4>1 DEF Seen
    <3> QED
      BY <3>1, <3>2
  <2>7. sessions'[y.held.session] = z
    BY <1>1, <1>4, <1>8 DEF SessionOf
  <2>8. Len(scopes') <= Ledger(y)
    BY <1>11, <1>12, <1>13, <2>4
  <2> QED
    BY <1>1, <1>8, <2>1, <2>2, <2>6, <2>7, <2>8 DEF OpSound, LeaseSound
<1>16. resident' \in [key : Key \union {NoKey}, sound : BOOLEAN]
         /\ (resident'.key = NoKey => resident' = NoResident)
  BY <1>1 DEF ScopeInv, Typed
<1> HIDE DEF s
<1> QED
  BY <1>1, <1>2, <1>9, <1>10, <1>12, <1>14, <1>15, <1>16, MovedStep

LEMMA GpuMovesKeepScopes ==
    ASSUME NEW awaited, Inv, ScopeInv(awaited), NEW o \in Op,
           GpuStale(o) \/ FinishReadsKeys(o)
    PROVE  ScopeInv(awaited)'
<1>1. PICK pc \in {"stale", "gpu2"} : op' = [op EXCEPT ![o].pc = pc]
  BY DEF GpuStale, FinishReadsKeys
<1>2. op[o].pc = "gpu"
        /\ UNCHANGED <<stored, generation, sessions, resident, scopes>>
  BY DEF GpuStale, FinishReadsKeys, ownerVars
<1> DEFINE y == [op[o] EXCEPT !.pc = pc]
<1>3. op' = [op EXCEPT ![o] = y]
  BY <1>1, Zenon
<1>4. /\ y.pc = pc /\ y.kind = op[o].kind /\ y.held = op[o].held
      /\ y.left = op[o].left /\ y.dirty = op[o].dirty /\ y.key = op[o].key
      /\ y.candidate = op[o].candidate
  BY DEF Inv, Shape, OpFields
<1> HIDE DEF y
<1>5. OpTyped(op[o]) /\ OpTyped(y)
  BY <1>4 DEF ScopeInv, Typed, OpTyped, PC
<1>6. Ledger(y) = 3 /\ Ledger(op[o]) = 3
  BY <1>2, <1>4 DEF Ledger, Checked
<1>7. scopes' \in Seq(BOOLEAN)
        /\ Len(scopes') + Ledger(op[o]) <= Len(scopes) + Ledger(y)
  BY <1>2, <1>6 DEF ScopeInv, Typed
<1>8. ASSUME Sound
      PROVE  /\ ReadyIsSound' /\ ResidentIsSound'
             /\ OpSound(y, sessions', scopes', generation', stored', resident')
  <2>1. ReadyIsSound' /\ ResidentIsSound'
    BY <1>2, <1>8 DEF Sound, ReadyIsSound, ResidentIsSound, Usable
  <2>2. OpSound(op[o], sessions, scopes, generation, stored, resident)
    BY <1>2, <1>8 DEF Sound
  <2>3. OpSound(y, sessions, scopes, generation, stored, resident)
    BY <1>2, <1>4, <1>6, <2>2 DEF OpSound, LeaseSound, BeginSound, HoldsLease
  <2> QED
    BY <1>2, <2>1, <2>3
<1>9. resident' \in [key : Key \union {NoKey}, sound : BOOLEAN]
        /\ (resident'.key = NoKey => resident' = NoResident)
  BY <1>2 DEF ScopeInv, Typed
<1> QED
  BY <1>2, <1>3, <1>5, <1>7, <1>8, <1>9, MovedStep
-----------------------------------------------------------------------------
(* begin.                                                                  *)

(* Its weights are uploaded, or shared with a cache that is sound.         *)
LEMMA SharedOrUploaded ==
    ASSUME Typed, ResidentIsSound, NEW k,
           NEW pack, pack \/ (k # NoKey /\ resident.key = k),
           NEW sound, sound <=> IF Cached(k)
                                THEN resident = [key |-> k, sound |-> TRUE]
                                ELSE pack
    PROVE  sound
<1>1. CASE k # NoKey /\ resident.key = k
  <2>1. resident # NoResident
    BY <1>1 DEF NoResident
  <2>2. resident.sound = TRUE
    BY <2>1 DEF ResidentIsSound, Typed
  <2>3. resident = [key |-> k, sound |-> TRUE]
    BY <1>1, <2>2 DEF Typed
  <2> QED
    BY <1>1, <2>3 DEF Cached
<1>2. CASE ~(k # NoKey /\ resident.key = k)
  BY <1>2, Zenon DEF Cached
<1> QED
  BY <1>1, <1>2

LEMMA RunBeginStoresKeepsScopes ==
    ASSUME NEW awaited, Inv, CacheInv, ScopeInv(awaited), NEW o \in Op,
           NEW s \in Session,
           NEW hit \in Hit, RunBeginStores(o, s, hit)
    PROVE  ScopeInv(awaited)'
<1> DEFINE b == op[o]
           cached == Cached(b.key)
           n == IF PrefillCapable(b.plan) THEN 0 ELSE InitialTokens(b.plan)
           good == IF cached THEN resident = [key |-> b.key, sound |-> TRUE]
                   ELSE b.pack
           sound == hit = 0 /\ good
           z == [Dropped EXCEPT !.plan = b.plan, !.tokens = n, !.rows = n,
                                !.sound = sound]
           held == [generation |-> lastGeneration + 1, lease |-> 0, session |-> s]
           candidate == ~cached /\ b.key # NoKey
           x == [b EXCEPT !.held = held, !.candidate = candidate]
           stack == Pushed(3, hit)
<1>1. /\ b.pc = "queued" /\ b.kind = "begin" /\ Owner!Begin(s)
      /\ sessions' = [sessions EXCEPT ![s] = z]
      /\ PopStarted(o, x, "beginDrain", 2, stack) /\ UNCHANGED resident
  <2>1. /\ b.pc = "queued" /\ b.kind = "begin" /\ Owner!Begin(s)
        /\ sessions' = [sessions EXCEPT ![s] = z]
        /\ PopStarted(o, x, "beginDrain", Checked - 1, Pushed(Checked, hit))
        /\ UNCHANGED resident
    BY DEF RunBeginStores
  <2> HIDE DEF b, z, x
  <2>2. Checked - 1 = 2 /\ Pushed(Checked, hit) = stack
    BY DEF Checked
  <2> HIDE DEF stack
  <2> QED
    BY <2>1, <2>2
<1>2. sound \in BOOLEAN /\ (candidate => b.key # NoKey)
  BY Zenon
<1>3. held.session = s /\ held.generation = lastGeneration + 1
  OBVIOUS
<1>4. sound <=> hit = 0 /\ good
  OBVIOUS
<1>5. good <=> IF Cached(b.key) THEN resident = [key |-> b.key, sound |-> TRUE]
               ELSE b.pack
  OBVIOUS
<1> HIDE DEF cached, good, sound, n, held, candidate
<1>6. /\ z.plan = b.plan /\ z.wrote = "none" /\ z.tokens = n /\ z.rows = n
      /\ z.ready = FALSE /\ z.poisoned = FALSE /\ z.sound = sound
  BY DEF Dropped
<1>7. /\ DOMAIN x = OpFields /\ x.kind = b.kind /\ x.held = held
      /\ x.key = b.key /\ x.candidate = candidate
  BY DEF Inv, Shape, OpFields
<1> HIDE DEF x, z, stack
<1>8. b.plan \in Descriptor /\ PlanAdmitted(b.plan)
  BY <1>1 DEF CacheInv, OpsCache, OpCache
<1>9. AtRest(z)
  BY <1>6, <1>8, NewSessionAtRest DEF n
<1>10. SessionTyped(z)
  <2>1. z.tokens \in 0..z.plan.capacity
    BY <1>9, DescriptorIsDescriptor DEF AtRest
  <2> QED
    BY <1>2, <1>6, <1>8, <2>1 DEF SessionTyped
<1>11. hit \in 0..3 /\ scopes \in Seq(BOOLEAN) /\ Len(scopes) \in Nat
  BY HitIsScope DEF ScopeInv, Typed
<1>12. /\ stack \in Seq(BOOLEAN) /\ Len(stack) = Len(scopes) + 3
       /\ scopes = <<>> /\ hit \in 1..3 => stack[hit]
  <2>1. Typed /\ 3 \in 0..3
    BY DEF ScopeInv
  <2> QED
    BY <1>11, <2>1, PushedIsStack DEF stack
<1>13. PICK y : /\ op' = [op EXCEPT ![o] = y] /\ DOMAIN y = OpFields
                /\ y.pc = "beginDrain" /\ y.left = 2 /\ y.dirty \in BOOLEAN
                /\ y.kind = x.kind /\ y.held = x.held
                /\ y.key = x.key /\ y.candidate = x.candidate
                /\ Seen(x.dirty, stack) => Seen(y.dirty, scopes')
                /\ scopes' \in Seq(BOOLEAN)
                /\ Len(scopes') = IF stack = <<>> THEN 0 ELSE Len(stack) - 1
  BY <1>1, <1>7, <1>12, PopEffect
<1>14. Len(scopes') = Len(scopes) + 2
  BY <1>11, <1>12, <1>13
<1>15. OpTyped(y)
  <2>1. y.held.session = s /\ y.key = b.key /\ y.candidate = candidate
    BY <1>3, <1>7, <1>13
  <2>2. y.candidate => y.key # NoKey
    BY <1>2, <2>1, Zenon
  <2>3. b.key \in Key \union {NoKey}
    BY DEF ScopeInv, Typed, OpTyped
  <2>4. y.kind = "begin"
    BY <1>1, <1>7, <1>13
  <2> QED
    BY <1>13, <2>1, <2>2, <2>3, <2>4 DEF OpTyped, PC, OpKind, Checked
<1>16. Ledger(y) = 2 /\ Ledger(b) = 0
  BY <1>1, <1>13 DEF Ledger
<1>17. /\ stored' = s /\ generation' = lastGeneration + 1
       /\ lastGeneration \in Nat
  BY <1>1, CounterMaxIsNat
  DEF Owner!Begin, Inv, Proved!IInv, Proved!TypeOK, Proved!Id
<1>18. sessions'[s] = z
  BY <1>1 DEF Inv, Shape
<1>19. ASSUME Sound
       PROVE  /\ ReadyIsSound' /\ ResidentIsSound'
              /\ OpSound(y, sessions', scopes', generation', stored', resident')
  <2>1. ReadyIsSound'
    BY <1>6, <1>17, <1>18 DEF ReadyIsSound, Usable
  <2>2. ResidentIsSound'
    BY <1>1, <1>19 DEF Sound, ResidentIsSound
  <2>3. OpSound(b, sessions, scopes, generation, stored, resident)
    BY <1>1, <1>19 DEF Sound
  <2>4. scopes = <<>>
    BY <1>11, <1>16, <2>3 DEF OpSound
  <2>5. good
    <3>1. b.pack \/ (b.key # NoKey /\ resident.key = b.key)
      BY <1>1, <2>3 DEF OpSound, BeginSound
    <3>2. Typed /\ ResidentIsSound
      BY <1>19 DEF ScopeInv, Sound
    <3> HIDE DEF b
    <3> QED
      BY <1>5, <3>1, <3>2, SharedOrUploaded
  <2>6. z.sound \/ Seen(y.dirty, scopes')
    <3>1. CASE hit = 0
      <4>1. sound
        BY <1>4, <2>5, <3>1
      <4> QED
        BY <1>6, <4>1
    <3>2. CASE hit # 0
      <4>1. hit \in 1..Len(stack) /\ stack[hit]
        BY <1>11, <1>12, <2>4, <3>2
      <4> QED
        BY <1>13, <4>1 DEF Seen
    <3> QED
      BY <3>1, <3>2
  <2>7. Len(scopes') <= Ledger(y)
    BY <1>14, <1>16, <2>4
  <2>8. y.held.session = s /\ y.held.generation = generation' /\ generation' # 0
    BY <1>3, <1>7, <1>13, <1>17
  <2>9. BeginSound(y, sessions', scopes', generation', stored', resident')
    BY <1>6, <1>13, <1>17, <1>18, <2>6, <2>8 DEF BeginSound
  <2>10. ~HoldsLease(y)
    BY <1>1, <1>7, <1>13 DEF HoldsLease
  <2> QED
    BY <2>1, <2>2, <2>7, <2>9, <2>10 DEF OpSound
<1>20. resident' \in [key : Key \union {NoKey}, sound : BOOLEAN]
         /\ (resident'.key = NoKey => resident' = NoResident)
  BY <1>1 DEF ScopeInv, Typed
<1>21. Len(scopes') + Ledger(op[o]) <= Len(scopes) + Ledger(y)
  BY <1>11, <1>14, <1>16
<1>22. op[o].pc # "settled"
  BY <1>1
<1>23. /\ sessions' = [sessions EXCEPT ![s] = z]
       /\ s \in Session => SessionTyped(z)
  BY <1>1, <1>10
<1> HIDE DEF b
<1> QED
  BY <1>13, <1>15, <1>19, <1>20, <1>21, <1>22, <1>23, MovedStep
-----------------------------------------------------------------------------
(* An operation settles: its ledger is empty.                              *)
LEMMA SettledStep ==
    ASSUME NEW awaited, Inv, ScopeInv(awaited), NEW o \in Op,
           op[o].pc # "settled", Ledger(op[o]) = 0,
           op' = [op EXCEPT ![o] = Settled], UNCHANGED scopes,
           NEW s, NEW z,
           \/ UNCHANGED sessions
           \/ /\ sessions' = [sessions EXCEPT ![s] = z]
              /\ s \in Session => SessionTyped(z),
           resident' \in [key : Key \union {NoKey}, sound : BOOLEAN],
           resident'.key = NoKey => resident' = NoResident,
           awaited /\ Sound => ReadyIsSound' /\ ResidentIsSound'
    PROVE  ScopeInv(awaited)'
<1> DEFINE y == Settled
<1>1. y.pc = "settled" /\ y.kind = "none" /\ y.left = 0 /\ y.dirty = FALSE
        /\ y.held.session = NoSession /\ y.key = NoKey /\ ~y.candidate
  BY DEF Settled, Unheld
<1>2. op' = [op EXCEPT ![o] = y]
  OBVIOUS
<1> HIDE DEF y
<1>3. OpTyped(y) /\ Ledger(y) = 0
  <2>1. y.dirty \in BOOLEAN
    BY <1>1
  <2>2. ~y.candidate
    BY <1>1, Zenon
  <2> QED
    BY <1>1, <2>1, <2>2 DEF OpTyped, PC, OpKind, Checked, Ledger
<1>4. scopes' \in Seq(BOOLEAN)
        /\ Len(scopes') + Ledger(op[o]) <= Len(scopes) + Ledger(y)
  BY <1>3 DEF ScopeInv, Typed
<1>5. awaited /\ Sound =>
        /\ ReadyIsSound' /\ ResidentIsSound'
        /\ y.pc # "settled" =>
              OpSound(y, sessions', scopes', generation', stored', resident')
  BY <1>1
<1> QED
  BY <1>2, <1>3, <1>4, <1>5, MovedStep

(* The session and the weights of a begin that captured no error are sound.*)
LEMMA CleanBegin ==
    ASSUME Sound, Typed, NEW o \in Op, op[o].kind = "begin",
           op[o].pc = "beginDrain", op[o].left = 0, ~op[o].dirty, ~IsStale(o)
    PROVE  stored = SessionOf(o) /\ sessions[stored].sound
<1>1. OpSound(op[o], sessions, scopes, generation, stored, resident)
  BY DEF Sound
<1>2. Len(scopes) = 0
  BY <1>1 DEF OpSound, Ledger, Typed
<1>3. ~Seen(op[o].dirty, scopes)
  BY <1>2 DEF Seen
<1> QED
  BY <1>1, <1>3 DEF OpSound, BeginSound, IsStale, SessionOf

LEMMA BeginReadyKeepsScopes ==
    ASSUME NEW awaited, Inv, ScopeInv(awaited), NEW o \in Op,
           BeginReady(o)
    PROVE  ScopeInv(awaited)'
<1> DEFINE z == [sessions[stored] EXCEPT !.ready = TRUE]
           sound == sessions[SessionOf(o)].sound
           key == op[o].key
<1>1. /\ op[o].pc = "beginDrain" /\ op[o].left = 0 /\ ~op[o].dirty /\ ~IsStale(o)
      /\ op' = [op EXCEPT ![o] = Settled] /\ UNCHANGED <<scopes, stored>>
      /\ resident' = IF op[o].candidate THEN [key |-> key, sound |-> sound]
                     ELSE resident
  BY DEF BeginReady, BeginDrained, ownerVars
<1>2. sessions' = [sessions EXCEPT ![stored] = z]
  BY BeginFlags, Zenon DEF BeginReady
<1>3. op[o].kind = "begin"
  BY <1>1 DEF Inv, OpsHold, Sane
<1>4. stored \in Session =>
        /\ DOMAIN sessions = Session
        /\ DOMAIN sessions[stored] = SessionFields
        /\ SessionTyped(sessions[stored])
  BY DEF Inv, Shape, ScopeInv, Typed
<1>5. stored \in Session =>
        /\ z.plan = sessions[stored].plan /\ z.tokens = sessions[stored].tokens
        /\ z.ready = TRUE /\ z.poisoned = sessions[stored].poisoned
        /\ z.sound = sessions[stored].sound /\ z.wrote = sessions[stored].wrote
  BY <1>4 DEF SessionFields
<1> HIDE DEF z
<1>6. stored \in Session => SessionTyped(z)
  BY <1>4, <1>5 DEF SessionTyped
<1>7. OpTyped(op[o])
  BY DEF ScopeInv, Typed
<1>8. SessionOf(o) \in Session
  BY <1>1, <1>7 DEF OpTyped, SessionOf
<1>9. sound \in BOOLEAN /\ (op[o].candidate => key # NoKey)
        /\ key \in Key \union {NoKey}
  BY <1>7, <1>8 DEF OpTyped, ScopeInv, Typed, SessionTyped
<1>10. ASSUME Sound PROVE sound /\ stored = SessionOf(o) /\ sessions[stored].sound
  BY <1>1, <1>3, <1>10, CleanBegin DEF ScopeInv
<1> HIDE DEF sound, key
<1>11. /\ resident' \in [key : Key \union {NoKey}, sound : BOOLEAN]
       /\ resident'.key = NoKey => resident' = NoResident
  BY <1>1, <1>9 DEF ScopeInv, Typed
<1>12. ASSUME Sound PROVE ReadyIsSound' /\ ResidentIsSound'
  <2>1. stored \in Session => sessions'[stored].sound
    BY <1>2, <1>4, <1>5, <1>10, <1>12
  <2>2. ReadyIsSound'
    BY <1>1, <2>1, StoredIsSession DEF ReadyIsSound, Usable
  <2>3. ResidentIsSound'
    BY <1>1, <1>10, <1>12 DEF ResidentIsSound, Sound
  <2> QED
    BY <2>2, <2>3
<1>13. Ledger(op[o]) = 0 /\ op[o].pc # "settled"
  BY <1>1 DEF Ledger
<1> QED
  BY <1>1, <1>2, <1>6, <1>11, <1>12, <1>13, SettledStep

LEMMA BeginPoisonsKeepsScopes ==
    ASSUME NEW awaited, Inv, ScopeInv(awaited), NEW o \in Op,
           BeginPoisons(o)
    PROVE  ScopeInv(awaited)'
<1> DEFINE z == [sessions[stored] EXCEPT !.poisoned = TRUE]
<1>1. /\ op[o].pc = "beginDrain" /\ op[o].left = 0
      /\ op' = [op EXCEPT ![o] = Settled]
      /\ UNCHANGED <<scopes, stored, resident>>
  BY DEF BeginPoisons, BeginDrained, ownerVars
<1>2. sessions' = [sessions EXCEPT ![stored] = z]
  BY BeginFlags, Zenon DEF BeginPoisons
<1>3. stored \in Session =>
        /\ DOMAIN sessions = Session
        /\ DOMAIN sessions[stored] = SessionFields
        /\ SessionTyped(sessions[stored])
  BY DEF Inv, Shape, ScopeInv, Typed
<1>4. stored \in Session =>
        /\ z.plan = sessions[stored].plan /\ z.tokens = sessions[stored].tokens
        /\ z.ready = sessions[stored].ready /\ z.poisoned = TRUE
        /\ z.sound = sessions[stored].sound /\ z.wrote = sessions[stored].wrote
  BY <1>3 DEF SessionFields
<1> HIDE DEF z
<1>5. stored \in Session => SessionTyped(z)
  BY <1>3, <1>4 DEF SessionTyped
<1>6. /\ resident' \in [key : Key \union {NoKey}, sound : BOOLEAN]
      /\ resident'.key = NoKey => resident' = NoResident
  BY <1>1 DEF ScopeInv, Typed
<1>7. ASSUME Sound PROVE ReadyIsSound' /\ ResidentIsSound'
  <2>1. stored \in Session => sessions'[stored].poisoned
    BY <1>2, <1>3, <1>4
  <2> QED
    BY <1>1, <1>7, <2>1, StoredIsSession
    DEF ReadyIsSound, Usable, ResidentIsSound, Sound
<1>8. Ledger(op[o]) = 0 /\ op[o].pc # "settled"
  BY <1>1 DEF Ledger
<1> QED
  BY <1>1, <1>2, <1>5, <1>6, <1>7, <1>8, SettledStep

LEMMA BeginEndsKeepScopes ==
    ASSUME NEW awaited, Inv, ScopeInv(awaited), NEW o \in Op,
           BeginUnsupported(o) \/ BeginFailed(o) \/ BeginStale(o)
    PROVE  ScopeInv(awaited)'
<1>1. /\ op' = [op EXCEPT ![o] = Settled]
      /\ UNCHANGED <<scopes, stored, resident, sessions>>
  BY DEF BeginUnsupported, BeginFailed, BeginStale, BeginDrained, ownerVars
<1>2. Ledger(op[o]) = 0 /\ op[o].pc # "settled"
  BY DEF BeginUnsupported, BeginFailed, BeginStale, BeginDrained, Drained, Ledger
<1>3. /\ resident' \in [key : Key \union {NoKey}, sound : BOOLEAN]
      /\ resident'.key = NoKey => resident' = NoResident
  BY <1>1 DEF ScopeInv, Typed
<1>4. Sound => ReadyIsSound' /\ ResidentIsSound'
  BY <1>1 DEF Sound, ReadyIsSound, Usable, ResidentIsSound
<1> QED
  BY <1>1, <1>2, <1>3, <1>4, SettledStep
-----------------------------------------------------------------------------
(* The lease is completed.  A session that is handed back unpoisoned is    *)
(* sound: an error would be in the ledger, or still in a scope.            *)
LEMMA SettleKeepsScopes ==
    ASSUME NEW awaited, Inv, ScopeInv(awaited), NEW o \in Op,
           op[o].pc # "settled",
           op[o].pc # "beginDrain", Ledger(op[o]) = 0,
           NEW action \in {"restore", "finish"}, NEW poisoned \in BOOLEAN,
           Settle(o, action, poisoned),
           Sound /\ action = "restore" /\ ~poisoned => sessions[SessionOf(o)].sound
    PROVE  ScopeInv(awaited)'
<1> DEFINE s == SessionOf(o)
           w == [sessions[s] EXCEPT !.poisoned = poisoned]
           z == IF stored' = s THEN w ELSE Dropped
<1>1. /\ Owner!Complete(op[o].held, action)
      /\ op' = [op EXCEPT ![o] = Settled]
      /\ sessions' = [sessions EXCEPT ![s] = z]
      /\ UNCHANGED <<resident, scopes>>
  BY DEF Settle
<1>2. s \in Session /\ s # stored
  BY <1>1, OwnerFacts DEF Inv, Owner!Complete, SessionOf
<1>3. DOMAIN sessions = Session /\ DOMAIN sessions[s] = SessionFields
        /\ SessionTyped(sessions[s])
  BY <1>2 DEF Inv, Shape, ScopeInv, Typed
<1>4. /\ w.plan = sessions[s].plan /\ w.tokens = sessions[s].tokens
      /\ w.ready = sessions[s].ready /\ w.wrote = sessions[s].wrote
      /\ w.sound = sessions[s].sound /\ w.poisoned = poisoned
  BY <1>3 DEF SessionFields
<1> HIDE DEF w
<1>5. SessionTyped(z)
  <2>1. SessionTyped(w)
    BY <1>3, <1>4 DEF SessionTyped
  <2>2. SessionTyped(Dropped)
    BY DEF SessionTyped, Dropped, NoPlan
  <2> QED
    BY <2>1, <2>2
<1>6. \/ stored' = stored
      \/ action = "restore" /\ stored' = s
  BY <1>1 DEF Owner!Complete, Owner!CompleteStale, Owner!CompleteCancelled,
     Owner!CompleteRestore, Owner!CompleteFinish, Owner!ownerVars, SessionOf
<1>7. ASSUME Sound PROVE ReadyIsSound' /\ ResidentIsSound'
  <2>1. ResidentIsSound'
    BY <1>1, <1>7 DEF Sound, ResidentIsSound
  <2>2. CASE stored' = stored
    <3>1. ReadyIsSound
      BY <1>7 DEF Sound
    <3> QED
      BY ONLY Inv, <1>1, <1>2, <2>1, <2>2, <3>1, ReadyKept
  <2>3. CASE action = "restore" /\ stored' = s
    <3>1. sessions'[s] = w
      BY <1>1, <1>2, <1>3, <2>3
    <3>2. ~poisoned => sessions[s].sound
      BY <1>7, <2>3
    <3> QED
      BY <1>4, <2>1, <2>3, <3>1, <3>2 DEF ReadyIsSound, Usable
  <2> QED
    BY <1>6, <2>2, <2>3
<1>8. /\ resident' \in [key : Key \union {NoKey}, sound : BOOLEAN]
      /\ resident'.key = NoKey => resident' = NoResident
  BY <1>1 DEF ScopeInv, Typed
<1>9. /\ sessions' = [sessions EXCEPT ![s] = z]
      /\ s \in Session => SessionTyped(z)
  BY <1>1, <1>5
<1> HIDE DEF s, z
<1> QED
  BY <1>1, <1>7, <1>8, <1>9, SettledStep

LEMMA SettlesKeepScopes ==
    ASSUME NEW awaited, Inv, ScopeInv(awaited), NEW o \in Op,
           Failed(o) \/ StaleDone(o) \/ Captured(o) \/ Done(o)
    PROVE  ScopeInv(awaited)'
<1>1. PICK pc \in {"okDrain", "failDrain", "staleDrain"} : Drained(o, pc)
  BY DEF Failed, StaleDone, Captured, Done
<1>2. /\ op[o].pc # "settled" /\ op[o].pc # "beginDrain" /\ op[o].left = 0
      /\ Ledger(op[o]) = 0
  BY <1>1 DEF Drained, Ledger
<1>3. CASE Settle(o, "restore", TRUE)
  BY <1>2, <1>3, SettleKeepsScopes
<1>4. CASE Settle(o, "finish", TRUE)
  BY <1>2, <1>4, SettleKeepsScopes
<1>5. CASE /\ Settle(o, "restore", FALSE) /\ ~op[o].dirty
           /\ op[o].pc = "okDrain"
  <2>1. op[o].held \in callers
    BY <1>5 DEF Settle, Owner!Complete
  <2>2. HoldsLease(op[o])
    BY <2>1, OwnerFacts DEF Inv, OpsHold, Sane
  <2>3. ASSUME Sound PROVE sessions[SessionOf(o)].sound
    <3>1. OpSound(op[o], sessions, scopes, generation, stored, resident)
      BY <1>2, <2>3 DEF Sound
    <3>2. Len(scopes) = 0
      BY <1>2, <3>1 DEF OpSound, ScopeInv, Typed
    <3>3. ~Seen(op[o].dirty, scopes)
      BY <1>5, <3>2 DEF Seen
    <3> QED
      BY <1>5, <2>2, <3>1, <3>3 DEF OpSound, LeaseSound, SessionOf
  <2> QED
    BY <1>2, <1>5, <2>3, SettleKeepsScopes
<1> QED
  BY <1>3, <1>4, <1>5 DEF Failed, StaleDone, Captured, Done, Drained
-----------------------------------------------------------------------------
LEMMA InitScopes == ASSUME NEW awaited, Init PROVE ScopeInv(awaited)
<1>1. /\ stored = NoSession /\ op = [o \in Op |-> Settled] /\ scopes = <<>>
      /\ sessions = [s \in Session |-> Dropped] /\ resident = NoResident
  BY DEF Init, Owner!Init
<1>2. Typed
  <2>1. SessionTyped(Dropped)
    BY DEF SessionTyped, Dropped, NoPlan
  <2>2. OpTyped(Settled)
    BY DEF OpTyped, Settled, Unheld, PC, OpKind, Checked
  <2>3. resident \in [key : Key \union {NoKey}, sound : BOOLEAN]
    BY <1>1 DEF NoResident
  <2> QED
    BY <1>1, <2>1, <2>2, <2>3 DEF Typed
<1>3. Counted
  <2>1. Settled.pc = "settled"
    BY DEF Settled
  <2>2. Owed = {}
    BY <1>1, <2>1 DEF Owed, Ledger
  <2> QED
    BY <1>1, <2>2, FS_EmptySet DEF Counted
<1>4. Sound
  <2>1. Settled.pc = "settled"
    BY DEF Settled
  <2> QED
    BY <1>1, <2>1 DEF Sound, OneAtATime, ReadyIsSound, Usable, ResidentIsSound
<1> QED
  BY <1>2, <1>3, <1>4 DEF ScopeInv

LEMMA RunsKeepScopes ==
    ASSUME NEW awaited, Inv, CacheInv, ScopeInv(awaited), NEW o \in Op, Runs(o)
    PROVE  ScopeInv(awaited)'
  BY BeginEndsKeepScopes, BeginReadyKeepsScopes, BeginPoisonsKeepsScopes,
     RunBeginFailsKeepsScopes, RunBeginStoresKeepsScopes, RunFailsKeepsScopes,
     RunEncodesKeepsScopes, GpuMovesKeepScopes, GpuReadsKeepsScopes,
     FirstPopsKeepScopes, PopsKeepScopes, SettlesKeepScopes
  DEF Runs

LEMMA IdleKeepsScopes ==
    ASSUME NEW awaited, ScopeInv(awaited),
           UNCHANGED <<stored, generation, sessions, resident, scopes, op>>
    PROVE  ScopeInv(awaited)'
  BY DEF ScopeInv, Typed, Counted, Owed, Sound, OneAtATime, ReadyIsSound,
     ResidentIsSound, Usable

LEMMA NextKeepsScopes ==
    Inv /\ CacheInv /\ ScopeInv(AwaitsCalls) /\ [Next]_vars
        => ScopeInv(AwaitsCalls)'
<1> SUFFICES ASSUME Inv, CacheInv, ScopeInv(AwaitsCalls), [Next]_vars
             PROVE  ScopeInv(AwaitsCalls)'
  OBVIOUS
<1>1. CASE UNCHANGED vars
  BY <1>1, IdleKeepsScopes DEF vars, ownerVars
<1>2. CASE Abort
  BY <1>2, AbortKeepsScopes
<1>3. ASSUME NEW o \in Op, Calls(o) PROVE ScopeInv(AwaitsCalls)'
  <2>1. CASE RejectedCall(o)
    BY <2>1, RejectedCallKeepsScopes
  <2>2. CASE ~RejectedCall(o)
    <3>1. AwaitsCalls => NothingPending
      BY <1>3, <2>2 DEF Calls, MayCall, CallBegin, CallBeginResident, CallStep,
         CallPrefill, CallReadout, CallFinish, Call, NothingPending
    <3> QED
      BY <1>3, <2>2, <3>1, BeginCallsKeepScopes, CallsKeepScopes DEF Calls
  <2> QED
    BY <2>1, <2>2
<1>4. ASSUME NEW o \in Op, Runs(o) PROVE ScopeInv(AwaitsCalls)'
  BY <1>4, RunsKeepScopes
<1> QED
  BY <1>1, <1>2, <1>3, <1>4 DEF Next

LEMMA ScopesAlways == Spec => []ScopeInv(AwaitsCalls)
<1>1. Init => ScopeInv(AwaitsCalls)
  BY InitScopes
<1>2. Inv /\ CacheInv /\ ScopeInv(AwaitsCalls) /\ [Next]_vars
        => ScopeInv(AwaitsCalls)'
  BY NextKeepsScopes
<1> QED
  BY <1>1, <1>2, InvAlways, CacheAlways, PTL DEF Spec

LEMMA TypedIsTypeOK ==
    ASSUME NEW awaited, Inv, ScopeInv(awaited) PROVE TypeOK
<1>1. Owner!TypeOK
  BY DEF Inv, Proved!IInv, Proved!TypeOK, Owner!TypeOK, Proved!Id, Owner!Id,
     Proved!Caller, Owner!Caller
<1> QED
  BY <1>1 DEF ScopeInv, Typed, SessionTyped, OpTyped, TypeOK, SessionOf

(* Every state of the sessions, of the resident weights, of the scopes and *)
(* of the operations is one that the code has.                             *)
THEOREM TypesHold == Spec => []TypeOK
<1>1. Inv /\ ScopeInv(AwaitsCalls) => TypeOK
  BY TypedIsTypeOK
<1> QED
  BY <1>1, InvAlways, ScopesAlways, PTL

(* However operations overlap, fail, are aborted and push and pop each     *)
(* other's scopes: once none of them is pending, no scope is left that     *)
(* would capture an error of a later operation.                            *)
THEOREM NoScopeIsLeft == Spec => []ScopesAreDrained
<1>1. ScopeInv(AwaitsCalls) => ScopesAreDrained
  BY NothingOwed DEF ScopeInv, ScopesAreDrained
<1> QED
  BY <1>1, ScopesAlways, PTL

(* Of a client that awaits its calls, a session that can be used is sound: *)
(* every GPU error that an operation of it raised has poisoned it.         *)
THEOREM UsableIsSound == AwaitsCalls => (Spec => []ReadyIsSound)
<1> SUFFICES ASSUME AwaitsCalls PROVE Spec => []ReadyIsSound
  OBVIOUS
<1>1. ScopeInv(AwaitsCalls) => ReadyIsSound
  BY DEF ScopeInv, Sound
<1> QED
  BY <1>1, ScopesAlways, PTL

(* Of such a client, the weights that stay resident are those of the       *)
(* checkpoint that keys them, and their upload raised no error.            *)
THEOREM ResidentsAreSound == AwaitsCalls => (Spec => []ResidentIsSound)
<1> SUFFICES ASSUME AwaitsCalls PROVE Spec => []ResidentIsSound
  OBVIOUS
<1>1. ScopeInv(AwaitsCalls) => ResidentIsSound
  BY DEF ScopeInv, Sound
<1> QED
  BY <1>1, ScopesAlways, PTL
=============================================================================

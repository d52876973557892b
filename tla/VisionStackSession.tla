------------------------- MODULE VisionStackSession -------------------------
(***************************************************************************)
(* The vision stack sessions of pvlc-runtime-web/src/web.rs and            *)
(* vision_stack_causal.rs, with the shard protocol of pvlc-pack.  Every    *)
(* WebRuntime owns at most one session; all of them share the device, with *)
(* its ONE stack of error scopes and its sink of uncaptured errors, and    *)
(* the cache of resident weights.                                          *)
(*                                                                         *)
(* Layers are usually enqueued synchronously, with no error scope: a GPU   *)
(* error they raise goes to whatever scope is open, or else becomes an     *)
(* uncaptured error event.  start, finish, the awaited layer and the       *)
(* one-shot kernels (projector, patch projection, vision layer, source     *)
(* replay) push error scopes, await the GPU and pop them again.            *)
(*                                                                         *)
(* Each action is a piece of code that runs without an `await`.  A call    *)
(* that is refused and changes nothing is not an action.                   *)
(***************************************************************************)
EXTENDS Integers, Sequences, FiniteSets, FiniteSetsExt

CONSTANTS Runtime,      \* the WebRuntime objects of the page
          Key, NoKey,   \* checkpoint identities; NoKey: no resident weights
          Layers,       \* the layers of a stack
          Hit,          \* GPU errors one piece of work may raise: none (0), or
                        \* one that the scope of that number records
          Faults        \* pushes and pops of error scopes the browser may refuse

ASSUME LayersIsCount == Layers \in Nat \ {0}
ASSUME HitIsScope == Hit \subseteq 0..3
ASSUME NoKeyIsNoKey == NoKey \notin Key
ASSUME FaultsAreKnown == Faults \subseteq {"push", "pop"}

VARIABLES
    rt,         \* per runtime: its owner's slot, session and scoped operation
    scopes,     \* the device's error scope stack
    late,       \* an uncaptured error event is on its way
    sink,       \* uncaptured_errors is not empty
    cache       \* the resident weight cache

vars == <<rt, scopes, late, sink, cache>>

Checked == 3    \* scopes of an operation: internal, out of memory, validation

(* A session's protocol position: the input, every layer and the post norm *)
(* are shards; each is preflighted in order, then each is executed.        *)
Shards == Layers + 2
InputPos == Shards
IsLayer(pos) == pos \in Shards + 1 .. Shards + Layers
LayerOf(pos) == pos - Shards
PostPos == 2 * Shards - 1

(* `pure` (history): every weight it bound from the cache is its model's. *)
NoSession == [mode |-> "none", key |-> NoKey, pos |-> 0, pure |-> TRUE]
Mode == {"none", "plain", "cold", "ready"}

(* The scoped operation in progress: `left` ledger scopes to pop after the *)
(* one being popped, `dirty` if it failed or a scope had captured an error; *)
(* `hurt` (history) if its GPU work raised one.                            *)
NoOp == [pc |-> "none", kind |-> "none", left |-> 0, dirty |-> FALSE,
         hurt |-> FALSE]
Kind == {"none", "start", "layer", "finish", "finishResident", "oneShot"}

(* The owner's slot: "idle", "stored", "lent" to an operation, or "doomed": *)
(* lent and aborted meanwhile.                                             *)
NewRuntime == [slot |-> "idle", x |-> NoSession, busy |-> FALSE,
               healthy |-> TRUE, occupied |-> FALSE, op |-> NoOp]

(* `layers` and `post` say whose weights the entries are, and (history)    *)
(* whether their upload raised no GPU error.                               *)
NoEntry == [key |-> NoKey, sound |-> FALSE]
Prepared(k) == [key |-> k, layers |-> <<>>, post |-> NoEntry, ready |-> FALSE]

Init ==
    /\ rt = [r \in Runtime |-> NewRuntime]
    /\ scopes = <<>>
    /\ late = FALSE
    /\ sink = FALSE
    /\ cache = Prepared(NoKey)
-----------------------------------------------------------------------------
(* The device.                                                             *)

(* n scopes pushed; the work done under them raises the error hit. *)
Pushed(n, hit) == scopes \o [i \in 1..n |-> [kind |-> i, hit |-> i = hit]]

(* Work done outside of a scoped operation: its error goes to the          *)
(* innermost scope that filters for it, whoever pushed it.                 *)
Raised(hit) ==
    LET open == {i \in DOMAIN scopes : scopes[i].kind = hit}
    IN  IF hit = 0 THEN UNCHANGED <<scopes, late>>
        ELSE IF open = {} THEN late' = TRUE /\ UNCHANGED scopes
        ELSE scopes' = [scopes EXCEPT ![Max(open)].hit = TRUE] /\ UNCHANGED late

(* The event handler installed by WebRuntime::create. *)
Deliver ==
    /\ late
    /\ late' = FALSE
    /\ sink' = TRUE
    /\ UNCHANGED <<rt, scopes, cache>>
-----------------------------------------------------------------------------
(* The resident weight cache.                                              *)

(* prepare: ready weights of the same model are kept. *)
AfterPrepare(k) == IF cache.ready /\ cache.key = k THEN cache ELSE Prepared(k)

IsReadyFor(k) == cache.ready /\ cache.key = k
(* Mutant: any prepared cache will do. *)
IsPreparedForAny(k) == cache.key # NoKey
IsPreparedFor(k) == cache.key = k

(* store_layer takes the layers in order. *)
TakesLayer(layer) == ~cache.ready /\ layer = Len(cache.layers) + 1
TakesPostNorm == ~cache.ready /\ Len(cache.layers) = Layers
-----------------------------------------------------------------------------
(* Completion.                                                             *)

Emptied(s) == [s EXCEPT !.slot = "idle", !.x = NoSession, !.busy = FALSE]

(* owner.complete and coordinate_vision_stack_completion_busy.  Mutant:    *)
(* the flag stays set when the session was aborted meanwhile.  Mutant: the *)
(* completion of an aborted session is taken for a late one.               *)
CompletedLate(s, keep) ==
    CASE s.slot = "lent" /\ keep ->
            [s EXCEPT !.slot = "stored", !.x.pos = @ + 1]
      [] s.slot = "lent" /\ ~keep -> Emptied(s)
      [] OTHER -> s
CompletedBusy(s, keep) ==
    CASE s.slot = "doomed" -> [Emptied(s) EXCEPT !.busy = TRUE]
      [] s.slot = "lent" /\ keep ->
            [s EXCEPT !.slot = "stored", !.x.pos = @ + 1]
      [] s.slot = "lent" /\ ~keep -> Emptied(s)
      [] OTHER -> s
Completed(s, keep) ==
    CASE s.slot = "doomed" -> Emptied(s)
      [] s.slot = "lent" /\ keep ->
            [s EXCEPT !.slot = "stored", !.x.pos = @ + 1]
      [] s.slot = "lent" /\ ~keep -> Emptied(s)
      [] OTHER -> s

(* The authority is dropped: scopes that are left poison the runtime.      *)
(* Mutant: they do not.                                                    *)
DroppedHealthy(s, left) == [s EXCEPT !.occupied = FALSE, !.op = NoOp]
DroppedAuthority(s, left) ==
    [s EXCEPT !.occupied = FALSE, !.op = NoOp, !.healthy = @ /\ left = 0]

(* The operation of runtime state s settles, with `left` scopes unpopped   *)
(* and uncaptured errors or not: one in which nothing failed looks at      *)
(* those, and the finish of a cold session makes the weights resident if   *)
(* they are all there.                                                     *)
Settle(r, s, left, stack, errors) ==
    LET ok == ~s.op.dirty /\ left = 0
        commits == /\ ok /\ ~errors
                   /\ s.op.kind = "finish" /\ s.x.mode = "cold"
                   /\ IsPreparedFor(s.x.key) /\ TakesPostNorm
    IN
    /\ sink' = (errors /\ ~ok)
    /\ cache' = IF commits
                THEN [cache EXCEPT !.post = [key |-> s.x.key, sound |-> ~s.op.hurt],
                                   !.ready = TRUE]
                ELSE cache
    /\ rt' = [rt EXCEPT ![r] =
                Completed(DroppedAuthority(s, left),
                          ok /\ ~errors /\ s.op.kind \in {"start", "layer"})]
    /\ scopes' = stack
    /\ UNCHANGED late

(* drain_vision_stack_error_scopes with n scopes in the ledger: the next   *)
(* pop starts; or it is refused, and the drain ends there; or all is done. *)
Drain(r, s, n, stack, errors) ==
    \/ /\ n = 0
       /\ Settle(r, s, 0, stack, errors)
    \/ /\ n > 0
       /\ rt' = [rt EXCEPT ![r] =
                    [s EXCEPT !.op.pc = "drain", !.op.left = n - 1,
                              !.op.dirty = @ \/ stack[Len(stack)].hit]]
       /\ scopes' = SubSeq(stack, 1, Len(stack) - 1)
       /\ sink' = errors
       /\ UNCHANGED <<late, cache>>
    \/ /\ n > 0
       /\ "pop" \in Faults
       /\ Settle(r, s, n, stack, errors)
-----------------------------------------------------------------------------
(* begin, preflight and abort.                                             *)

ScopesAdmit(s) == s.healthy /\ ~s.occupied
AdmitsBegin(s) == ScopesAdmit(s) /\ ~s.busy /\ s.slot = "idle"

Begun(s, mode, k) ==
    [s EXCEPT !.slot = "stored", !.busy = TRUE,
              !.x = [NoSession EXCEPT !.mode = mode, !.key = k]]

Begin(r) ==
    /\ AdmitsBegin(rt[r])
    /\ rt' = [rt EXCEPT ![r] = Begun(@, "plain", NoKey)]
    /\ UNCHANGED <<scopes, late, sink, cache>>

(* The cache is prepared first, whether or not the begin is admitted. *)
BeginResident(r, k) ==
    /\ cache' = AfterPrepare(k)
    /\ rt' = IF AdmitsBegin(rt[r])
             THEN [rt EXCEPT ![r] =
                     Begun(@, IF IsReadyFor(k) THEN "ready" ELSE "cold", k)]
             ELSE rt
    /\ UNCHANGED <<scopes, late, sink>>

Stored(r, pos) == rt[r].slot = "stored" /\ rt[r].x.pos = pos

Preflight(r) ==
    /\ rt[r].slot = "stored" /\ rt[r].x.pos < Shards
    /\ rt' = [rt EXCEPT ![r].x.pos = @ + 1]
    /\ UNCHANGED <<scopes, late, sink, cache>>

Abort(r) ==
    /\ rt[r].slot \in {"stored", "lent"}
    /\ rt' = [rt EXCEPT ![r] = IF @.slot = "stored" THEN Emptied(@)
                               ELSE [@ EXCEPT !.slot = "doomed"]]
    /\ UNCHANGED <<scopes, late, sink, cache>>
-----------------------------------------------------------------------------
(* Layers enqueued synchronously.                                          *)

(* The session is restored one position on, or finished if encoding fails. *)
Stepped(s, pure) == [s EXCEPT !.x.pos = @ + 1, !.x.pure = @ /\ pure]
Enqueued(r, failed, pure) ==
    rt' = [rt EXCEPT ![r] = IF failed THEN Emptied(@) ELSE Stepped(@, pure)]

EnqueuePlain(r, hit, failed) ==
    /\ rt[r].slot = "stored" /\ rt[r].x.mode = "plain" /\ IsLayer(rt[r].x.pos)
    /\ Enqueued(r, failed, TRUE)
    /\ Raised(hit)
    /\ UNCHANGED <<sink, cache>>

(* The weights of a cold session go to the cache, if it is still prepared  *)
(* for them; one that does not take them costs the session.                *)
EnqueueCold(r, hit, failed) ==
    LET x == rt[r].x
        stores == ~failed /\ TakesLayer(LayerOf(x.pos))
    IN
    /\ rt[r].slot = "stored" /\ x.mode = "cold" /\ IsLayer(x.pos)
    /\ IsPreparedFor(x.key)
    /\ Enqueued(r, ~stores, TRUE)
    /\ Raised(hit)
    /\ cache' = IF stores
                THEN [cache EXCEPT !.layers =
                        Append(@, [key |-> x.key, sound |-> hit = 0])]
                ELSE cache
    /\ UNCHANGED sink

(* Mutant: the identity of the cache is not looked at again. *)
EnqueueResidentUnchecked(r, hit, failed) ==
    LET x == rt[r].x IN
    /\ rt[r].slot = "stored" /\ x.mode = "ready" /\ IsLayer(x.pos)
    /\ cache.ready
    /\ Enqueued(r, failed, cache.layers[LayerOf(x.pos)].key = x.key)
    /\ Raised(hit)
    /\ UNCHANGED <<sink, cache>>
EnqueueResident(r, hit, failed) ==
    LET x == rt[r].x IN
    /\ rt[r].slot = "stored" /\ x.mode = "ready" /\ IsLayer(x.pos)
    /\ IsReadyFor(x.key)
    /\ Enqueued(r, failed, cache.layers[LayerOf(x.pos)].key = x.key)
    /\ Raised(hit)
    /\ UNCHANGED <<sink, cache>>
-----------------------------------------------------------------------------
(* The scoped operations.                                                  *)

(* What the operation validates before its first effect. *)
Admits(r, kind) ==
    CASE kind = "start" -> Stored(r, InputPos)
      [] kind = "layer" -> rt[r].slot = "stored" /\ IsLayer(rt[r].x.pos)
      [] kind = "finish" -> Stored(r, PostPos) /\ rt[r].x.mode # "ready"
      [] kind = "finishResident" ->
            /\ Stored(r, PostPos) /\ rt[r].x.mode = "ready"
            /\ IsReadyFor(rt[r].x.key)
      [] kind = "oneShot" -> rt[r].slot = "idle" /\ ~rt[r].busy

Takes(r, kind) == Admits(r, kind) /\ ScopesAdmit(rt[r])

(* The runtime with the operation taken: its session is lent, and for a    *)
(* resident finish the post norm is bound.                                 *)
Running(r, kind, dirty, hurt) ==
    [rt[r] EXCEPT !.occupied = TRUE,
                  !.op = [NoOp EXCEPT !.pc = "gpu", !.kind = kind,
                                      !.dirty = dirty, !.hurt = hurt],
                  !.slot = IF @ = "stored" THEN "lent" ELSE @,
                  !.x.pure = /\ @
                             /\ kind = "finishResident" =>
                                    cache.post.key = rt[r].x.key]

(* prepare_vision_stack_first_error_scope clears the sink, whoever the     *)
(* errors in it are of.  The n-th push is refused: what is pushed is       *)
(* drained.                                                                *)
RunUnpushed(r, kind, n) ==
    /\ "push" \in Faults
    /\ Takes(r, kind)
    /\ Drain(r, Running(r, kind, TRUE, FALSE), n - 1, Pushed(n - 1, 0), FALSE)

(* start allocates and uploads, and awaits nothing; the others too get no  *)
(* further if their encoding fails.                                        *)
RunAtOnce(r, kind, hit, failed) ==
    /\ failed \/ kind = "start"
    /\ Takes(r, kind)
    /\ Drain(r, Running(r, kind, failed, hit # 0), Checked,
             Pushed(Checked, hit), FALSE)

(* The others await the queue or the mapped readback. *)
Run(r, kind, hit) ==
    /\ kind # "start"
    /\ Takes(r, kind)
    /\ rt' = [rt EXCEPT ![r] = Running(r, kind, FALSE, hit # 0)]
    /\ scopes' = Pushed(Checked, hit)
    /\ sink' = FALSE
    /\ UNCHANGED <<late, cache>>

(* Promises of the device resolve after the error events that precede them. *)
GpuReturns(r, failed) ==
    /\ rt[r].op.pc = "gpu"
    /\ ~late
    /\ Drain(r, [rt[r] EXCEPT !.op.dirty = failed], Checked, scopes, sink)

Popped(r) ==
    /\ rt[r].op.pc = "drain"
    /\ ~late
    /\ Drain(r, rt[r], rt[r].op.left, scopes, sink)
-----------------------------------------------------------------------------
Call(r) ==
    \/ Begin(r)
    \/ \E k \in Key : BeginResident(r, k)
    \/ Preflight(r)
    \/ Abort(r)
    \/ \E hit \in Hit, failed \in BOOLEAN :
          \/ EnqueuePlain(r, hit, failed)
          \/ EnqueueCold(r, hit, failed)
          \/ EnqueueResident(r, hit, failed)
    \/ \E kind \in Kind \ {"none"} :
          \/ \E n \in 1..Checked : RunUnpushed(r, kind, n)
          \/ \E hit \in Hit, failed \in BOOLEAN : RunAtOnce(r, kind, hit, failed)
          \/ \E hit \in Hit : Run(r, kind, hit)

Returns(r) == (\E failed \in BOOLEAN : GpuReturns(r, failed)) \/ Popped(r)

Next == Deliver \/ \E r \in Runtime : Call(r) \/ Returns(r)

Spec == Init /\ [][Next]_vars

(* The browser delivers error events and settles the promises of the       *)
(* device; nothing makes a client call.                                    *)
Fairness ==
    /\ WF_vars(Deliver)
    /\ \A r \in Runtime : WF_vars(Returns(r))
LiveSpec == Spec /\ Fairness
-----------------------------------------------------------------------------
TypeOK ==
    /\ rt \in [Runtime ->
          [slot : {"idle", "stored", "lent", "doomed"},
           x : [mode : Mode, key : Key \union {NoKey}, pos : 0..2 * Shards,
                pure : BOOLEAN],
           busy : BOOLEAN, healthy : BOOLEAN, occupied : BOOLEAN,
           op : [pc : {"none", "gpu", "drain"}, kind : Kind, left : 0..Checked,
                 dirty : BOOLEAN, hurt : BOOLEAN]]]
    /\ scopes \in Seq([kind : 1..Checked, hit : BOOLEAN])
    /\ {late, sink} \subseteq BOOLEAN
    /\ cache \in [key : Key \union {NoKey},
                  layers : Seq([key : Key, sound : BOOLEAN]),
                  post : [key : Key \union {NoKey}, sound : BOOLEAN],
                  ready : BOOLEAN]
    /\ Len(cache.layers) <= Layers

(* execution_busy is the shadow of the owner's state, which other kernels  *)
(* look at: however a session ends (finished, failed, aborted while lent   *)
(* or not), the flag goes with it, and an operation in progress holds a    *)
(* session exactly if it is not a one-shot kernel.                         *)
BusyIsSession ==
    \A r \in Runtime :
        LET s == rt[r] IN
        /\ s.busy = (s.slot # "idle")
        /\ s.occupied = (s.op.pc # "none")
        /\ s.occupied => (s.slot = "idle") = (s.op.kind = "oneShot")

(* The runtimes share the cache and reset it under each other, yet what is *)
(* in it is always of the model it is prepared for, and complete when it   *)
(* is said to be ready.                                                    *)
CacheHoldsOneModel ==
    /\ \A i \in DOMAIN cache.layers : cache.layers[i].key = cache.key
    /\ cache.ready => /\ Len(cache.layers) = Layers
                      /\ cache.post.key = cache.key

(* A session that found the weights resident at its begin never computes   *)
(* with weights of another model that took their place meanwhile.          *)
ReadySessionsArePure == \A r \in Runtime : rt[r].x.pure

(* The stack holds the scopes that operations in progress still have to    *)
(* pop: a pop always finds one.  Any more were left by runtimes that are   *)
(* poisoned for it: each left at most the scopes of one operation, and it  *)
(* pushes no more.                                                         *)
ToPop(s) == CASE s.op.pc = "gpu" -> Checked
              [] s.op.pc = "drain" -> s.op.left
              [] OTHER -> 0
Owed == {e \in Runtime \X (1..Checked) : e[2] <= ToPop(rt[e[1]])}
Abandoned == {e \in Runtime \X (1..Checked) : ~rt[e[1]].healthy}
LeftoversArePoisoned ==
    /\ Cardinality(Owed) <= Len(scopes)
    /\ Len(scopes) <= Cardinality(Owed \union Abandoned)

(* The cold layers and the post norm that are resident raised no GPU error. *)
ResidentIsSound ==
    cache.ready => /\ \A i \in DOMAIN cache.layers : cache.layers[i].sound
                   /\ cache.post.sound

(* Every scoped operation settles, and an abort that had to wait for one   *)
(* frees the runtime in the end.                                           *)
OperationsSettle ==
    \A r \in Runtime : /\ rt[r].occupied ~> ~rt[r].occupied
                       /\ rt[r].slot = "doomed" ~> rt[r].slot = "idle"
=============================================================================

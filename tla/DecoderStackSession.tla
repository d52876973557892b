------------------------ MODULE DecoderStackSession ------------------------
(***************************************************************************)
(* The persistent decoder stack session of the browser runtime:            *)
(* pvlc-runtime-web/src/web/decoder_stack_session.rs.  One authority keeps *)
(* one session in an AsyncSessionOwner, shares a cache of resident weights *)
(* and uses the error scopes of the WebGPU device.  Its JavaScript methods *)
(* are begin, begin_resident, step, prefill, logits, top1, finish and      *)
(* abort; all but abort return a promise.                                  *)
(*                                                                         *)
(* JavaScript runs one piece of code at a time, from one `await` to the    *)
(* next: each action below is such a piece.  The GPU error scopes form ONE *)
(* stack for the whole device, so operations that overlap push and pop     *)
(* each other's scopes.  A GPU error is recorded in the innermost scope    *)
(* that filters for it, and reported to whoever pops that scope.           *)
(***************************************************************************)
EXTENDS Integers, Sequences, FiniteSets

CONSTANTS Session, NoSession, CounterMax,   \* of AsyncSessionOwner
          Op,           \* promises a client can have pending at one time
          Descriptor,   \* session descriptors a client passes to begin
          Key, NoKey,   \* checkpoint identities; NoKey: a pack without one
          Hit,          \* what an operation's GPU work may raise: no error
                        \* (0), or one that its scope of that number records
          AwaitsCalls   \* TRUE: the client awaits each promise before a call

ASSUME NoSessionIsNoSession == NoSession \notin Session
ASSUME CounterMaxIsNat == CounterMax \in Nat
ASSUME DescriptorIsDescriptor ==
    Descriptor \subseteq [prefix : Nat, capacity : Nat, prefill : Nat,
                          vocab : BOOLEAN]
ASSUME HitIsScope == Hit \subseteq 0..3
ASSUME NoKeyIsNoKey == NoKey \notin Key
ASSUME AwaitsCallsIsBoolean == AwaitsCalls \in BOOLEAN

VARIABLES
    stored, generation, inFlightLease, cancellationRequested, lastGeneration,
    lastLease, callers, bornIn, cancelled,      \* of AsyncSessionOwner
    sessions,   \* the BrowserDecoderStackSession objects
    resident,   \* the shared resident weight cache
    scopes,     \* the device's error scope stack: has this scope an error?
    op          \* the pending operations

Owner == INSTANCE AsyncSessionOwner

ownerVars == <<stored, generation, inFlightLease, cancellationRequested,
               lastGeneration, lastLease, callers, bornIn, cancelled>>
vars == <<ownerVars, sessions, resident, scopes, op>>

(* The error scopes each operation pushes: internal, out of memory,        *)
(* validation (CHECKED_SCOPES).  An operation's own GPU work raises no     *)
(* error or one.                                                           *)
Checked == 3

(* A session: its plan, the flags and cache_tokens of the code; as history *)
(* `rows`, the cache rows the GPU was told to write; `wrote`, the operation *)
(* that last wrote a hidden row; and `sound`: its weights are those of its *)
(* checkpoint and no GPU error was raised by its operations.               *)
NoPlan == [prefix |-> 0, capacity |-> 0, prefill |-> 0, vocab |-> FALSE]
Dropped == [plan |-> NoPlan, ready |-> FALSE, poisoned |-> FALSE,
            tokens |-> 0, rows |-> 0, wrote |-> "none", sound |-> FALSE]

(* The resident weights: the key, and (history) whether they are sound. *)
NoResident == [key |-> NoKey, sound |-> FALSE]

(* A pending operation.  `held` is the owner's lease with its session, or, *)
(* for a begin, the generation it opened; `left` counts the scopes of its  *)
(* ledger still to pop, `dirty` says that a pop captured an error or       *)
(* failed.  plan, key, pack and candidate are those of a begin: whether    *)
(* the call supplied the weights, and whether they may become resident.    *)
Unheld == [generation |-> 0, lease |-> 0, session |-> NoSession]
Settled == [pc |-> "settled", kind |-> "none", held |-> Unheld, left |-> 0,
            dirty |-> FALSE, plan |-> NoPlan, key |-> NoKey, pack |-> FALSE,
            candidate |-> FALSE, fromPrefill |-> FALSE]

OpKind == {"none", "begin", "step", "prefill", "readout", "finish"}
PC == {"settled", "queued", "gpu", "gpu2", "stale", "beginDrain", "okDrain",
       "failDrain", "staleDrain"}

Init ==
    /\ Owner!Init
    /\ sessions = [s \in Session |-> Dropped]
    /\ resident = NoResident
    /\ scopes = <<>>
    /\ op = [o \in Op |-> Settled]
-----------------------------------------------------------------------------
(* The plans of pvlc-runtime-core.                                         *)

PrefillCapable(d) == d.prefill > 0

(* The prefix handed to the cache plan. *)
InitialTokens(d) ==
    IF ~PrefillCapable(d) THEN d.prefix
    ELSE IF d.prefill < d.capacity THEN d.prefill ELSE d.capacity - 1

(* A descriptor that parses and plans.  Mutant: a prompt may fill a cache  *)
(* of one row, so that no decoded token ever fits.                         *)
PlanAdmittedEmptyPrefix(d) ==
    /\ PrefillCapable(d) => d.prefix = 0 /\ d.prefill <= d.capacity
    /\ InitialTokens(d) \in 0..d.capacity - 1
PlanAdmitted(d) ==
    /\ PrefillCapable(d) => d.prefix = 0 /\ d.prefill <= d.capacity
    /\ InitialTokens(d) \in 1..d.capacity - 1

(* plan_cache_transition.  Mutant: a step may append to a full cache. *)
StepAdmittedWhenFull(x) == x.tokens \in InitialTokens(x.plan)..x.plan.capacity
StepAdmitted(x) == x.tokens \in InitialTokens(x.plan)..x.plan.capacity - 1

(* prepare_logits_readout. *)
ReadoutAdmitted(x) ==
    /\ x.plan.vocab
    /\ IF PrefillCapable(x.plan) THEN x.tokens >= 1
       ELSE x.tokens > InitialTokens(x.plan)

FromPrefill(x) == PrefillCapable(x.plan) /\ x.tokens = x.plan.prefill
-----------------------------------------------------------------------------
(* The error scope stack. *)

Pushed(n, hit) == scopes \o [i \in 1..n |-> i = hit]

(* A pop of `stack` starts: it reports the innermost scope, and fails on   *)
(* an empty stack.  The step that starts it leaves operation x waiting at  *)
(* pc with `left` more scopes to pop.                                      *)
PopStarted(o, x, pc, left, stack) ==
    /\ scopes' = IF stack = <<>> THEN stack ELSE SubSeq(stack, 1, Len(stack) - 1)
    /\ op' = [op EXCEPT ![o] =
                [x EXCEPT !.pc = pc, !.left = left,
                          !.dirty = \/ @
                                    \/ stack = <<>>
                                    \/ stack # <<>> /\ stack[Len(stack)]]]

(* JavaScript microtasks: the body of a called operation starts before any *)
(* GPU promise that a running operation awaits is delivered.               *)
NoneQueued == \A o \in Op : op[o].pc # "queued"

SessionOf(o) == op[o].held.session
IsStale(o) == generation # op[o].held.generation
-----------------------------------------------------------------------------
(* Calls. *)

(* A client that awaits calls nothing while a promise is pending. *)
MayCall(o) ==
    /\ op[o].pc = "settled"
    /\ AwaitsCalls => \A p \in Op : op[p].pc = "settled"

(* check_stack_admission: no generation is open, so nothing is stored that *)
(* could be poisoned.                                                      *)
AdmitsBegin == generation = 0

Queue(o, x) ==
    /\ op' = [op EXCEPT ![o] = [x EXCEPT !.pc = "queued"]]
    /\ UNCHANGED <<resident, scopes, sessions>>

(* begin with a weight pack of checkpoint k. *)
CallBegin(o, d, k) ==
    /\ MayCall(o)
    /\ AdmitsBegin
    /\ PlanAdmitted(d)
    /\ Queue(o, [Settled EXCEPT !.kind = "begin", !.plan = d, !.key = k,
                                !.pack = TRUE])
    /\ UNCHANGED ownerVars

(* begin_resident: no weights are passed, the cache must hold some. *)
CallBeginResident(o, d) ==
    /\ MayCall(o)
    /\ AdmitsBegin
    /\ resident # NoResident
    /\ PlanAdmitted(d)
    /\ PrefillCapable(d) /\ d.vocab
    /\ Queue(o, [Settled EXCEPT !.kind = "begin", !.plan = d,
                                !.key = resident.key])
    /\ UNCHANGED ownerVars

(* acquire_stack_session's test.  Mutant: a poisoned session may be used. *)
UsablePoisoned(s) == s # NoSession /\ sessions[s].ready
Usable(s) == s # NoSession /\ sessions[s].ready /\ ~sessions[s].poisoned

(* An operation moves the stored session out of the owner. *)
Call(o, x) ==
    /\ MayCall(o)
    /\ Usable(stored)
    /\ Owner!Acquire
    /\ Queue(o, [x EXCEPT !.held = [generation |-> generation,
                                    lease |-> lastLease + 1,
                                    session |-> stored]])

CallStep(o) ==
    /\ stored # NoSession /\ StepAdmitted(sessions[stored])
    /\ Call(o, [Settled EXCEPT !.kind = "step"])

CallPrefill(o) ==
    /\ stored # NoSession /\ sessions[stored].tokens = 0
    /\ Call(o, [Settled EXCEPT !.kind = "prefill"])

(* logits and top1 read the hidden row of the prefill or of the last step. *)
CallReadout(o) ==
    /\ stored # NoSession /\ ReadoutAdmitted(sessions[stored])
    /\ Call(o, [Settled EXCEPT !.kind = "readout",
                               !.fromPrefill = FromPrefill(sessions[stored])])

CallFinish(o) == Call(o, [Settled EXCEPT !.kind = "finish"])

(* A call with operands that are not admitted acquires the session and     *)
(* restores it at once: a lease is used up, and a cancellation request     *)
(* left over from a detached operation is cleared.                         *)
RejectedCall(o) ==
    /\ MayCall(o)
    /\ Usable(stored)
    /\ Owner!CanIssue(lastLease)
    /\ lastLease' = lastLease + 1
    /\ cancellationRequested' = FALSE
    /\ UNCHANGED <<stored, generation, inFlightLease, lastGeneration, callers,
                   bornIn, cancelled, sessions, resident, scopes, op>>

(* abort is synchronous, and possible at any time. *)
Discard(s) == sessions' = IF s = NoSession THEN sessions
                          ELSE [sessions EXCEPT ![s] = Dropped]

(* Mutant: the generation is closed but its lease stays in flight. *)
AbortKeepingLease ==
    /\ generation # 0
    /\ generation' = 0
    /\ stored' = NoSession
    /\ cancellationRequested' = TRUE
    /\ UNCHANGED <<inFlightLease, lastGeneration, lastLease, callers, bornIn,
                   cancelled, resident, scopes, op>>
    /\ Discard(stored)

Abort ==
    /\ Owner!CancelAndRelease
    /\ Discard(stored)
    /\ UNCHANGED <<resident, scopes, op>>
-----------------------------------------------------------------------------
(* begin.                                                                  *)

(* The device does not have what the plan needs: nothing is pushed. *)
BeginUnsupported(o) ==
    /\ op[o].pc = "queued" /\ op[o].kind = "begin"
    /\ op' = [op EXCEPT ![o] = Settled]
    /\ UNCHANGED <<ownerVars, sessions, resident, scopes>>

(* The n-th push fails, or everything is pushed and the creation of the    *)
(* session, its uploads or owner.begin fails: the ledger is drained.  The  *)
(* scope whose push failed is in the ledger too.                           *)
RunBeginFails(o, n, hit) ==
    /\ op[o].pc = "queued" /\ op[o].kind = "begin"
    /\ n < Checked => hit = 0
    /\ PopStarted(o, op[o], "failDrain", IF n < Checked THEN n ELSE n - 1,
                  Pushed(n, hit))
    /\ UNCHANGED <<ownerVars, sessions, resident>>

(* The cached weights a begin shares. *)
Cached(k) == k # NoKey /\ resident.key = k

(* The session is created, its operands are uploaded unless the weights    *)
(* are cached, it is stored, and the pop of the innermost scope starts.    *)
RunBeginStores(o, s, hit) ==
    LET b == op[o]
        cached == Cached(b.key)
    IN
    /\ b.pc = "queued" /\ b.kind = "begin"
    /\ Owner!Begin(s)
    /\ sessions' = [sessions EXCEPT ![s] =
         [Dropped EXCEPT
            !.plan = b.plan,
            !.tokens = IF PrefillCapable(b.plan) THEN 0 ELSE InitialTokens(b.plan),
            !.rows = IF PrefillCapable(b.plan) THEN 0 ELSE InitialTokens(b.plan),
            !.sound = /\ hit = 0
                      /\ IF cached THEN resident = [key |-> b.key, sound |-> TRUE]
                         ELSE b.pack]]
    /\ PopStarted(o, [b EXCEPT !.held = [generation |-> lastGeneration + 1,
                                         lease |-> 0, session |-> s],
                               !.candidate = ~cached /\ b.key # NoKey],
                  "beginDrain", Checked - 1, Pushed(Checked, hit))
    /\ UNCHANGED resident

(* The next pop of a begin.  Once its generation is gone it waits while    *)
(* another operation is in flight, before each pop.                        *)
BeginPop(o) ==
    /\ op[o].pc = "beginDrain" /\ op[o].left > 0
    /\ NoneQueued
    /\ IsStale(o) => inFlightLease = 0
    /\ PopStarted(o, op[o], "beginDrain", op[o].left - 1, scopes)
    /\ UNCHANGED <<ownerVars, sessions, resident>>

(* Every scope is popped.  Mutant: a stale begin returns in mid-drain. *)
BeginDrainedOrStale(o) ==
    /\ op[o].pc = "beginDrain"
    /\ op[o].left = 0 \/ IsStale(o)
    /\ NoneQueued
    /\ op' = [op EXCEPT ![o] = Settled]
    /\ UNCHANGED <<ownerVars, scopes>>
BeginDrained(o) ==
    /\ op[o].pc = "beginDrain" /\ op[o].left = 0
    /\ NoneQueued
    /\ op' = [op EXCEPT ![o] = Settled]
    /\ UNCHANGED <<ownerVars, scopes>>

BeginStale(o) ==
    /\ BeginDrained(o)
    /\ IsStale(o)
    /\ UNCHANGED <<sessions, resident>>

BeginPoisons(o) ==
    /\ BeginDrained(o)
    /\ ~IsStale(o)
    /\ op[o].dirty
    /\ sessions' = [sessions EXCEPT ![stored].poisoned = TRUE]
    /\ UNCHANGED resident

(* Mutant: the captured errors are not looked at. *)
BeginReadyUnchecked(o) ==
    /\ BeginDrained(o)
    /\ ~IsStale(o)
    /\ sessions' = [sessions EXCEPT ![stored].ready = TRUE]
    /\ resident' = IF op[o].candidate
                   THEN [key |-> op[o].key, sound |-> sessions[SessionOf(o)].sound]
                   ELSE resident

BeginReady(o) ==
    /\ BeginDrained(o)
    /\ ~IsStale(o)
    /\ ~op[o].dirty
    /\ sessions' = [sessions EXCEPT ![stored].ready = TRUE]
    /\ resident' = IF op[o].candidate
                   THEN [key |-> op[o].key, sound |-> sessions[SessionOf(o)].sound]
                   ELSE resident
-----------------------------------------------------------------------------
(* step, prefill, logits, top1 and finish.                                 *)

(* As RunBeginFails; the session is poisoned from the start. *)
RunFails(o, n, hit) ==
    /\ op[o].pc = "queued" /\ op[o].kind # "begin"
    /\ n < Checked => hit = 0
    /\ sessions' = [sessions EXCEPT ![SessionOf(o)].poisoned = TRUE,
                                    ![SessionOf(o)].sound = @ /\ hit = 0]
    /\ PopStarted(o, op[o], "failDrain", IF n < Checked THEN n ELSE n - 1,
                  Pushed(n, hit))
    /\ UNCHANGED <<ownerVars, resident>>

(* The work is submitted.  A step appends the row cache_tokens, a prefill  *)
(* writes the first rows; readouts and finish write nothing.               *)
RunEncodes(o, hit) ==
    LET x == sessions[SessionOf(o)]
        written == [step |-> x.tokens + 1, prefill |-> x.plan.prefill]
        writes == op[o].kind \in DOMAIN written
    IN
    /\ op[o].pc = "queued" /\ op[o].kind # "begin"
    /\ sessions' = [sessions EXCEPT ![SessionOf(o)] =
         [x EXCEPT !.poisoned = TRUE,
                   !.sound = @ /\ hit = 0,
                   !.rows = IF writes THEN written[op[o].kind] ELSE @,
                   !.wrote = IF writes THEN op[o].kind ELSE @]]
    /\ scopes' = Pushed(Checked, hit)
    /\ op' = [op EXCEPT ![o].pc = "gpu"]
    /\ UNCHANGED <<ownerVars, resident>>

(* The queue or a map promise rejects, or the mapped rows cannot be read:  *)
(* the drain starts at once, whether the generation is stale or not.       *)
GpuFails(o) ==
    /\ op[o].pc \in {"gpu", "gpu2"}
    /\ NoneQueued
    /\ PopStarted(o, op[o], "failDrain", Checked - 1, scopes)
    /\ UNCHANGED <<ownerVars, sessions, resident>>

(* The generation was cancelled while the GPU worked. *)
GpuStale(o) ==
    /\ op[o].pc = "gpu"
    /\ NoneQueued
    /\ IsStale(o)
    /\ op' = [op EXCEPT ![o].pc = "stale"]
    /\ UNCHANGED <<ownerVars, sessions, resident, scopes>>

(* The result is read: the transition is committed and the session is no   *)
(* longer poisoned.  Mutant: cache_tokens is not moved.                    *)
CommittedNothing(x, kind) == [x EXCEPT !.poisoned = FALSE]
Committed(x, kind) ==
    [x EXCEPT !.poisoned = FALSE,
              !.tokens = CASE kind = "step" -> @ + 1
                           [] kind = "prefill" -> x.plan.prefill
                           [] kind = "readout" -> @]

GpuReads(o) ==
    /\ op[o].pc = "gpu" /\ op[o].kind # "finish"
    /\ NoneQueued
    /\ ~IsStale(o)
    /\ sessions' = [sessions EXCEPT ![SessionOf(o)] = Committed(@, op[o].kind)]
    /\ PopStarted(o, op[o], "okDrain", Checked - 1, scopes)
    /\ UNCHANGED <<ownerVars, resident>>

(* finish reads the key plane, maps the value plane (no second test of the *)
(* generation), and stays poisoned.                                        *)
FinishReadsKeys(o) ==
    /\ op[o].pc = "gpu" /\ op[o].kind = "finish"
    /\ NoneQueued
    /\ ~IsStale(o)
    /\ op' = [op EXCEPT ![o].pc = "gpu2"]
    /\ UNCHANGED <<ownerVars, sessions, resident, scopes>>

FinishReadsValues(o) ==
    /\ op[o].pc = "gpu2"
    /\ NoneQueued
    /\ PopStarted(o, op[o], "okDrain", Checked - 1, scopes)
    /\ UNCHANGED <<ownerVars, sessions, resident>>

(* wait_stack_owner_idle, then the first pop. *)
StaleDrain(o) ==
    /\ op[o].pc = "stale"
    /\ NoneQueued
    /\ inFlightLease = 0
    /\ PopStarted(o, op[o], "staleDrain", Checked - 1, scopes)
    /\ UNCHANGED <<ownerVars, sessions, resident>>

(* drain_stack_error_scopes: the other pops, which wait for nothing else. *)
DrainPop(o) ==
    /\ op[o].pc \in {"okDrain", "failDrain", "staleDrain"} /\ op[o].left > 0
    /\ NoneQueued
    /\ PopStarted(o, op[o], op[o].pc, op[o].left - 1, scopes)
    /\ UNCHANGED <<ownerVars, sessions, resident>>

(* The lease is completed and the promise settles; the owner keeps the     *)
(* session or drops it.                                                    *)
Settle(o, action, poisoned) ==
    /\ Owner!Complete(op[o].held, action)
    /\ sessions' = [sessions EXCEPT ![SessionOf(o)] =
                       IF stored' = SessionOf(o)
                       THEN [@ EXCEPT !.poisoned = poisoned] ELSE Dropped]
    /\ op' = [op EXCEPT ![o] = Settled]
    /\ UNCHANGED <<resident, scopes>>

Drained(o, pc) == op[o].pc = pc /\ op[o].left = 0 /\ NoneQueued

BeginFailed(o) ==
    /\ Drained(o, "failDrain")
    /\ op[o].kind = "begin"
    /\ op' = [op EXCEPT ![o] = Settled]
    /\ UNCHANGED <<ownerVars, sessions, resident, scopes>>

(* Mutant: the failed operation forgets to restore its session. *)
FailedUnrestored(o) ==
    /\ Drained(o, "failDrain")
    /\ op' = [op EXCEPT ![o] = Settled]
    /\ UNCHANGED <<ownerVars, sessions, resident, scopes>>

Failed(o) ==
    /\ Drained(o, "failDrain")
    /\ op[o].kind # "begin"
    /\ Settle(o, "restore", TRUE)

StaleDone(o) ==
    /\ Drained(o, "staleDrain")
    /\ Settle(o, "finish", TRUE)

Captured(o) ==
    /\ Drained(o, "okDrain")
    /\ op[o].dirty
    /\ Settle(o, "restore", TRUE)

(* Mutant: the errors captured by the drain are dropped. *)
DoneUnchecked(o) ==
    /\ Drained(o, "okDrain")
    /\ IF op[o].kind = "finish" THEN Settle(o, "finish", TRUE)
       ELSE Settle(o, "restore", FALSE)

Done(o) ==
    /\ Drained(o, "okDrain")
    /\ ~op[o].dirty
    /\ IF op[o].kind = "finish" THEN Settle(o, "finish", TRUE)
       ELSE Settle(o, "restore", FALSE)
-----------------------------------------------------------------------------
Calls(o) ==
    \/ \E d \in Descriptor, k \in Key \cup {NoKey} : CallBegin(o, d, k)
    \/ \E d \in Descriptor : CallBeginResident(o, d)
    \/ CallStep(o) \/ CallPrefill(o) \/ CallReadout(o) \/ CallFinish(o)
    \/ RejectedCall(o)

(* The steps of a called operation. *)
Runs(o) ==
    \/ BeginUnsupported(o)
    \/ \E n \in 0..Checked, hit \in Hit : RunBeginFails(o, n, hit)
    \/ \E s \in Session, hit \in Hit : RunBeginStores(o, s, hit)
    \/ BeginPop(o) \/ BeginStale(o) \/ BeginPoisons(o) \/ BeginReady(o)
    \/ \E n \in 0..Checked, hit \in Hit : RunFails(o, n, hit)
    \/ \E hit \in Hit : RunEncodes(o, hit)
    \/ GpuFails(o) \/ GpuStale(o) \/ GpuReads(o)
    \/ FinishReadsKeys(o) \/ FinishReadsValues(o)
    \/ StaleDrain(o) \/ DrainPop(o)
    \/ BeginFailed(o) \/ Failed(o) \/ StaleDone(o) \/ Captured(o) \/ Done(o)

Next == Abort \/ \E o \in Op : Calls(o) \/ Runs(o)

Spec == Init /\ [][Next]_vars

(* WebGPU settles every promise, and the event loop delivers a settled     *)
(* promise although the client keeps calling: deliveries are only put off  *)
(* while the body of a new call starts, hence strong fairness.  A wait for *)
(* an idle owner polls it with setTimeout: it could miss every idle moment *)
(* of a client that never pauses, but there are at most CounterMax leases. *)
(* Nothing makes a client call.                                            *)
FairSpec == Spec /\ \A o \in Op : SF_vars(Runs(o))
-----------------------------------------------------------------------------
TypeOK ==
    /\ Owner!TypeOK
    /\ \A s \in Session :
          /\ sessions[s].plan \in Descriptor \cup {NoPlan}
          /\ sessions[s].ready \in BOOLEAN /\ sessions[s].poisoned \in BOOLEAN
          /\ sessions[s].tokens \in 0..sessions[s].plan.capacity
          /\ sessions[s].wrote \in {"none", "step", "prefill"}
    /\ resident \in [key : Key \cup {NoKey}, sound : BOOLEAN]
    /\ scopes \in Seq(BOOLEAN)
    /\ \A o \in Op :
          /\ op[o].pc \in PC /\ op[o].kind \in OpKind
          /\ op[o].left \in 0..Checked /\ op[o].dirty \in BOOLEAN
          /\ SessionOf(o) \in Session \cup {NoSession}

(* A session offered for use is sound: a GPU error raised by any of its    *)
(* operations has poisoned it ("Any post-effect failure poisons the stored *)
(* session terminally", decoder_stack_session.rs:8-9).                     *)
ReadyIsSound == Usable(stored) => sessions[stored].sound

(* The resident weights are those of the checkpoint that keys them, and    *)
(* their upload raised no error: begin_resident builds on them unseen.     *)
ResidentIsSound == resident # NoResident => resident.sound

(* A session offered for use has committed exactly the rows its GPU cache  *)
(* holds, so that the next step neither overwrites nor skips one.          *)
TokensMatchRows ==
    Usable(stored) => /\ sessions[stored].tokens = sessions[stored].rows
                      /\ sessions[stored].rows <= sessions[stored].plan.capacity

(* logits and top1 read the hidden row that was written last: the prefill  *)
(* buffer right after a prefill, the step buffer after a step.             *)
ReadoutReadsCurrentRow ==
    \A o \in Op : op[o].kind = "readout" =>
        (op[o].fromPrefill <=> sessions[SessionOf(o)].wrote = "prefill")

(* A poisoned session never works again: it stays in the owner, poisoned,  *)
(* until it is dropped with its generation.                                *)
PoisonIsTerminal ==
    [][(stored # NoSession /\ sessions[stored].poisoned) =>
          \/ stored' = stored /\ sessions'[stored].poisoned
          \/ generation' = 0 /\ stored' = NoSession /\ inFlightLease' = 0]_vars

(* A lease is out only while the operation that has to complete it is      *)
(* pending: no settled promise leaves the authority busy for ever.         *)
LeasesArePending == callers \subseteq {op[o].held : o \in Op}

(* When no operation is pending, every error scope that was pushed has     *)
(* been popped: one left behind would capture a later operation's errors.  *)
ScopesAreDrained == (\A o \in Op : op[o].pc = "settled") => scopes = <<>>

(* "a cancelled generation drains its scopes only after the newer          *)
(* in-flight lease clears" (decoder_stack_session.rs:9-10): an operation   *)
(* that found its generation cancelled pops nothing while another          *)
(* operation holds the session.                                            *)
StaleDrainWaits ==
    [][\A o \in Op :
          (op'[o].pc = "staleDrain" /\ op'[o] # op[o]) => inFlightLease = 0]_vars

(* Every promise settles. *)
EveryOperationSettles ==
    \A o \in Op : op[o].pc # "settled" ~> op[o].pc = "settled"
=============================================================================

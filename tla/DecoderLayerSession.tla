------------------------ MODULE DecoderLayerSession ------------------------
(***************************************************************************)
(* The key-value, the layer and the full-layer session of the browser      *)
(* runtime (web/decoder_kv_session.rs, decoder_layer_session.rs and        *)
(* decoder_full_layer_session.rs).  Each file holds its own copy of the    *)
(* protocol of the decoder stack session: an authority with one session in *)
(* an AsyncSessionOwner, three error scopes around every operation, and a  *)
(* drain.  The copies have no resident weights, no prefill and no readout, *)
(* and finish differs: the key-value session maps both cache planes at     *)
(* once, the other two map one after the other.                            *)
(*                                                                         *)
(* All authorities of a page share the error scope stack of its device:    *)
(* `other` is an operation of another authority.                           *)
(***************************************************************************)
EXTENDS Integers, Sequences, FiniteSets

CONSTANTS Session, NoSession, CounterMax,   \* of AsyncSessionOwner
          Op, Hit,      \* of DecoderStackSession
          MaxRows          \* the largest capacity of a cache

AuthorityIsValid ==
    /\ NoSession \notin Session /\ CounterMax \in Nat
    /\ Hit \subseteq 0 .. 3 /\ MaxRows \in Nat

VARIABLES
    stored, generation, inFlightLease, cancellationRequested, lastGeneration,
    lastLease, callers, bornIn, cancelled,      \* of AsyncSessionOwner
    sessions, scopes, op,                       \* of DecoderStackSession
    kind,       \* which of the three sessions
    awaits,     \* the client awaits each promise before it calls again
    other       \* scopes the other authority's operation has still to pop

ownerVars == <<stored, generation, inFlightLease, cancellationRequested,
               lastGeneration, lastLease, callers, bornIn, cancelled>>
vars == <<ownerVars, sessions, scopes, op, kind, awaits, other>>

Kind == {"kv", "layer", "full"}

(* What is left of a descriptor: neither a prompt nor a vocabulary. *)
Descriptors == [prefix : 0 .. MaxRows, capacity : 0 .. MaxRows, prefill : {0},
                vocab : {FALSE}]

Stack == INSTANCE DecoderStackSession WITH
    Descriptor <- Descriptors, Key <- {}, NoKey <- "none",
    AwaitsCalls <- FALSE, resident <- [key |-> "none", sound |-> FALSE]

Init ==
    /\ Stack!Init
    /\ kind \in Kind
    /\ awaits \in BOOLEAN
    /\ other = 0
-----------------------------------------------------------------------------
(* The kernels of each session, which a caller may replace.                *)
KvKernels == {"append", "attention"}
LayerKernels == KvKernels \union {"rms_norm", "gemv", "mrope", "residual"}
FullKernels == LayerKernels \union {"swiglu"}

(* A client that awaits has no promise pending, of any authority. *)
MayCall ==
    awaits => other = 0 /\ \A o \in Op : op[o].pc = "settled"

(* begin.  The descriptor parses, the operands have its sizes and it plans *)
(* (PlanAdmitted): the cache has a prefix and room for a row after it.     *)
KvBegin(o, d) ==
    kind = "kv" /\ MayCall /\ Stack!CallBegin(o, d, "none")
LayerBegin(o, d) ==
    kind = "layer" /\ MayCall /\ Stack!CallBegin(o, d, "none")
FullBegin(o, d) ==
    kind = "full" /\ MayCall /\ Stack!CallBegin(o, d, "none")

(* begin_with_shader_override: the same with a kernel of its own. *)
KvBeginWithOverride(o, d, kernel) == kernel \in KvKernels /\ KvBegin(o, d)
LayerBeginWithOverride(o, d, kernel) ==
    kernel \in LayerKernels /\ LayerBegin(o, d)
FullBeginWithOverride(o, d, kernel) ==
    kernel \in FullKernels /\ FullBegin(o, d)

(* step: with operands that are not admitted, or a full cache, the session *)
(* is restored at once.                                                    *)
KvStep(o) ==
    kind = "kv" /\ MayCall /\ (Stack!CallStep(o) \/ Stack!RejectedCall(o))
LayerStep(o) ==
    kind = "layer" /\ MayCall /\ (Stack!CallStep(o) \/ Stack!RejectedCall(o))
FullStep(o) ==
    kind = "full" /\ MayCall /\ (Stack!CallStep(o) \/ Stack!RejectedCall(o))

(* finish takes no operands. *)
Finish(o) == MayCall /\ Stack!CallFinish(o)
-----------------------------------------------------------------------------
(* The asynchronous functions, from one await to the next.                 *)

RunBegin(o) ==
    \/ Stack!BeginUnsupported(o)
    \/ \E n \in 0 .. 3, hit \in Hit : Stack!RunBeginFails(o, n, hit)
    \/ \E s \in Session, hit \in Hit : Stack!RunBeginStores(o, s, hit)
    \/ Stack!BeginPop(o)
    \/ Stack!BeginStale(o) \/ Stack!BeginPoisons(o) \/ Stack!BeginReady(o)
    \/ op[o].kind = "begin" /\ Stack!DrainPop(o)
    \/ Stack!BeginFailed(o)

(* The ways in which step and finish end early, and their drains. *)
Undone(o) ==
    \/ \E n \in 0 .. 3, hit \in Hit : Stack!RunFails(o, n, hit)
    \/ Stack!GpuFails(o)
    \/ Stack!GpuStale(o) \/ Stack!StaleDrain(o)
    \/ op[o].kind # "begin" /\ Stack!DrainPop(o)
    \/ Stack!Failed(o) \/ Stack!StaleDone(o) \/ Stack!Captured(o)

Encodes(o) == \E hit \in Hit : Stack!RunEncodes(o, hit)

(* Mutant: the errors the drain captured are not looked at. *)
RunStepUnchecked(o) ==
    /\ op[o].kind = "step"
    /\ Encodes(o) \/ Undone(o) \/ Stack!GpuReads(o) \/ Stack!DoneUnchecked(o)
RunStep(o) ==
    /\ op[o].kind = "step"
    /\ Encodes(o) \/ Undone(o) \/ Stack!GpuReads(o) \/ Stack!Done(o)

(* Both planes are in one buffer, which is mapped once. *)
KvReadsPlanes(o) ==
    /\ op[o].pc = "gpu"
    /\ Stack!NoneQueued
    /\ ~Stack!IsStale(o)
    /\ Stack!PopStarted(o, op[o], "okDrain", Stack!Checked - 1, scopes)
    /\ UNCHANGED <<ownerVars, sessions>>

KvRunFinish(o) ==
    /\ kind = "kv" /\ op[o].kind = "finish"
    /\ Encodes(o) \/ Undone(o) \/ KvReadsPlanes(o) \/ Stack!Done(o)

(* Two maps, and the generation is looked at after the first. *)
RunFinish(o) ==
    /\ op[o].kind = "finish"
    /\ \/ Encodes(o) \/ Undone(o)
       \/ Stack!FinishReadsKeys(o) \/ Stack!FinishReadsValues(o)
       \/ Stack!Done(o)
LayerRunFinish(o) == kind = "layer" /\ RunFinish(o)
FullRunFinish(o) == kind = "full" /\ RunFinish(o)

(* abort. *)
Abort == Stack!Abort
-----------------------------------------------------------------------------
(* Another authority: its operation pushes its three scopes, awaits the    *)
(* GPU, and pops them one by one.                                          *)
OtherStarts(hit) ==
    /\ MayCall
    /\ other = 0
    /\ other' = Stack!Checked
    /\ scopes' = Stack!Pushed(Stack!Checked, hit)
    /\ UNCHANGED <<ownerVars, sessions, op, kind, awaits>>

OtherPops ==
    /\ other > 0
    /\ Stack!NoneQueued
    /\ other' = other - 1
    /\ scopes' = IF scopes = <<>> THEN scopes
                 ELSE SubSeq(scopes, 1, Len(scopes) - 1)
    /\ UNCHANGED <<ownerVars, sessions, op, kind, awaits>>

Calls(o) ==
    \/ \E d \in Descriptors, kernel \in FullKernels \union {"none"} :
          \/ kernel = "none" /\ KvBegin(o, d)
          \/ kernel = "none" /\ LayerBegin(o, d)
          \/ kernel = "none" /\ FullBegin(o, d)
          \/ KvBeginWithOverride(o, d, kernel)
          \/ LayerBeginWithOverride(o, d, kernel)
          \/ FullBeginWithOverride(o, d, kernel)
    \/ KvStep(o) \/ LayerStep(o) \/ FullStep(o)
    \/ Finish(o)

Runs(o) ==
    \/ RunBegin(o) \/ RunStep(o)
    \/ KvRunFinish(o) \/ LayerRunFinish(o) \/ FullRunFinish(o)

Next ==
    \/ (\E o \in Op : Calls(o) \/ Runs(o)) /\ UNCHANGED <<kind, awaits, other>>
    \/ Abort /\ UNCHANGED <<kind, awaits, other>>
    \/ \E hit \in Hit : OtherStarts(hit)
    \/ OtherPops

Spec == Init /\ [][Next]_vars
-----------------------------------------------------------------------------
TypeOK ==
    /\ Stack!TypeOK
    /\ kind \in Kind /\ awaits \in BOOLEAN /\ other \in 0 .. 3

(* When neither this authority nor the other one has an operation pending, *)
(* every error scope of the device has been popped, however their pops     *)
(* interleaved and whatever was aborted.                                   *)
ScopesAreDrained ==
    (other = 0 /\ \A o \in Op : op[o].pc = "settled") => scopes = <<>>

(* For a client that awaits its promises, a session offered for use saw no *)
(* GPU error, and its cache_tokens are the rows its cache holds.           *)
AwaitedSessionIsSound ==
    awaits => Stack!ReadyIsSound /\ Stack!TokensMatchRows

(* No settled promise leaves the authority busy for ever.                  *)
LeasesArePending == Stack!LeasesArePending

LayerSessionsAreSound ==
    ScopesAreDrained /\ AwaitedSessionIsSound /\ LeasesArePending
=============================================================================

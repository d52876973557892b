# Verification of the browser OCR runtime

TLA+ specifications, TLC model checking and TLAPS proofs for the parts of this
repository whose correctness depends on order, on failure, or on two pieces of
code that must agree: the sessions of the WebGPU runtime and their owner, the
recognition engine with its pool and downloads, the programs that the sessions
submit to the GPU, the native runtime, benchmark cohorts, the preparation of a
page, packs of weights, and the static arena planner.

Paths below are relative to the repository. `web.rs`, `lib.rs` and
`decoder_stack_session.rs` without a path are those of
`crates/pvlc-runtime-web/src/`; `browser_ocr_runtime.mjs`,
`ocr_concurrency.mjs`, `greedy_generation.mjs` and `multimodal_ocr.mjs` are in
`web/engine/`.

## 1. The system

A page creates a `PaddleOcrVlEngine` (`web/engine/browser_ocr_runtime.mjs`),
which creates up to four `WebRuntime`s (Rust, compiled to WebAssembly). They all
share one WebGPU device. A recognition borrows a runtime, runs the vision
stages, begins a decoder session, prefills it with the prompt and then
generates tokens greedily, one `top1` and one `step` after the other.

Beside the browser there is a native runtime (`pvlc-runtime-native`) with the
same kernels, which a benchmark collector drives. An offline compiler plans
arenas and writes packs of weights; readers in Rust and JavaScript open them
again.

### Components

| component | source | state | operations | interacts with |
|---|---|---|---|---|
| Session owner | `lib.rs` 567-760, `AsyncSessionOwner<T>` | stored payload, open generation, lease in flight, cancellation request, two counters | begin, acquire, abort, cancel_and_release, complete | every decoder session authority keeps its session in one |
| Decoder stack session | `web/decoder_stack_session.rs` | the owner; per session: plan, `ready`, `poisoned`, `cache_tokens`, GPU buffers; the resident weight cache, shared by all runtimes | begin, begin_resident, step, prefill, logits, top1, finish, abort | owner, error scopes and queue of the device, cache plans of runtime-core |
| Key-value, layer and full-layer sessions | `web/decoder_*_session.rs` | as the decoder stack session, fewer operations, own copies of the protocol | begin, step, finish, abort | owner, device |
| Vision stack session | `vision_stack_causal.rs`, `web.rs` | causal session, transaction of error scopes, busy flag and health of a runtime, cache of resident weights | begin, begin_resident, preflight, enqueue, start, finish, abort | device, packs |
| Browser device and runtime | `web.rs` | `BROWSER_DEVICE`, its error scope stack and its sink of uncaptured errors | create, one-shot kernels, vision methods | all runtimes of the page |
| Recognition engine | `browser_ocr_runtime.mjs`, `ocr_concurrency.mjs`, `greedy_generation.mjs` | pool of runtimes and waiters, `disposed`, promises of downloads; per recognition: its runtime, `decoderSessionStarted`, `cacheTokens` | recognizeCanvas, dispose, acquire, release, downloads, the generation loop | runtimes, browser cache |
| Runtime plans and shaders | `pvlc-runtime-core`, `pvlc-wgsl` | none | cache transition, prefill, attention, vision and dispatch plans; kernels | what the sessions submit |
| Multimodal pipeline | `multimodal_ocr.mjs` | none | preprocessing, prompts, positions, packs | engine |
| Weight packs | `pvlc-pack`, `multimodal_ocr.mjs`, `tools/lib/m7q1_balanced_pack.mjs` | a file | builders and readers | compiler, sessions, engine |
| Native runtime | `pvlc-runtime-native` | execution lock, pipeline cache, timestamp query, last accepted pair, capture lock, key-value sessions | timed and untimed calls, sessions, captures | threads, Metal |
| Benchmark collector, schema | `pvlc-bench-collector`, `pvlc-bench` | the journal of a cohort | collect, assemble | native runtime |
| Static arena planner | `pvlc-memory` | the placed allocations and the scan of one call | plan_static_arena, verify_static_arena_plan | compiler passes |
| CPU reference | `pvlc-cpu-ref` | none | kernels, preprocessing, positions | what all programs are compared with |
| Safetensors, passes, IR, CLI, harness, capture tools | `pvlc-safetensors`, `pvlc-passes`, `pvlc-ir`, `pvlc-cli`, `tools/` | none that outlives a call | parsing, transformation, commands | offline |

### What is hard

* JavaScript interleaves at every `await`. A client may call a session while a
  promise is pending, abort at any moment, and a completion may come long after
  its generation was cancelled and another one began.
* WebGPU error scopes are ONE stack per device. A push and its pop belong to
  the same operation only if no other operation pushes in between.
* An operation has a dozen exits. Each has to pop what it pushed, complete its
  lease, and leave the session poisoned or not.
* State is read before an `await` and used after it: the generation, the
  resident weights, `cache_tokens`.
* A pool that hands runtimes to waiters must lose none, also when it is
  disposed half way because a runtime is in use.
* Offsets and identifiers are `u64`: an unchecked sum would wrap.
* A program for the GPU is a list of commands over buffers that are used more
  than once in one submission, with parameters in uniforms that are written
  before it. A stale row or uniform computes a plausible wrong result.
* A plan counts workgroups, a shader computes an index from them, and nothing in
  the code compares the two. The same holds of a writer and the three readers
  of a pack, and of the prompt's tokens, its positions and its image rows.
* Threads share one timestamp query whose result may be the one before.

### What makes each component correct

* Owner: a payload has one owner; a late completion never revives it; a
  cancellation hits the operation it was meant for; a cancelled generation
  closes.
* Decoder session: a session that can be used never saw a GPU error, agrees
  with its cache, and shares only sound weights; leases and scopes are not
  leaked; poison is terminal; every promise settles.
* Engine: a runtime is lent to one recognition; nobody waits beside a free one;
  a session ends with its recognition; the loop's count of tokens is the
  session's.
* Vision session: the busy flag follows the session; the shared cache never
  mixes models; scopes left on the stack poison their runtime.
* Programs: what a session returns and leaves in its caches is what the CPU
  reference computes from the same calls; each element is written once; no
  dispatch binds a buffer in a way that WebGPU refuses.
* Native runtime: no call returns a time, a row or a success that is another
  call's; locks, captures and poison survive failures.
* Downloads, packs, pages, cohorts: lanes share a download and count it once; a
  reader gets what was written or nothing; the prepared page is that of the
  reference; a failure carries each attempt that was made.
* Planner: buffers that live together share no byte; the verifier accepts what
  the planner returns; aliasing never costs.

`PROJECT.json` lists the hazards with their lines, and the properties that
watch them.

## 2. Modules

| module | models |
|---|---|
| `ExclusiveSession` | the abstract promise of the owner: a slot that lends its session to one caller |
| `AsyncSessionOwner` | `AsyncSessionOwner<T>`, and its refinement mapping |
| `AsyncSessionOwnerProofs` | theorems about it |
| `DecoderStackSession` | `DecoderStackSessionAuthority`; instantiates `AsyncSessionOwner` |
| `DecoderLayerSession` | the authorities of the key-value, layer and full-layer sessions; instantiates `AsyncSessionOwner` |
| `VisionStackSession` | vision sessions of several runtimes, their scopes and the weight cache they share |
| `BrowserDevice` | `WebRuntime::create` and the page's one device |
| `RecognitionEngine` | engine, pool, generation loop, several authorities on one device |
| `DecoderStackProofs` | theorems about the decoder stack session: its leases, its cache and its error scopes |
| `VisionStackProofs`, `RecognitionEngineProofs` | theorems about these |
| `IndependentComponentsProofs` | theorems about `BrowserDevice`, `ModelAssets`, `BenchmarkCohort` and `NativeRuntime` |
| `IndependentSessionsProofs` | theorems about `DecoderLayerSession`, about what the programs bind and dispatch, and the types of all components |
| `DispatchProofs` | theorems about `DispatchGeometry` |
| `ModelAssets` | the downloads of the engine's lanes |
| `Tensors` | rows of numbers as terms |
| `CpuReference` | the kernels of `pvlc-cpu-ref` on them |
| `ReferenceDecoder` | the abstract promise of a decoder session: each operation returns what the CPU reference computes |
| `GpuKernels` | memory, commands and kernels of the GPU, and WebGPU's usage rules |
| `DecoderPrograms` | what the four decoder sessions submit; implements `ReferenceDecoder` |
| `VisionPrograms` | what the vision stack and the projector submit, and the plans of their buffers |
| `DispatchGeometry` | workgroups, uniforms and the elements that shaders write |
| `NativeRuntime` | calls of two threads on the native runtime |
| `BenchmarkCohort` | the cohort engine, the collection of a sample and the assembler |
| `MultimodalInputs` | a page on its way to the decoder |
| `WeightPacks` | builders and readers of packs |
| `StaticArena` | `plan_static_arena`, step by step, and `verify_static_arena_plan` |
| `StaticArenaProofs` | theorems about it |
| `MC...` | descriptors, sizes and symmetry of the model-checked instances; `MCIndependentComponents` checks eleven components that share no state |

A definition whose comment says "Mutant" and the definition after it differ in
one plausible mistake. The mutants are not part of any specification. They
show that each property can fail: `PROJECT.json` pairs each property with the
mutant that violates it.

### AsyncSessionOwner

Variables and fields correspond one to one; `None` is 0, because the counters
are incremented before their first use. `callers` is the set of leases that were
handed out, each with its payload: Rust's move of the payload to the async
caller. A caller completes once, at any later time, with `Restore` or `Finish`.
`bornIn` and `cancelled` are history. Calls that return an error change nothing
and are the absence of a step. `abort` and `cancel_and_release` share the branch
for a stored payload (`ReleaseStored`).

### DecoderStackSession

One action is one piece of a method from one `await` to the next:

| pc | the operation |
|---|---|
| `queued` | the method was called (`Call...`: admission and acquire are synchronous), its async body has not started |
| `gpu`, `gpu2` | scopes are pushed and work is submitted; it waits for the queue or a map (finish maps two planes) |
| `stale` | it found its generation cancelled and polls for an idle owner |
| `beginDrain`, `okDrain`, `failDrain`, `staleDrain` | it pops its scopes, one `await` each; `left` counts them |

When the drain ends it completes its lease (`Settle`, the owner's `Complete`).
The body of a called method starts as a microtask, before a GPU promise is
delivered: that is the guard `NoneQueued`.

Error scopes are a sequence of Booleans: has this scope captured an error. The
GPU work of an operation raises no error or one, which its scope of the filter
concerned records when it is pushed (`Pushed(n, hit)`). Whoever pops the scope
is told. `sound`, `rows` and `wrote` are history: what really happened to the
session's GPU work and cache, for the properties to compare with.

Weights are abstracted to the identity of their checkpoint (`Key`); tensors are
left out. `PlanAdmitted`, `StepAdmitted` and `ReadoutAdmitted` are the
conditions of the descriptors' and runtime-core's plans on token counts.

### DecoderLayerSession

Three copies of one protocol, told apart by `authority`. Its pieces are those of
`DecoderStackSession` without residency, prefill and readouts; `finish` maps both
cache planes at once in the key-value session (`awaits`) and one after the other
in the two others. `other` is one operation of another authority, which pushes
and pops on the same stack at any time: that is where scopes meet.

### VisionStackSession

`rt[r]` holds what `WebRuntime` r has: the slot of its owner, the session's
protocol position `x.pos` (every shard is preflighted in order and then executed),
`execution_busy`, the health of its scope authority and the operation in
progress. `Drain` is `drain_vision_stack_error_scopes`: it pops while it can and
settles with what is left in the ledger; `Settle` is the completion, with
`complete_browser_error_scoped_operation`, the look at the uncaptured errors and
the commit of resident weights, in this order. Layers of a cold session are
enqueued outside of any scope; `Raised` gives their error to whoever has a scope
open, or to the list of uncaptured errors by way of an event (`Deliver`).
A begin prepares the shared cache before it is admitted (`BeginResident`).

### BrowserDevice

`create` looks at `BROWSER_DEVICE`, awaits an adapter, awaits a device, and fills
the slot if it is still empty; in any case it uses what the slot then holds.

### Tensors, CpuReference, GpuKernels and the programs

A row of numbers is the term that computes it. Two rows are equal exactly if
they were computed in the same way from the same inputs, so a program that reads
a stale buffer, another layer's weights or a row past the prefix yields another
term. `CpuReference` computes terms as `pvlc-cpu-ref` does; `GpuKernels` gives
every shader a function from the rows of its bindings and the words of its
uniform to the rows that it writes, and `Submitted` runs the commands of a
submission on a memory. `DecoderPrograms` and `VisionPrograms` write out the
buffers, uniforms and command lists of each session as the code encodes them.

`ReferenceDecoder` is the abstract specification: each operation returns what
the CPU reference makes of the calls so far. `DecoderPrograms!ComputesReference`
is its `Spec` under a mapping that takes the caches from GPU memory up to
`tokens`, so that rows past it may hold anything. Adding up partial softmaxes
(`Merged`) is the one law of arithmetic that the comparison needs.

### DispatchGeometry

For every call of a planner in `GeometryJobs`: the workgroups that it counts, the
uniform that it fills, the test against the adapter's limit, and the elements
that the threads of the shader then write, with the shader's own index
arithmetic. Each element of the output has to be written exactly once, or the
plan refused.

### RecognitionEngine and ModelAssets

A job is one `recognizeCanvas`. `vision` stands for everything up to the
decoder. Then its decoder operations follow, with the same pieces as above but
without aborts in between, because the engine awaits each one. The pool's free
runtimes are a stack and its waiters a queue, as in the code. `Dispose` models
wasm-bindgen's `free()`: it clears the pointer and then throws if an
asynchronous method has borrowed the runtime. Then dispose stops there, having
freed the runtimes before it and emptied nothing.

`ModelAssets` has the map of promises, `fetchBytes` with the browser's cache, and
the progress counters. A promise is forgotten when it fails, whichever promise
the entry holds by then.

### NativeRuntime

Two threads each make one call of `Programs` at a time. The execution lock is
held from the first push to the last pop; what is done before and after it
interleaves. The device may be late (a poll times out while the submission is
still running), may refuse a resource, and may resolve a timestamp query to zeros
or to the pair of the submission before. Each submission has a number, and a
pair, a row of a cache and a result are named by the number of the submission
that wrote them: `NativeCallsAreSound` compares these.

### BenchmarkCohort

The cohort engine's loop over one cold, the warmup and the measured attempts, the
collection of a sample, and the assembler, which validates a complete journal a
second time. Of a sample the model keeps its slot and its durations.

### MultimodalInputs

One behaviour takes one page through `recognizeCanvas`: resize, patches, patch
embedding, merge, prompt, embeddings, positions, rope tables; the second half of
the module is the reference that `pvlc-cpu-ref` states for each of them. Numbers
are rationals; a resampled pixel is the set of the pixels it blends.

### WeightPacks

A file is a sequence of cells. Each writer is an operator from what it is asked
to write to a file, each reader an operator from a file to a result or `Refused`,
with the tests of the code in it. `Damages` changes a cell, cuts the file or makes
it longer between the two.

### StaticArena

One behaviour is one call. `Pick` takes the next lifetime in the order of the
pass, `PassConflict`, `PlaceInGap` and `PlaceAtEnd` are the iterations and the
exit of `lowest_available_offset`, `Fail` an arithmetic overflow, `Finalize` the
aligned arena size. Both passes run, and `Result` is the code's choice between
them. `ByteMax` stands for `u64::MAX`.

## 3. Runs

| run | instance | what it shows |
|---|---|---|
| `session_owner` | 3 payloads, 4 generations, 4 leases | The owner's safety, the refinement of `ExclusiveSession`, and that a cancelled generation closes. |
| `decoder_awaited` | 1 operation at a time, 5 descriptors, 2 checkpoints, all errors, `CounterMax` 4 | Soundness of a session that can be used and of the resident weights; token counts; the row a readout reads. |
| `decoder_free` | 2 pending operations in all interleavings, all errors, `CounterMax` 2 | Leases, scopes and poison. |
| `decoder_live` | 2 pending operations, failures but no captured error | Every promise settles. |
| `decoder_overlap_stale` | as `decoder_free` | Violated; see findings. |
| `engine` | 3 recognitions on 2 runtimes | The pool, sessions and token counts, with failures and dispose at any time. |
| `engine_live` | 3 recognitions on 1 runtime | No error is lost when recognitions take turns, and each of them ends. |
| `engine_shared` | 2 recognitions on 2 runtimes | Violated; see findings. |
| `static_arena` | every input of up to 3 tensors, sizes 1 and 3, alignments 1 and 4, 3 stages, `ByteMax` 7 | Placement, agreement with the verifier, cost of aliasing, first fit, overflow. |
| `vision_stack` | 2 runtimes, 2 checkpoints, 1 layer, refused pushes and pops, one kind of GPU error | The busy flag, the shared weight cache, and scopes that were left behind. |
| `vision_cold_errors` | 1 runtime, 1 checkpoint | Violated; see findings. |
| `independent_components` | see below | One property for each of the components that share no state. |

`independent_components` checks `MCIndependentComponents`. Its initial state
chooses one of eleven components, and only that one moves, so its states are the
sum of theirs and not the product. Its properties are named after what they say
of the components:

| property | components | instance |
|---|---|---|
| `ProgramsComputeReference` | `VisionPrograms`, `DecoderPrograms` | vision stacks of 2 layers on 4 tokens in two segments, in each strategy, layout and precision that has a program of its own, and projections of one and two images; the four decoder sessions with caches of 3 rows, chunks of 2 and stacks of 2 layers |
| `OperationsSettle` | `VisionStackSession` | 1 runtime, 1 checkpoint, 2 layers, with refusals |
| `LayerSessionsAreSound` | `DecoderLayerSession` | each of the three authorities with one operation, beside one of another authority |
| `RuntimesAreSound` | `BrowserDevice`, `NativeRuntime` | 3 creations; 2 threads, 1 fault, 2 timestamp attempts, a pipeline cache of 2 |
| `AssetsAreSound` | `ModelAssets` | 2 lanes, 3 loads |
| `JournalsAreSound` | `BenchmarkCohort` | 1 cold, 1 warmup and 1 measured attempt, with and without timestamps |
| `DispatchesAreSound` | `DispatchGeometry`, programs | calls around each tile and workgroup size and around the limit of an axis, here 32 |
| `PreparedInputsAreSound` | `MultimodalInputs`, `WeightPacks` | pages of 1 to 20 by 1 to 18 pixels, a budget of 32 to 96 pixels, patches of 2, merges of 2; 14 packs, each with one cell changed, cut off or added |

All runs set `CHECK_DEADLOCK FALSE`: the models stop when the counters are used
up, when all recognitions have ended, or when a planner, a page or a cohort is
done, and so does the program.

### Why the bounds are enough

* Three payloads and four generations let two operations be orphans of cancelled
  generations while a third one is current. A stale completion can then meet any
  state of a newer generation.
* Two checkpoints: the cache is replaced by another one's weights. The awaited
  descriptors have a prompt that leaves room for one token, a prompt that fills
  its cache, a prefix supplied by the caller, a cache too small for any prompt
  and a prompt too long for its cache (the last two are refused). `CounterMax` 4
  allows a begin, a prefill, a step and a readout with a failed operation among
  them, or several begins.
* Two pending operations are the least that exchange scopes. With `CounterMax` 2
  there are two generations and two leases: an operation of a cancelled
  generation, and a newer session with an operation of its own.
* The liveness run restricts the data (one descriptor, no checkpoint, no
  captured error), never the control: each push, map and pop may still fail, and
  aborts come at any time. A captured error only changes what a settling
  operation stores.
* Three recognitions on two runtimes: one waits. Two are the least that exchange
  scopes. `MaxSteps` 1 and 2 reach the last free row of the cache, since the
  capacity is `PromptTokens + MaxSteps`.
* Three tensors: two that are placed with a gap between them, or that overlap
  each other under aliasing, and a third that conflicts with both. Eight bytes
  make some inputs overflow in one pass only.
* Two runtimes with two checkpoints reset each other's cache at every point of a
  session. One layer and the post norm are two entries that must be of one model.
* A cache of three rows with chunks of two has a full chunk, a partial one and a
  prefix that ends on their border; two layers use both slots of the ping-pong,
  and a stack of a real model has an even number of layers.
* A page of the code has a factor of 28 and a budget of about a million pixels;
  here the factor is 4. Sides shorter than the factor, both bounds of the area,
  ratios at and past the maximum, and grids wider than the position table occur.
* Two threads suffice for a pair that was another thread's, and one fault for each
  exit of a call; the second call of a thread then meets what the first one left.

Symmetry is declared for interchangeable model values in runs without liveness.

### Fairness

* `AsyncSessionOwner!FairSpec`: each lease is completed at some time. The
  authorities complete on each exit, once WebGPU has settled the promises they
  await. `LeasesArePending` and `EveryOperationSettles` check this of the
  decoder session.
* `DecoderStackSession!FairSpec`: strong fairness for the steps of each pending
  operation. The event loop delivers a settled promise although a client keeps
  calling; a delivery is only put off while the body of a new call starts, so
  weak fairness would say too little. For the polling wait (`setTimeout`), strong
  fairness says that it does not miss each idle moment. A client that never
  pauses could starve it in principle, but the model has at most `CounterMax`
  leases, so the owner is idle in the end or its holder is stuck.
* `RecognitionEngine!FairSpec`: weak fairness for each recognition; downloads
  and GPU promises settle. Nothing makes a client call or dispose.
* `VisionStackSession!Fairness`: weak fairness for the delivery of error events
  and for what each runtime does when a promise of the device resolves. Nothing
  makes a client call, abort or finish.

## 4. Findings

* **A cancelled operation waits once** (`decoder_overlap_stale`). The
  documentation says that its scopes are drained only after the newer lease in
  flight clears. The code waits before the first pop only; a lease acquired
  after it is in flight during the other two.
* **Recognitions in parallel exchange their error scopes** (`engine_shared`). The
  decoder session's documentation says that any failure after an effect poisons
  the session. The engine makes calls overlap: its runtimes share the device. An
  error of one recognition's decoder work may be reported to another one, and the
  session with the error stays ready. With one runtime the property holds
  (`engine_live`), and so it does for a client that awaits each call
  (`decoder_awaited`). Two begins of one authority that are admitted before
  either one's promise has run exchange their scopes in the same way.
* **Errors of cold layers are erased** (`vision_cold_errors`). A contract test
  requires that uncaptured errors are looked at before the weights of a cold
  session become resident. The statements are in that order, but cold layers are
  enqueued outside of any scope, and finish clears the list of uncaptured errors
  when it starts: the weights become resident all the same.

More observations that contradict no text: dispose forgets the recognitions that
wait for a runtime, whose promises never settle (`EveryRecognitionSettles` excepts
them); a begin that captures an error leaves its poisoned session in the runtime,
because `decoderSessionStarted` is set after begin resolved, so that later
recognitions on this runtime are refused (`NoSessionOutlivesItsJob` allows it);
the vision stage begins a session and never aborts it; the planner of the vision
stack accepts layers in half precision whose head dimension is no multiple of 4,
of which the shader would write less than all, and leaves it to the plan of the
rope beside it to refuse them (`JobsAreCalls`); the
shards of a session pack are in the order of their use, which `PackReader` refuses
because it requires the order of ids; `PackBuilder` does not test the reader's
`MAX_SECTIONS`; and positions of several frames are counted twice where a page
always has one.

## 5. Proofs

`tlapm` proves, for every value of the constants that meets their assumptions:

| module | theorem | says |
|---|---|---|
| `AsyncSessionOwnerProofs` | `TypeCorrect`, `OwnershipIsSafe`, `NothingIsRevived`, `CancellationsStay` | all safety properties of the owner |
| | `OwnerImplementsExclusiveSession` | the refinement |
| `DecoderStackProofs` | `BusyOnlyWhilePending` | no settled operation leaves a lease out |
| | `PoisonLasts` | a poisoned session never works again |
| | `SessionsHaveOneOwner` | the owner's safety holds inside the authority |
| | `TokensCountRows` | a usable session counts the rows of its cache |
| | `ReadoutsAreCurrent` | a readout reads the row written last |
| | `TypesHold` | the types of the session's state |
| | `NoScopeIsLeft` | no error scope outlives the pending operations |
| | `UsableIsSound`, `ResidentsAreSound` | of a client that awaits, what can be used is sound |
| `VisionStackProofs` | `BusyFollowsTheSession` | the busy flag is set exactly while there is a session |
| | `CacheIsOfOneModel` | the shared weight cache never mixes models |
| | `ResidentSessionsArePure` | no session binds weights of another model |
| | `LeftoversHaveAnOwner` | a pop always finds a scope; any more are of poisoned runtimes, at most one operation's scopes of each |
| | `TypesHold` | the types of the runtimes, the cache and the device |
| `RecognitionEngineProofs` | `RuntimesAreLentOnce` | a runtime has one borrower or is free once |
| | `NoWakeupIsLost` | nobody waits beside a free runtime |
| | `SessionsEndWithTheirJob` | no usable session outlives its recognition |
| | `TheLoopTracksItsSession` | the loop's token count is the session's, with room left |
| | `OneRuntimeIsSound` | with one runtime, what can be used saw no GPU error |
| `IndependentComponentsProofs` | `DeviceIsShared` | one device for all runtimes of a page |
| | `EntriesAreShared` | lanes share a download, count it once and try it again when it failed |
| | `JournalsAlwaysAssemble` | what the cohort engine completes is accepted, and a failure carries its journal |
| | `NativeCallsAreOwn` | a native call that succeeds returns what is its own, and leaves nothing behind |
| `IndependentSessionsProofs` | `LayerSessionsShareScopes` | the three other authorities beside one more: under any overlap no scope is left over and no settled operation leaves a lease out; of a client that awaits, and only of that, what can be used is sound |
| | `ComponentsAreTyped` | the types of all components that share no state |
| | `DispatchesStaySound` | no dispatch of a program binds twice what it writes, and what `DispatchSafety` says |
| `DispatchProofs` | `DispatchSafety` | every dispatch of an admitted plan writes all it promises, nothing else, and nothing twice |
| `StaticArenaProofs` | `TypeCorrect`, `PlacementIsSafe`, `ReturnedPlanVerifies` | no overflow, no overlap, the verifier accepts |
| | `AliasingIsFree`, `FirstFitIsLowest`, `FailureIsJustified` | aliasing never costs, first fit is the lowest fit, an overflow is reported only if nothing fits |

**The owner.** Assumptions: `NoSession` is no session, `CounterMax` is a natural
number. The properties are not inductive by themselves: nothing in them stops a
caller from holding a lease with a number still to be issued, which a later
acquire would make current again. The invariant adds `IssuedIds` (identifiers in
circulation were issued), `UniqueLeases` (no two callers share a lease) and
`CallersKeepTheirGeneration` (a caller holds a session born in the generation its
lease names). One lemma per action shows that it is kept. For the refinement,
`CurrentCallerHoldsSession` shows that the CHOOSE of the mapping picks the one
current caller, and each action is mapped to one of `ExclusiveSession` or to a
stutter.

**The decoder stack.** The assumptions are the owner's; clients need not await,
and there may be any number of pending operations. The module instantiates
`AsyncSessionOwnerProofs` with the authority's variables: its lemmas say that
the owner's invariant survives each call of the owner (`OwnerBegins` to
`OwnerCompletes`), and `OwnerRejects` shows the same of a rejected call, which
is no step of the owner alone. To this the invariant adds `OpsHold`: each
operation that is no begin holds a lease that is out, and no two hold the same
one. `LeasesArePending` follows by induction, because an operation settles only
in the step that completes its lease. `PoisonLasts` rests on the owner's
invariant: while a session is stored no lease is current, so a late completion
is stale, and the session of a lease that is out is not the stored one
(`HeldSession`), so work that still goes on never clears the flag of the stored
one. Operations and sessions are known by the names of their fields only
(`Shape`): what the others hold does not matter to these properties.

Its cache (`TokensCountRows`, `ReadoutsAreCurrent`). `AtRest` says what a session between two
operations is: its tokens are its rows, and the row written last is that of the
prompt exactly when no token was decoded since. While an operation has the
session, tokens and rows differ; `LeaseCache` keeps, for each of its states, what
the commit is going to make of them: in `gpu`, that the session is at rest once
it is committed. `EncodedRows` shows this of the row that is submitted, from the
test of the capacity at the call; no other operation can change the session in
between, because no two hold the same one (`OwnSessions`). Neither this nor the
theorems need a client that awaits.

Its scopes (`UsableIsSound` and the two before it). `Owed` is the set of pops that pending
operations still have to make; `Counted` says that there are never more scopes
than that, and fewer only because the ledger of a failed push names a scope that
does not exist. Hence nothing is left when nothing is pending. `CountChanges`
shows how the count of what is owed follows a single ledger. For clients that
await (`AwaitsCalls`, an assumption of the last two theorems: the finding
`decoder_overlap_stale` and the interleaving of scopes show why it is needed)
`Sound` adds that at most one operation is pending, so all scopes are its own,
and that of an unsound session the error was captured or is in a scope still to
be popped (`Seen`). `PopEffect` shows that a pop loses no error: it moves from
the stack to the `dirty` flag. With nothing left to pop and no error captured,
the session is sound.

**The vision stack.** Any number of runtimes, models and layers. The invariant is
a conjunction of one predicate per runtime (`RuntimeInv`: the slot of the owner
and the operation in progress agree with the flags, and the session is pure)
and one of the shared cache (`OneModel`: it never has more layers than a model,
all of the key it is prepared for, and it is ready only if complete). Most steps
change one runtime and leave the cache alone, or store one entry of the prepared
key; a begin prepares the cache although it may be refused afterwards.

The scopes of all runtimes are on one stack, so nothing about them is local to a
runtime. `Counted` bounds the length of the stack from both sides: by what the
operations in progress still have to pop (`Owed`), and by that together with one
operation's scopes for each poisoned runtime (`OnStack`). `OneRecounts` says how
such a sum over the runtimes changes with a single one of them, `CountedStep` that
a step keeps `Counted` if the stack moves with what its runtime owes. That a
poisoned runtime has no operation and starts none (`RuntimeInv`) is why each
contributes once: a pop that is refused leaves the rest of its operation's scopes
and poisons the runtime in the same step (`DrainKeepsInv`). `ScopesAreThere`
follows: a pop that is made always finds a scope. For the types, `MayAdvance`
keeps the position of a session that is going to be stored again below its last
one, and a cold session knows its model.

**The other sessions** (`IndependentSessionsProofs`). `DecoderLayerSession` is
made of the decoder stack session's steps, and so is its proof. The operation of the
other authority, of which the model keeps only how many scopes it has left, is
one more operation `OtherOp` of the decoder stack session: one whose begin has
failed and that drains what it pushed (`OtherState`). `All` instantiates
`DecoderStackProofs` with `Op \union {OtherOp}`; the first lemmas show that each
step of the layer sessions is a step of `All` (`PopStepsAreSteps` to
`AbortIsStep`), so that its lemmas say what the step keeps. The other authority
pushes and pops at any time, which no operation of `All` does; `OtherKeepsLayers`
repeats the argument about counts for it. Whether calls are awaited is a variable
here and a constant there, which is why `ScopeInv` has a parameter for it. The
assumption is `AuthorityIsValid`, about the constants.

`ComponentsAreTyped` collects the types of all components from the theorems above,
those of the vision session from `VisionStackProofs` (`VisionSteps` shows that
the two instances have the same steps). It assumes that the values that stand for
a free lock and for no device are no thread and no runtime.

**The engine.** Any number of runtimes and recognitions. `HoldersAreDistinct`,
`FreeIsFree` and `WaitersWait` say that the pool's stack, its queue and the
runtimes in use are disjoint and without repetition; `LentOnce`, a count, follows
from them. `SessionsEnd` strengthens `NoSessionOutlivesItsJob` by the holders that
have not begun their decoder session yet: their runtime has none that is usable.
For the token counts, `Tracks` says of each recognition, by the operation and the
state it is in, how the loop's count and the session's are related: equal around
a selection, one apart while a step is drained, and the prompt's after a prefill.
That nobody else changes the session in between is `HoldersAreDistinct`.

With one runtime (`RuntimeCount = 1`, the hypothesis of `OneRuntimeIsSound` and
the instance of `engine_live`; with two the property is violated, section 4) at
most one recognition is at work, so the scopes of the device are its own. `Settles`
says that there are exactly as many as it has still to pop, and that the error of
an unsound session is in one of them or has been seen. Together with sound
resident weights this is inductive (`ErrorsSurface`).

**The components on their own** (`IndependentComponentsProofs`). Each theorem is
about `SpecComponents`, whose steps are those of one component, so a lemma per
component (`CohortRuns`, `AssetsRun`, ...) first shows that its own
specification is implied, and the rest is about that component alone.

*The device.* `OneDevice` is inductive as it is. The theorem assumes that no
runtime is the value that stands for an empty slot.

*Downloads.* `AssetsInv` says of the map of promises that an entry is a promise
of its own key that was not rejected, and that each promise under way is the
entry of its key unless the asset was released in between (`LoadsHold`): this is
why deleting the key of a failed promise leaves no promise under another one.
`DownloadsHold` adds that what is written to the browser's cache was counted
first. `AssetsAreValid` (the weights are an asset, sizes are natural numbers) is
the assumption.

*Cohorts.* `JournalsAreSound` compares what the engine recorded with what the
assembler checks again. `CohortInv` keeps for each attempt of the journal what
the assembler will ask of it: its sequence number and cohort, a sample whose wall
time is neither zero nor saturated, and a timestamp pair that no other attempt
has (`PairsAreKept`). `CompleteIsAccepted` shows that such a journal of full
length passes. The protocol has at least one attempt (`ProtocolIsValid`).

*The native runtime.* Any number of threads, calls, timestamp attempts and
faults. `LockHolds`: exactly the holder of the lock is past it, and it has three
scopes. `QueueHolds`: submissions wait in the order of their numbers, behind
every pair that was resolved or accepted, and one that bears the number of a call
is that call's. `TimestampsHold`: pairs are accepted in the order of their
submissions, so a fresh one was never reported. What a call has read is fixed by
its state (`CallHolds`): it has submitted once, unless it is a single kernel, and
when no scope has captured an error its submission was accepted and, after the
wait, has run. The last part is about sessions (`SessionHolds`): a session that
may be stepped has no step pending, one that is being stepped is poisoned with
that step only, and a step left behind by a timeout keeps its session poisoned.
A later session of the same thread bears the number of a later submission, so
what is pending of the earlier one never writes into it. The theorem assumes that
the value which stands for a free lock is no thread.

**The planner.** Assumptions: identifiers and stages are natural numbers, sizes
and alignments positive, and alignments divide the number of addresses
(`AlignmentDividesRange`). The code accepts powers of two only, and there are two
to the 64th addresses; without this, the sum inside `align_up` could overflow
although a multiple was still in range. The invariant adds to the properties that conflicts already
passed by the scan end at or before the candidate (`ScannedEndBelow`), that what
is placed is aligned and ends within the address space, and that finished plans
verify (`PlansVerify`). Placing in a gap is safe because conflicts not yet
passed start no earlier than the next one, which is the order of the scan; at
the end because all were passed. `RoundingAligns` derives from the division
theorem that `align_up` returns a multiple, and `AlignedCandidate` that the
candidate neither moves down nor leaves the range.

That first fit is the lowest fit needs one more invariant, `CandidateLowest`: the
scan has skipped no offset at which the buffer could be placed. A conflict that
is passed rules out the offsets up to its end, and rounding up skips no multiple
(`RoundingIsLeast`). When the scan overflows there is no such offset left, which
is `FailureIsJustified`.

**The dispatches** (`DispatchProofs`). A planner counts workgroups with `CeilDiv`
and folds long lines at the limit of an axis; a shader computes indices back from
workgroup and thread. For each shader the proof names the thread that owns an
element: a function `Own` from the promised elements to workgroups and places, such
that a thread writes exactly what it owns (`OwnedBy`). `OwnersComplete` then gives
both halves at once: no promised element is left out, as it has an owner, and none is
written twice, as it has only one. What is left is to find `Own` and to show that it
stays inside the grid, which is division with remainder: lemmas on `CeilDiv`, on
mixed radices and on strides, once for all shaders. Every plan then has one lemma,
and `GeometryInv` collects them: each dispatch that is still to run is complete
(`Done`), and so was the last one; of a kernel that was planned, the test admitted it and the
dispatches are those of its plan (`KernelIsPlanned`), which the bound on a line's
length needs. Two assumptions: sizes and limits are positive
(`GeometryIsCounted`), and the jobs are calls (`JobsAreCalls`). The latter gives a
line of elements a `u32` for its length, fewer than two axes have threads; without
it a line can be too long to fold. It also asks that the heads of a layer in half
precision are a multiple of 4. The layer's own plan does not ask this; the rope that
its callers plan beside it does (`crates/pvlc-runtime-core/src/lib.rs:4133`), see section 4.

**What a dispatch binds** (`IndependentSessionsProofs`). WebGPU refuses a dispatch
that binds overlapping ranges of a buffer if it writes one of them. `AllAdmissible`
says of a sequence of commands that none is of that kind; it is kept by
concatenation, so each block of a program has one lemma, and the invariants are that
the last submission is admissible (`DecoderAdmissible`, `VisionAdmissible`). Of the
decoder's programs that is a matter of names: two bindings of one dispatch are
different buffers or disjoint rows of one (`Apart`), whatever the token is. The ping-pong
of its main tensor, and that of the vision encoder (`current \in 0..1`), never reads
the buffer that it writes. The vision encoder's scratch tensors are cut from one
arena. `Together` says that two of them live at the same time by the hand-written
schedule, `OffsetsArePlacedWell` that what conflicts is placed apart, and
`ScratchFits` that therefore two of a dispatch fit; it is shown of each dispatch of
a layer that all its tensors live when it runs. `Offsets` is a recursive function
with one step for each of the eleven tensors: as long as what is placed is
placed well, a step places one more and keeps it so (`OneMorePlaced`), and after
eleven steps all are placed (`GrowsToAll`). The types of the jobs are the assumption
(`JobsAreTyped`). The lemmas on equality (`SameShaders` to `SameVerdicts`) carry
`DispatchSafety` to the instance of `DispatchGeometry` in `MCIndependentComponents`,
because tlapm keeps the definitions of two instances apart. The constants of that
instance are the module's own, so only its assumptions remain.

**Induction.** The library's induction theorems have an operator as a parameter and
cannot be cited here. What the proofs need of it they get from sets: `Least` says
that a nonempty set of natural numbers has a least element, from `WFMin` and the
well-foundedness of the order; `Induct` is induction for a set that contains 0 and
with each number the next one.

Only model-checked:

* liveness, which is out of the prover's reach: `CancelledGenerationCloses`,
  `EveryOperationSettles`, `EveryRecognitionSettles`, `OperationsSettle`;
* `ProgramsComputeReference`, the programs' refinement of `ReferenceDecoder`: it
  compares terms that recursive definitions and folds over data build on both sides;
* `PreparedInputsAreSound`: the packs are sorted and folded, and that a reader
  notices damage holds for one changed cell. With several, a payload and the digest
  that pins it could change together, so this is no statement for all values of the
  constants. Resizing and positions are nested folds over a page.

Every other property of the runs that pass is stated by a theorem: those of
soundness under the hypotheses named above, that the client awaits or that there
is one runtime.

## 6. What is abstracted or left out

* Floating point: a number is the term that computes it, or a rational. Rounding,
  tolerances and the order of a sum are left out, and so are the precisions of
  weights and activations. A failure to format a diagnostic is not modelled.
* Decoder session: the M7Q1 precision probes, which use no session;
  `begin_with_shader_override`, which is a begin with another shader text; errors
  raised when a buffer is mapped, which a scope of another operation could
  record; an exit after the pushes when the raw device is missing, which the
  pushes have excluded.
* GPU programs and their interleaving are two models: `DecoderPrograms` and
  `VisionPrograms` do one thing at a time, `DecoderStackSession` and
  `VisionStackSession` interleave operations of which they keep only whether they
  raised an error. The one-shot kernels are operations of `VisionStackSession`
  without buffers of their own.
* `u64` counters end at `CounterMax`, byte offsets at `ByteMax`. The owner's
  checked increments and the planner's checked sums are guards at these bounds.
* Engine: the vision stage is one step of `RecognitionEngine`;
  `AdaptiveOcrConcurrency`, which only chooses the number of pages in parallel.
* Packs: JSON texts and byte encodings are cells, so the reader's limit on the bytes
  of a directory (`MAX_DIRECTORY_BYTES`) is left out; of vision packs only the order of
  their shards, as the vision session follows it.

Not modelled: the safetensors reader (a parser of one format with bounds checks);
the tokenizer; compiler passes, IR and schemas (pure transformations of static
graphs); statistics of benchmark reports, environment probes and report files;
the CLI; the browser harness and the capture tools. `PROJECT.json` has a note on
each component.

## 7. Plan

Done: the modules above. What a later extension would add, in this order:

1. The vision stage inside `RecognitionEngine`, composed of `VisionStackSession`:
   the session that a failed load of a shard leaves behind meets the next
   recognition of its runtime.
2. Two authorities of different kinds with all their operations on one device,
   where `DecoderLayerSession` has one operation of another authority.
3. The adaptive width of `ocr_concurrency.mjs`.
4. `pvlc-safetensors`, with the layout that tiles its file, and the byte encoding
   of `pvlc-pack` below the cells.
5. Proofs: that resizing stays within its area and that prompt, positions and
   image rows agree, by the induction of `DispatchProofs`; then the packs, for one
   damaged cell.

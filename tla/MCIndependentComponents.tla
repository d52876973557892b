----------------------- MODULE MCIndependentComponents -----------------------
(***************************************************************************)
(* Components that share no state with each other, checked in one run: the *)
(* initial state chooses the component that takes steps, and each one is   *)
(* checked as if it were alone.                                            *)
(***************************************************************************)
EXTENDS VisionPrograms

CONSTANTS
    Layers, Capacity,                       \* the decoder's programs
    Runtime, Key, NoKey, Hit, Faults,       \* vision sessions
    StackLayers,
    LayerSession, NoLayerSession, CounterMax, Op,
    MaxRows,                                \* decoder layer sessions
    DeviceUser, NoDevice,                       \* the device
    Asset, WeightAsset, Size, MaxLoads,          \* the assets
    Warmup, Measured, MaxNs,                \* the cohort
    GroupLimit, QueryHeads, KeyValueHeads, HiddenSize, IntermediateSize,
    PlaneAlignment, GeometryJobs,           \* the dispatches
    Thread, NoThread, Programs, TimestampAttempts, CacheCapacity,
    MaxFaults,                              \* the native runtime
    t1,
    PatchSize, MergeSize, MinPixels, MaxPixels, PositionGrid, MaxAspect,
    Channels, Pages,                        \* the inputs of a page
    Packs, Widths, Drifts, MaxDamages       \* the packs of weights

VARIABLES
    component,
    kind, phase, prefix, prefill, tokens, cells, dispatches, call, row, answer,
    rt, scopes, late, sink, cache,
    stored, generation, inFlightLease, cancellationRequested, lastGeneration,
    lastLease, callers, bornIn, cancelled, sessions, deviceScopes, op, authority,
    awaits, other,
    slot, create, device,
    loads, memoized, persistent, downloaded, completed, released,
    pc, timestampQuery, journal, pairs, lastPair, execution, failure,
    geometryJob, stage, dispatchesLeft, outcome,
    program, executionLock, calls, succeeded, result, reported, errorScopes,
    pipeline, queue, submissions, resolved, readbackMapped, lastTimestamp,
    kvSessions, committed, captureLock, metalCapturing, document, faultsLeft,
    page, prepared, gridThw, pixelValues, visionTokens, features, inputIds,
    assembled, ropes,
    pack, file, damages, read, rebuilt

Decoder == INSTANCE DecoderPrograms WITH memory <- cells, commands <- dispatches
VisionSession == INSTANCE VisionStackSession WITH Layers <- StackLayers
Authority == INSTANCE DecoderLayerSession WITH
    Session <- LayerSession, NoSession <- NoLayerSession,
    scopes <- deviceScopes, kind <- authority
Device == INSTANCE BrowserDevice WITH Runtime <- DeviceUser
Assets == INSTANCE ModelAssets
Cohort == INSTANCE BenchmarkCohort
Geometry == INSTANCE DispatchGeometry
Native == INSTANCE NativeRuntime
Inputs == INSTANCE MultimodalInputs
Packing == INSTANCE WeightPacks

ASSUME DecoderShapes == Decoder!ShapesAreValid
ASSUME CohortProtocol == Cohort!ProtocolIsValid
ASSUME VisionSessionValues ==
    /\ StackLayers \in Nat \ {0} /\ Hit \subseteq 0..3
    /\ NoKey \notin Key /\ Faults \subseteq {"push", "pop"}
ASSUME AuthorityValues == Authority!AuthorityIsValid
ASSUME DownloadSizes == Assets!AssetsAreValid
ASSUME GeometryCounts == Geometry!GeometryIsCounted
ASSUME GeometryCalls == Geometry!JobsAreCalls

visionVars == <<job, memory, current, layer, commands, done>>
decoderVars == <<kind, phase, prefix, prefill, tokens, cells, dispatches, call,
                 row, answer>>
sessionVars == <<rt, scopes, late, sink, cache>>
authorityVars == <<stored, generation, inFlightLease, cancellationRequested,
                   lastGeneration, lastLease, callers, bornIn, cancelled,
                   sessions, deviceScopes, op, authority, awaits, other>>
deviceVars == <<slot, create, device>>
assetVars == <<loads, memoized, persistent, downloaded, completed, released>>
cohortVars == <<pc, timestampQuery, journal, pairs, lastPair, execution,
                failure>>
geometryVars == <<geometryJob, stage, dispatchesLeft, outcome>>
nativeVars == <<program, executionLock, calls, succeeded, result, reported,
                errorScopes, pipeline, queue, submissions, resolved,
                readbackMapped, lastTimestamp, kvSessions, committed,
                captureLock, metalCapturing, document, faultsLeft>>
pageVars == <<page, prepared, gridThw, pixelValues, visionTokens, features,
              inputIds, assembled, ropes>>
packVars == <<pack, file, damages, read, rebuilt>>
allVars == <<component, visionVars, decoderVars, sessionVars,
             authorityVars, deviceVars, assetVars, cohortVars, geometryVars,
             nativeVars, pageVars, packVars>>

(* The jobs of the vision programs. *)
Stacks(runtime, qkvs, spatials, grids) ==
    [runtime : {runtime}, strategy : Strategy, qkv : qkvs, spatial : spatials,
     layers : {2}, cuts : {<<0, 1, 4>>}, checkpoints : {{0}}, grids : grids]
Projections(grids) ==
    [runtime : {"web", "native"}, strategy : {"separate"}, qkv : {"plain"},
     spatial : {FALSE}, layers : {0}, cuts : {<<>>}, checkpoints : {{}},
     grids : grids]
VisionJobs ==
    Stacks("web", {"plain", "fused", "fp16"}, BOOLEAN, {<<>>})
    \union Stacks("native", {"plain", "fused"}, {FALSE}, {<<>>})
    \union Stacks("web", {"plain", "fp16"}, {TRUE}, {<<<<1, 2, 2>>>>})
    \union Projections({<<<<2, 2, 4>>>>, <<<<1, 4, 2>>, <<1, 2, 2>>>>,
                        <<<<1, 4, 4>>>>})

(* The calls of the planners: sizes on a multiple of a workgroup and beside *)
(* it, beyond an axis of GroupLimit workgroups, and calls to be refused.   *)
Kernels(names, sizes) == [call : {"kernel"}, kernel : names, dims : sizes]
StoredAs(names, storages, sizes) ==
    [call : names, storage : storages, dims : sizes]
Sized(names, sizes) == [call : names, dims : sizes]
KernelCalls ==
    Kernels({"gemm_f32", "vision_patch_projection_f32"},
            {<<1, 2, 1>>, <<8, 2, 9>>, <<33, 1, 32>>, <<2, 0, 2>>})
    \union Kernels({"gemv_f32", "layer_norm_f32", "rms_norm_f32"},
                   {<<1, 3>>, <<64, 2>>, <<65, 2>>, <<2049, 1>>})
    \union Kernels({"silu_f32", "gelu_tanh_f32", "gelu_erf_f32", "add_f32"},
                   {<<0>>, <<1>>, <<64>>, <<65>>, <<2048>>, <<2049>>, <<4161>>})
    \union Kernels({"rope_neox_f32"},
                   {<<3, 6, 4>>, <<33, 4, 4>>, <<2, 4, 3>>, <<2, 2, 4>>})
    \union Kernels({"vision_attention_f32"},
                   {<<1, 2, 3>>, <<129, 2, 4>>, <<1, 1, 73>>})
    \union Kernels({"projector_merge_2x2_f32"}, {<<1, 3>>, <<4, 130>>})
DecoderCalls ==
    Sized({"tiledProduct"},
          {<<1, 40>>, <<9, 72>>, <<256, 256>>, <<257, 40>>, <<8, 41>>})
    \union Sized({"cache"}, {<<1, 2>>, <<32, 64>>, <<5, 5>>, <<1, 513>>})
    \union Sized({"layer"}, {<<0, 1>>, <<2, 2>>})
    \union Sized({"prefill"}, {<<1, 1>>, <<5, 6>>, <<6, 6>>, <<3, 2>>})
    \union Sized({"lmHead"}, {<<40, 250>>, <<40, 257>>, <<41, 250>>,
                              <<41, 2049>>})
EncoderCalls ==
    StoredAs({"projection", "fused"}, {"f32", "f16"},
           {<<1, 4, 4>>, <<17, 4, 36>>, <<33, 4, 6>>, <<1, 4, 1028>>})
    \union StoredAs({"rope"}, {"f32", "f16"},
                  {<<1, 2, 4>>, <<17, 2, 8>>, <<1, 1, 6>>, <<2049, 1, 4>>})
    \union StoredAs({"projector"}, {"f32", "f16"},
                  {<<1, 4, 4>>, <<33, 64, 8>>, <<1, 6, 4>>, <<9, 60, 4>>})
    \union StoredAs({"visionLayer"}, {"f32", "f16Weights", "f16"},
                  {<<1, 1, 4, 4>>, <<33, 2, 4, 8>>, <<130, 1, 4, 68>>,
                   <<2, 2, 4, 6>>})
    \union [call : {"visionStack"}, layers : {2}, dims : {<<2, 1, 3, 5>>}]
PlannerCalls == KernelCalls \union DecoderCalls \union EncoderCalls

(* The calls of two native threads.                                        *)
InThreads(first, second) == [t \in Thread |-> IF t = t1 THEN first ELSE second]
NativePrograms ==
    {InThreads(<<"kernel", "vision stack">>, <<"kernel">>),
     InThreads(<<"begin", "step", "step", "finish">>, <<"kernel">>),
     InThreads(<<"begin", "step">>, <<"begin", "step", "finish">>),
     InThreads(<<"cached gqa", "pipeline">>, <<"projector", "vision layer">>),
     InThreads(<<"capture", "kernel", "stop">>,
               <<"capture", "fused qkv", "stop">>)}

(* Pages that keep their size, grow, shrink, are widened or are refused.   *)
ScannedPages ==
    [height : {1, 3, 4, 5, 7, 8, 13, 20}, width : {1, 3, 4, 6, 10, 18},
     prefix : {<<"text", "vision start">>},
     suffix : {<<"text">>, <<"text", "task">>}, generated : {2}]

(* Packs of weights of one channel: sections in and out of order, repeated *)
(* and empty, weights that are not finite, and each storage and layout.    *)
WidthsOfOne == [hidden |-> 1, query |-> 2, keyValue |-> 1, intermediate |-> 2,
                vocab |-> 3, layers |-> 2, head |-> 1, output |-> 1]
CellOf(n) == <<n, <<>>>>                  \* Cell of WeightPacks
InfiniteElement == 7                      \* NonFinite of WeightPacks
Plain(id, section, alignment, length) ==
    [id |-> id, kind |-> section, alignment |-> alignment,
     cells |-> [k \in 1..length |-> CellOf(k)]]
SectionsBy(writer, sections) ==
    [writer |-> writer, build |-> 2, valid |-> FALSE, sections |-> sections]
ProjectorCase(profile, all) ==
    [profile |-> profile, tokens |-> 4, allStages |-> all,
     input |-> [k \in 1..8 |-> CellOf(k % 5)],
     expected |-> [k \in 1..(IF all THEN 34 ELSE 2) |-> CellOf(30 + k)]]
ProjectorBy(writer, cases, valid) ==
    [writer |-> writer, cases |-> cases, valid |-> valid,
     weights |-> [k \in 1..54 |->
         CellOf(IF k = 54 /\ ~valid THEN InfiniteElement ELSE 9 + k)]]
SessionBy(writer, of, storage, shards, tokensBefore, odd) ==
    [writer |-> writer, kind |-> of, storage |-> storage, count |-> shards,
     prefix |-> tokensBefore, capacity |-> 2, odd |-> odd]
WrittenPacks ==
    {SectionsBy("builder", <<>>),
     SectionsBy("builder", <<Plain(<<2, 1>>, 4, 1, 3), Plain(<<2>>, 5, 2, 0),
                             Plain(<<3>>, 3, 4, 5)>>),
     SectionsBy("another writer",
                <<Plain(<<2, 1>>, 2, 1, 3), Plain(<<2>>, 2, 2, 1)>>),
     SectionsBy("another writer",
                <<Plain(<<2>>, 2, 1, 3), Plain(<<2>>, 2, 2, 1)>>),
     ProjectorBy("projector",
                 <<ProjectorCase(2, FALSE), ProjectorCase(1, TRUE)>>, TRUE),
     ProjectorBy("js projector", <<ProjectorCase(1, TRUE)>>, TRUE),
     ProjectorBy("projector", <<ProjectorCase(1, TRUE)>>, FALSE),
     SessionBy("multimodal", "stack", "f32", 13, 0, 0),
     SessionBy("multimodal", "stack", "f16", 13, 1, 0),
     SessionBy("multimodal", "stack", "f16", 13, 0, 6),
     SessionBy("multimodal", "stack", "f16", 13, 0, 13),
     SessionBy("balanced", "stack", "f16", 11, 1, 0),
     SessionBy("layer", "layer", "f32", 7, 1, 0),
     SessionBy("layer", "full layer", "f32", 11, 1, 0)}

InitComponents ==
    /\ component \in {"vision programs", "decoder programs", "vision session",
                      "layer session", "device", "assets", "cohort",
                      "dispatches", "native runtime", "page inputs",
                      "weight packs"}
    /\ Init
    /\ component # "vision programs" => job = CHOOSE j \in Jobs : TRUE
    /\ Decoder!Init
    /\ component # "decoder programs" => kind = "kv"
    /\ VisionSession!Init
    /\ Authority!Init
    /\ component # "layer session" => authority = "kv" /\ awaits
    /\ Device!Init
    /\ Assets!Init
    /\ component # "assets" => persistent = {}
    /\ Cohort!Init
    /\ component # "cohort" => timestampQuery
    /\ Geometry!Init
    /\ component # "dispatches" =>
           geometryJob = CHOOSE j \in GeometryJobs : TRUE
    /\ Native!Init
    /\ component # "native runtime" =>
           program = CHOOSE p \in Programs : TRUE
    /\ Inputs!Init
    /\ component # "page inputs" => page = CHOOSE p \in Pages : TRUE
    /\ Packing!Init
    /\ component # "weight packs" => pack = SectionsBy("builder", <<>>)

NextComponents ==
    \/ /\ component = "vision programs"
       /\ Next
       /\ UNCHANGED <<component, decoderVars, sessionVars, authorityVars,
                      deviceVars, assetVars, cohortVars, geometryVars,
                      nativeVars, pageVars, packVars>>
    \/ /\ component = "decoder programs"
       /\ Decoder!Next
       /\ UNCHANGED <<component, visionVars, sessionVars, authorityVars,
                      deviceVars, assetVars, cohortVars, geometryVars,
                      nativeVars, pageVars, packVars>>
    \/ /\ component = "vision session"
       /\ VisionSession!Next
       /\ UNCHANGED <<component, visionVars, decoderVars, authorityVars,
                      deviceVars, assetVars, cohortVars, geometryVars,
                      nativeVars, pageVars, packVars>>
    \/ /\ component = "layer session"
       /\ Authority!Next
       /\ UNCHANGED <<component, visionVars, decoderVars, sessionVars,
                      deviceVars, assetVars, cohortVars, geometryVars,
                      nativeVars, pageVars, packVars>>
    \/ /\ component = "device"
       /\ Device!Next
       /\ UNCHANGED <<component, visionVars, decoderVars, sessionVars,
                      authorityVars, assetVars, cohortVars, geometryVars,
                      nativeVars, pageVars, packVars>>
    \/ /\ component = "assets"
       /\ Assets!Next
       /\ UNCHANGED <<component, visionVars, decoderVars, sessionVars,
                      authorityVars, deviceVars, cohortVars, geometryVars,
                      nativeVars, pageVars, packVars>>
    \/ /\ component = "cohort"
       /\ Cohort!Next
       /\ UNCHANGED <<component, visionVars, decoderVars, sessionVars,
                      authorityVars, deviceVars, assetVars, geometryVars,
                      nativeVars, pageVars, packVars>>
    \/ /\ component = "dispatches"
       /\ Geometry!Next
       /\ UNCHANGED <<component, visionVars, decoderVars, sessionVars,
                      authorityVars, deviceVars, assetVars, cohortVars,
                      nativeVars, pageVars, packVars>>
    \/ /\ component = "native runtime"
       /\ Native!Next
       /\ UNCHANGED <<component, visionVars, decoderVars, sessionVars,
                      authorityVars, deviceVars, assetVars, cohortVars,
                      geometryVars, pageVars, packVars>>
    \/ /\ component = "page inputs"
       /\ Inputs!Next
       /\ UNCHANGED <<component, visionVars, decoderVars, sessionVars,
                      authorityVars, deviceVars, assetVars, cohortVars,
                      geometryVars, nativeVars, packVars>>
    \/ /\ component = "weight packs"
       /\ Packing!Next
       /\ UNCHANGED <<component, visionVars, decoderVars, sessionVars,
                      authorityVars, deviceVars, assetVars, cohortVars,
                      geometryVars, nativeVars, pageVars>>

SpecComponents ==
    InitComponents /\ [][NextComponents]_allVars /\ VisionSession!Fairness
-----------------------------------------------------------------------------
(* The types of the components that no other run checks them for.          *)
TypeOK ==
    /\ VisionSession!TypeOK /\ Authority!TypeOK
    /\ Device!TypeOK /\ Assets!TypeOK /\ Cohort!TypeOK /\ Native!TypeOK

(* The GPU programs of the vision encoder, the projector and the decoder   *)
(* compute what the CPU reference does; see VisionPrograms and             *)
(* DecoderPrograms.                                                        *)
ProgramsComputeReference ==
    /\ ComputesReference /\ [][ComputesReference']_visionVars
    /\ Decoder!ComputesReference

(* Scoped operations of a vision session settle; see VisionStackSession.   *)
OperationsSettle == VisionSession!OperationsSettle

(* The layer sessions pop what they push and offer nothing unsound; see    *)
(* DecoderLayerSession.                                                    *)
LayerSessionsAreSound == Authority!LayerSessionsAreSound

(* All runtimes of a page use one device, and the calls of a native one    *)
(* return what is their own; see BrowserDevice and NativeRuntime.          *)
RuntimesAreSound == Device!OneDevice /\ Native!NativeCallsAreSound

(* Lanes share downloads, failures are retried and progress is counted     *)
(* once; see ModelAssets.                                                  *)
AssetsAreSound == Assets!EntriesAreSound /\ Assets!ProgressIsFinal

(* Journals assemble, and failures carry them; see BenchmarkCohort.        *)
JournalsAreSound == Cohort!JournalAssembles /\ Cohort!FailureCarriesJournal

(* What is dispatched writes its whole output once, and binds nothing      *)
(* twice that it writes; see DispatchGeometry and the programs.            *)
DispatchesAreSound ==
    /\ Geometry!DispatchesAreSound
    /\ DispatchesAdmissible /\ Decoder!DispatchesAdmissible

(* A page's patches, prompt and positions are those of the CPU reference,  *)
(* and whoever reads a pack of weights reads what was written; see         *)
(* MultimodalInputs and WeightPacks.                                       *)
PreparedInputsAreSound ==
    Inputs!PreparedInputsAreSound /\ Packing!PacksAreSound
=============================================================================

--------------------------- MODULE VisionPrograms ---------------------------
(***************************************************************************)
(* What the vision encoder and the projector have the GPU compute: the     *)
(* vision stack sessions of pvlc-runtime-web/src/web.rs, the stack and the *)
(* projector of pvlc-runtime-native/src/lib.rs, and the plans of           *)
(* pvlc-runtime-core/src/lib.rs that lay out their buffers.  How the       *)
(* operations of a session interleave and fail is the subject of           *)
(* VisionStackSession; here they succeed one after the other.              *)
(*                                                                         *)
(* A hidden row is one cell, a row of the MLP is MlpWidth cells, and the   *)
(* alignment of bindings is a number of cells.  The precision of weights   *)
(* and activations, and the guards around hardened buffers, are left out.  *)
(***************************************************************************)
EXTENDS GpuKernels, CpuReference, TLC

CONSTANTS
    Jobs,       \* what is computed: see Job
    Tokens,     \* rows of the vision encoder's input
    MlpWidth,   \* cells of a row between mlp_fc1 and mlp_fc2
    Alignment   \* cells between admissible offsets of bindings

ASSUME WidthsAreCounts ==
    Tokens \in Nat \ {0} /\ MlpWidth \in Nat \ {0} /\ Alignment \in Nat \ {0}

Strategy == {"separate", "noAlias", "alias"}

(* runtime: whose code runs; qkv: the projections one by one, fused, or    *)
(* fused with 16 bit weights; spatial: with rotations; cuts: cu_seqlens;   *)
(* checkpoints: the layers whose output is read back; grids: the images    *)
(* that the projector merges, <<>> where the job ends with the encoder.    *)
Job == [runtime : {"web", "native"}, strategy : Strategy,
        qkv : {"plain", "fused", "fp16"}, spatial : BOOLEAN,
        layers : Nat, cuts : Seq(Nat), checkpoints : SUBSET Nat,
        grids : Seq(Nat \X Nat \X Nat)]
ASSUME JobsAreTyped == \A j \in Jobs : j \in Job

VARIABLES
    job,        \* what is computed
    memory,     \* the buffers
    current,    \* current_main
    layer,      \* layers submitted
    commands,   \* the last submission
    done        \* the readback is mapped

vars == <<job, memory, current, layer, commands, done>>
-----------------------------------------------------------------------------
(* The activation layout.  VISION_STACK_SCRATCH_SCHEDULE: the dispatch     *)
(* that writes each of the eleven scratch tensors, and the last to read    *)
(* it.  Mutant: the residual is forgotten once norm2 has read it.          *)
ScheduleDropsResidual ==
    <<<<0, 3>>, <<1, 4>>, <<2, 4>>, <<3, 4>>, <<4, 5>>, <<5, 6>>, <<6, 7>>,
      <<7, 8>>, <<8, 9>>, <<9, 10>>, <<10, 11>>>>
Schedule ==
    <<<<0, 3>>, <<1, 4>>, <<2, 4>>, <<3, 4>>, <<4, 5>>, <<5, 6>>, <<6, 11>>,
      <<7, 8>>, <<8, 9>>, <<9, 10>>, <<10, 11>>>>

Lived(s) == Schedule[s + 1]
Width(s) == IF s \in {8, 9} THEN MlpWidth ELSE 1
ScratchCells(s) == Tokens * Width(s)
AlignedUp(n) == ((n + Alignment - 1) \div Alignment) * Alignment

(* plan_static_arena: the tensors are placed one after the other, each at  *)
(* the lowest offset where it meets no placed tensor it conflicts with.    *)
Conflict(aliasing, s, t) ==
    ~aliasing \/ (Lived(s)[1] <= Lived(t)[2] /\ Lived(t)[1] <= Lived(s)[2])
PlacedFirst(aliasing, s, t) ==
    IF aliasing /\ ScratchCells(s) # ScratchCells(t)
    THEN ScratchCells(s) > ScratchCells(t)
    ELSE s < t
Unplaced == -1
PlacedTensors(placed) == {t \in 0 .. 10 : placed[t] # Unplaced}
Placed(aliasing, placed, s) ==
    LET conflicts == {t \in PlacedTensors(placed) : Conflict(aliasing, s, t)}
        Free(at) == \A t \in conflicts : \/ at + ScratchCells(s) <= placed[t]
                                         \/ placed[t] + ScratchCells(t) <= at
        candidates == {0} \union
                      {AlignedUp(placed[t] + ScratchCells(t)) : t \in conflicts}
    IN  CHOOSE at \in candidates :
            Free(at) /\ \A other \in candidates : Free(other) => at <= other
Offsets(aliasing) ==
    LET after[n \in 0 .. 11] ==
            IF n = 0 THEN [t \in 0 .. 10 |-> Unplaced]
            ELSE LET placed == after[n - 1]
                     left == (0 .. 10) \ PlacedTensors(placed)
                     s == CHOOSE s \in left :
                              \A t \in left :
                                  t # s => PlacedFirst(aliasing, s, t)
                 IN  [placed EXCEPT ![s] = Placed(aliasing, placed, s)]
    IN  after[11]
OffsetsAliased == Offsets(TRUE)
OffsetsApart == Offsets(FALSE)
ArenaEnd(offsets) ==
    LET ends == {offsets[s] + ScratchCells(s) : s \in 0 .. 10}
    IN  AlignedUp(CHOOSE n \in ends : \A m \in ends : m <= n)

(* The aliasing plan is taken unless it is the larger one. *)
AliasingPays == ArenaEnd(OffsetsAliased) <= ArenaEnd(OffsetsApart)
ArenaOffsets ==
    IF job.strategy = "alias" /\ AliasingPays THEN OffsetsAliased ELSE OffsetsApart

ScratchBuffers == <<"scratch-0", "scratch-1", "scratch-2", "scratch-3", "scratch-4",
    "scratch-5", "scratch-6", "scratch-7", "scratch-8", "scratch-9", "scratch-10">>

Scratch(s) ==
    Wide(IF job.strategy = "separate"
         THEN Slice(ScratchBuffers[s + 1], 0, ScratchCells(s))
         ELSE Slice("scratch-arena", ArenaOffsets[s], ScratchCells(s)),
         Width(s))

(* plan_vision_qkv_fused_geometry: three planes in one workspace.          *)
PlaneStride == AlignedUp(Tokens)
Plane(p) == Slice("qkv-workspace", p * PlaneStride, Tokens)
Workspace == Slice("qkv-workspace", 0, 3 * PlaneStride)
-----------------------------------------------------------------------------
(* Buffers of the vision encoder.                                          *)

MainBuffers == <<"main-0", "main-1">>
Main(m) == Slice(MainBuffers[m + 1], 0, Tokens)
Checkpoints == Cardinality(job.checkpoints)
ReadbackSlot(slot) == Slice("readback", slot * Tokens, Tokens)

LayerWeights ==
    <<"norm1.weight", "norm1.bias", "query.weight", "query.bias", "key.weight",
      "key.bias", "value.weight", "value.bias", "out.weight", "out.bias",
      "norm2.weight", "norm2.bias", "fc1.weight", "fc1.bias", "fc2.weight",
      "fc2.bias">>
PostNormWeights == <<"post_norm.weight", "post_norm.bias">>

(* Weight buffers hold one layer, and are uploaded for each. *)
LayerWeight(l, i) == Slice(LayerWeights[i + 1], l, 1)
PostNormWeight(i) == Slice(PostNormWeights[i + 1], 0, 1)

Clear(n) == [i \in 0 .. n - 1 |-> Zero]

(* Slot d has the words of dispatch d, slot 1 those of the fused           *)
(* projections if there are any, and slot 12 those of the post norm.       *)
(* Mutant: slot 1 keeps the words of the query projection.                 *)
UniformWordsUnfused(d) ==
    IF d = 4 THEN <<Tokens, Len(job.cuts) - 1>> ELSE <<Tokens, 0>>
UniformWords(d) ==
    CASE d = 1 /\ job.qkv # "plain" -> <<Tokens, PlaneStride>>
      [] d = 4 -> <<Tokens, Len(job.cuts) - 1>>
      [] OTHER -> <<Tokens, 0>>
Uniform(d) == [buffer |-> "uniforms", at |-> d]

Input == [i \in 1 .. Tokens |-> Weight("patch", i)]
Table(name) == [i \in 1 .. Tokens |-> Weight(name, i)]
Shifted(s) == [i \in 0 .. Len(s) - 1 |-> s[i + 1]]

Allocated ==
    ("main-0" :> Shifted(Input) @@ "main-1" :> Clear(Tokens)
     @@ "boundaries" :> [i \in 0 .. Len(job.cuts) - 1 |-> Number(job.cuts[i + 1])]
     @@ "uniforms" :> [d \in 0 .. 12 |-> UniformWords(d)]
     @@ "readback" :> Clear((Checkpoints + 1) * Tokens)
     @@ "rope-cos" :> Shifted(Table("cos")) @@ "rope-sin" :> Shifted(Table("sin"))
     @@ "rope-uniform" :> (0 :> <<Tokens>>))
    @@ [b \in {LayerWeights[i] : i \in 1 .. 16} |->
            [l \in 0 .. job.layers - 1 |-> Weight(b, l)]]
    @@ [b \in {PostNormWeights[i] : i \in 1 .. 2} |-> (0 :> Weight(b, 0))]
    @@ (IF job.strategy = "separate"
        THEN [b \in {ScratchBuffers[i] : i \in 1 .. 11} |->
                  Clear(ScratchCells((CHOOSE i \in 1 .. 11 : ScratchBuffers[i] = b) - 1))]
        ELSE "scratch-arena" :> Clear(ArenaEnd(ArenaOffsets)))
    @@ (IF job.qkv = "plain" THEN <<>> ELSE "qkv-workspace" :> Clear(3 * PlaneStride))
-----------------------------------------------------------------------------
(* Commands.                                                               *)

(* The static arena is bound once in every dispatch, read-write: only the  *)
(* fused projections with 16 bit weights keep the access they declare.     *)
(* Mutant: every kernel does.                                              *)
AccessedAsDeclared(command) == command
Accessed(command) ==
    IF job.strategy = "separate" THEN command
    ELSE IF command.kernel = "qkv_fused" /\ (job.qkv = "fp16" \/ job.runtime = "native")
    THEN command
    ELSE ReadWriteVariant(command)

Dispatch(kernel, bind, d) == Accessed(Command(kernel, bind, Uniform(d)))
Projection(l, d, w, from, to) ==
    Dispatch("projection", <<from, LayerWeight(l, w), LayerWeight(l, w + 1), to>>, d)
Norm(l, d, w, from, to) ==
    Dispatch("layer_norm", <<from, LayerWeight(l, w), LayerWeight(l, w + 1), to>>, d)
Boundaries == Slice("boundaries", 0, Len(job.cuts))

Rope(query, key) ==
    IF job.spatial
    THEN <<Accessed(Command("rope_2d",
               <<query, key, Slice("rope-cos", 0, Tokens), Slice("rope-sin", 0, Tokens)>>,
               [buffer |-> "rope-uniform", at |-> 0]))>>
    ELSE <<>>

Attention(query, key, value) ==
    <<Dispatch("attention", <<query, key, value, Boundaries, Scratch(4)>>, 4)>>

(* Dispatches 1 to 4 of layer l, from norm1 in scratch 0 to the attention  *)
(* context in scratch 4. *)
PlainQkv(l) ==
    <<Projection(l, 1, 2, Scratch(0), Scratch(1)),
      Projection(l, 2, 4, Scratch(0), Scratch(2)),
      Projection(l, 3, 6, Scratch(0), Scratch(3))>>
    \o Rope(Scratch(1), Scratch(2))
    \o Attention(Scratch(1), Scratch(2), Scratch(3))
FusedQkv(l) ==
    <<Dispatch("qkv_fused",
               <<Scratch(0)>> \o [i \in 1 .. 6 |-> LayerWeight(l, i + 1)] \o <<Workspace>>,
               1)>>
    \o Rope(Plane(0), Plane(1))
    \o Attention(Plane(0), Plane(1), Plane(2))

(* Layer l, from the rows in main buffer m to the other one. *)
LayerCommands(l, m) ==
    <<Norm(l, 0, 0, Main(m), Scratch(0))>>
    \o (IF job.qkv = "plain" THEN PlainQkv(l) ELSE FusedQkv(l))
    \o <<Projection(l, 5, 8, Scratch(4), Scratch(5)),
         Dispatch("residual", <<Main(m), Scratch(5), Scratch(6)>>, 6),
         Norm(l, 7, 10, Scratch(6), Scratch(7)),
         Projection(l, 8, 12, Scratch(7), Scratch(8)),
         Dispatch("gelu", <<Scratch(8), Scratch(9)>>, 9),
         Projection(l, 10, 14, Scratch(9), Scratch(10)),
         Dispatch("residual", <<Scratch(6), Scratch(10), Main(1 - m)>>, 11)>>
    \o (IF l \in job.checkpoints
        THEN <<Command("copy", <<Main(1 - m),
                   ReadbackSlot(Cardinality({c \in job.checkpoints : c < l}))>>, Tokens)>>
        ELSE <<>>)

(* The post norm of the rows in main buffer m: the browser's goes to the   *)
(* other main buffer, the native one to the first scratch tensor.          *)
PostNormed(m) == IF job.runtime = "web" THEN Main(1 - m) ELSE Scratch(0)
PostNorm(m) ==
    <<Dispatch("layer_norm", <<Main(m), PostNormWeight(0), PostNormWeight(1), PostNormed(m)>>,
               IF job.runtime = "web" THEN 12 ELSE 0)>>
-----------------------------------------------------------------------------
(* The projector.  projector_source_token_indices: for every 2x2 cell of   *)
(* every frame the tokens of its rows, counted from the image's first one. *)
(* Mutant: the lower row is that of a square image.                        *)
CellTokensSquare(height, width) ==
    LET Cell(c) ==
            LET first == 2 * (c \div (width \div 2)) * width + 2 * (c % (width \div 2))
            IN  <<first, first + 1, first + height, first + height + 1>>
    IN  [c \in 0 .. (height \div 2) * (width \div 2) - 1 |-> Cell(c)]
CellTokens(height, width) ==
    LET Cell(c) ==
            LET top_left == 2 * (c \div (width \div 2)) * width + 2 * (c % (width \div 2))
            IN  <<top_left, top_left + 1, top_left + width, top_left + width + 1>>
    IN  [c \in 0 .. (height \div 2) * (width \div 2) - 1 |-> Cell(c)]

FrameTokens(grid) == grid[2] * grid[3]
ImageTokens(grid) == grid[1] * FrameTokens(grid)
Preceding(grids, g) ==
    LET sum[k \in 0 .. Len(grids)] == IF k = 0 THEN 0 ELSE sum[k - 1] + ImageTokens(grids[k])
    IN  sum[g - 1]

(* Entry n, counted from 0, of image g. *)
SourceToken(grids, g, n) ==
    LET grid == grids[g]
        frame == n \div FrameTokens(grid)
        inFrame == n % FrameTokens(grid)
    IN  Preceding(grids, g) + frame * FrameTokens(grid)
        + CellTokens(grid[2], grid[3])[inFrame \div 4][(inFrame % 4) + 1]
SourceTokenIndices(grids) ==
    [n \in 0 .. Preceding(grids, Len(grids) + 1) - 1 |->
        LET g == CHOOSE g \in DOMAIN grids :
                     Preceding(grids, g) <= n /\ n < Preceding(grids, g + 1)
        IN  SourceToken(grids, g, n - Preceding(grids, g))]

InputTokens == Preceding(job.grids, Len(job.grids) + 1)
OutputTokens == InputTokens \div 4
ProjectorStages == <<"pre-norm", "merge", "linear1", "activation", "linear2">>
ProjectorWeights ==
    <<"pre_norm.weight", "pre_norm.bias", "linear1.weight", "linear1.bias",
      "linear2.weight", "linear2.bias">>

(* A projector has buffers of its own: one for each stage. *)
ProjectorAllocated ==
    [b \in {ProjectorStages[i] : i \in 1 .. 5} |->
        Clear(IF b = "pre-norm" THEN InputTokens ELSE OutputTokens)]
    @@ [b \in {ProjectorWeights[i] : i \in 1 .. 6} |-> (0 :> Weight(b, 0))]
    @@ ("projector-uniforms" :>
            [d \in 0 .. 4 |-> <<IF d = 0 THEN InputTokens ELSE OutputTokens>>]
        @@ "source-indices" :> [n \in 0 .. InputTokens - 1 |->
                                    Number(SourceTokenIndices(job.grids)[n])]
        @@ "projector-readback" :> Clear(OutputTokens))

Stage(i) == Slice(ProjectorStages[i + 1], 0,
                  IF i = 0 THEN InputTokens ELSE OutputTokens)
ProjectorWeight(i) == Slice(ProjectorWeights[i + 1], 0, 1)
ProjectorCommand(kernel, bind, d) ==
    Command(kernel, bind, [buffer |-> "projector-uniforms", at |-> d])

ProjectorCommands(input) ==
    <<ProjectorCommand("layer_norm",
          <<input, ProjectorWeight(0), ProjectorWeight(1), Stage(0)>>, 0),
      ProjectorCommand("merge_2x2",
          <<Stage(0), Slice("source-indices", 0, InputTokens), Stage(1)>>, 1),
      ProjectorCommand("projection",
          <<Stage(1), ProjectorWeight(2), ProjectorWeight(3), Stage(2)>>, 2),
      ProjectorCommand("gelu_erf", <<Stage(2), Stage(3)>>, 3),
      ProjectorCommand("projection",
          <<Stage(3), ProjectorWeight(4), ProjectorWeight(5), Stage(4)>>, 4),
      Command("copy", <<Stage(4), Slice("projector-readback", 0, OutputTokens)>>,
              OutputTokens)>>
-----------------------------------------------------------------------------
(* The steps: one for each submission.                                     *)

Projects == job.grids # <<>>

Init ==
    /\ job \in Jobs
    /\ memory = IF job.layers = 0 THEN <<>> ELSE Allocated
    /\ current = 0
    /\ layer = 0
    /\ commands = <<>>
    /\ done = FALSE

(* A session of the browser submits layer by layer, as the shards arrive.  *)
(* Mutant: the next layer reads the same main buffer again.                *)
SubmitsLayerInPlace ==
    /\ job.runtime = "web" /\ layer < job.layers
    /\ commands' = LayerCommands(layer, current)
    /\ memory' = Submitted(memory, LayerCommands(layer, current))
    /\ layer' = layer + 1
    /\ UNCHANGED <<job, current, done>>
SubmitsLayer ==
    /\ job.runtime = "web" /\ layer < job.layers
    /\ commands' = LayerCommands(layer, current)
    /\ memory' = Submitted(memory, LayerCommands(layer, current))
    /\ current' = 1 - current
    /\ layer' = layer + 1
    /\ UNCHANGED <<job, done>>

Finishing(submission) ==
    /\ commands' = submission
    /\ layer' = job.layers
    /\ done' = TRUE
    /\ UNCHANGED job

(* finish reads the post norm back, after the checkpoints. *)
SubmitsPostNorm ==
    /\ job.runtime = "web" /\ job.layers > 0 /\ layer = job.layers /\ ~done /\ ~Projects
    /\ LET submission == PostNorm(current)
                         \o <<Command("copy", <<PostNormed(current),
                                                ReadbackSlot(Checkpoints)>>, Tokens)>>
       IN  /\ memory' = Submitted(memory, submission)
           /\ Finishing(submission)
    /\ UNCHANGED current

(* finish with a resident projector: it reads the post norm where it is. *)
SubmitsChain ==
    /\ job.runtime = "web" /\ job.layers > 0 /\ layer = job.layers /\ ~done /\ Projects
    /\ LET submission == PostNorm(current) \o ProjectorCommands(PostNormed(current))
       IN  /\ memory' = Submitted(ProjectorAllocated @@ memory, submission)
           /\ Finishing(submission)
    /\ current' = 1 - current

(* The native runtime submits the whole stack at once. *)
SubmitsStack ==
    /\ job.runtime = "native" /\ job.layers > 0 /\ ~done
    /\ LET after[l \in 0 .. job.layers] ==
               IF l = 0 THEN <<>> ELSE after[l - 1] \o LayerCommands(l - 1, (l - 1) % 2)
           submission == after[job.layers] \o PostNorm(job.layers % 2)
                         \o <<Command("copy", <<PostNormed(job.layers % 2),
                                                ReadbackSlot(Checkpoints)>>, Tokens)>>
       IN  /\ memory' = Submitted(memory, submission)
           /\ Finishing(submission)
    /\ UNCHANGED current

(* Both run a projector alone on an uploaded input. *)
ProjectorInput == "projector-input" :> [i \in 0 .. InputTokens - 1 |-> Weight("feature", i + 1)]
SubmitsProjector ==
    /\ job.layers = 0 /\ Projects /\ ~done
    /\ LET submission == ProjectorCommands(Slice("projector-input", 0, InputTokens))
       IN  /\ memory' = Submitted(ProjectorInput @@ ProjectorAllocated, submission)
           /\ Finishing(submission)
    /\ UNCHANGED current

Next == SubmitsLayer \/ SubmitsPostNorm \/ SubmitsChain \/ SubmitsStack \/ SubmitsProjector

Spec == Init /\ [][Next]_vars
-----------------------------------------------------------------------------
(* What the CPU reference computes for the job.                            *)

Norms(name, l) ==
    [weight |-> Weight(name[1], l), bias |-> Weight(name[2], l)]
ReferenceWeights(l) ==
    [norm1 |-> Norms(<<"norm1.weight", "norm1.bias">>, l),
     query |-> Norms(<<"query.weight", "query.bias">>, l),
     key |-> Norms(<<"key.weight", "key.bias">>, l),
     value |-> Norms(<<"value.weight", "value.bias">>, l),
     attention_output |-> Norms(<<"out.weight", "out.bias">>, l),
     norm2 |-> Norms(<<"norm2.weight", "norm2.bias">>, l),
     mlp_fc1 |-> Norms(<<"fc1.weight", "fc1.bias">>, l),
     mlp_fc2 |-> Norms(<<"fc2.weight", "fc2.bias">>, l)]

ReferenceStack ==
    vision_encoder_stack(
        Input, job.layers, [l \in 0 .. job.layers - 1 |-> ReferenceWeights(l)],
        job.cuts, IF job.spatial THEN <<Table("cos"), Table("sin")>> ELSE NoTables,
        Norms(PostNormWeights, 0))

ReferenceProjector(input) ==
    projector_f32(input,
        [pre_norm |-> Norms(<<"pre_norm.weight", "pre_norm.bias">>, 0),
         linear1 |-> Norms(<<"linear1.weight", "linear1.bias">>, 0),
         linear2 |-> Norms(<<"linear2.weight", "linear2.bias">>, 0)],
        job.grids)

Read(buffer, first, count) == [i \in 1 .. count |-> memory[buffer][first + i - 1]]

(* What is read back is what the CPU reference computes: the output of     *)
(* every checkpoint layer and the post norm of the last layer, or the      *)
(* projected rows, for every layout of the activations, whether or not     *)
(* they share memory, and for every way to make the projections.           *)
ComputesReference ==
    done =>
        IF job.layers = 0
        THEN Read("projector-readback", 0, OutputTokens) =
                 ReferenceProjector([i \in 1 .. InputTokens |-> Weight("feature", i)])
        ELSE LET reference == ReferenceStack
             IN  /\ \A l \in job.checkpoints :
                       Read("readback", Cardinality({c \in job.checkpoints : c < l}) * Tokens,
                            Tokens) = reference.checkpoints[l]
                 /\ IF Projects
                    THEN Read("projector-readback", 0, OutputTokens) =
                             ReferenceProjector(reference.output)
                    ELSE Read("readback", Checkpoints * Tokens, Tokens) = reference.output

(* No dispatch is refused for binding a range twice that it may write: two *)
(* scratch tensors in the arena, or two planes of the workspace.           *)
DispatchesAdmissible == \A i \in DOMAIN commands : Admissible(commands[i])
=============================================================================

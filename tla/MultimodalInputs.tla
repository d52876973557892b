--------------------------- MODULE MultimodalInputs ---------------------------
(***************************************************************************)
(* What a page becomes before the decoder sees it: web/engine/             *)
(* multimodal_ocr.mjs, in the order in which recognizeCanvas calls it, and *)
(* the CPU reference of pvlc-cpu-ref that it mirrors.  A page is resized   *)
(* to a multiple of Factor within a budget of pixels, resampled, cut into  *)
(* patches, embedded with an interpolated position, and merged by the      *)
(* projector into one row per 2x2 patches; the prompt has one image token  *)
(* per row, and every token gets three rotary positions.                   *)
(*                                                                         *)
(* Arithmetic is on rationals, and a square root is compared by squares:   *)
(* the rounding of f64, of the coefficients and of an 8-bit intermediate   *)
(* is left out.  A resampled pixel is the set of the pixels it blends with *)
(* their distances, from which their weights follow; the patches' rescaling*)
(* and normalisation, which is the same for each, is left out.  The vision *)
(* encoder keeps the order of its tokens and is left out here.             *)
(***************************************************************************)
EXTENDS CpuReference, FiniteSets

LOCAL INSTANCE SequencesExt

CONSTANTS
    PatchSize, MergeSize, MinPixels, MaxPixels, PositionGrid, \* MULTIMODAL
    MaxAspect,          \* 200
    Channels,           \* 3
    Pages               \* height, width, prefixIds, suffixIds, generated

VARIABLES
    page,
    prepared,           \* the stage that is done
    gridThw,            \* temporal, height and width in patches
    pixelValues,        \* the patches, a sequence of elements each
    visionTokens,       \* the patches with their positions
    features,           \* the rows of the projector
    inputIds,
    assembled,          \* the rows of the prompt
    ropes               \* the rope table: its three positions, row by row

inputVars == <<page, prepared, gridThw, pixelValues, visionTokens, features,
               inputIds, assembled, ropes>>

Factor == PatchSize * MergeSize
Greater(a, b) == IF a > b THEN a ELSE b
Lesser(a, b) == IF a < b THEN a ELSE b
-----------------------------------------------------------------------------
(* The size.                                                               *)

(* n / d, rounded to the nearest, halves to the even one.                  *)
pythonRound(n, d) ==
    LET floor == n \div d
        fraction == 2 * (n % d)
    IN  IF fraction < d \/ (fraction = d /\ floor % 2 = 0) THEN floor
        ELSE floor + 1

(* Both sides are at least Factor. *)
Widened(height, width) ==
    LET high == IF height < Factor
                THEN <<Factor, pythonRound(width * Factor, height)>>
                ELSE <<height, width>>
    IN  IF high[2] < Factor
        THEN <<pythonRound(high[1] * Factor, high[2]), Factor>>
        ELSE high

(* side / beta / Factor rounded down, where beta^2 = side * other / budget,*)
(* and side * beta / Factor rounded up, where beta^2 = budget / (side *    *)
(* other); both are at most what the budget gives a single side.           *)
Shrunk(side, other) ==
    CHOOSE k \in 0..MaxPixels :
        /\ k * k * Factor * Factor * other <= side * MaxPixels
        /\ (k + 1) * (k + 1) * Factor * Factor * other > side * MaxPixels
Grown(side, other) ==
    CHOOSE k \in 1..MinPixels :
        /\ k * k * Factor * Factor * other >= side * MinPixels
        /\ (k - 1) * (k - 1) * Factor * Factor * other < side * MinPixels

Refused == <<>>

smartResize(height, width) ==
    LET size == Widened(height, width)
        rounded == [i \in 1..2 |-> pythonRound(size[i], Factor) * Factor]
    IN  IF Greater(size[1], size[2]) > MaxAspect * Lesser(size[1], size[2])
        THEN Refused
        ELSE IF rounded[1] * rounded[2] > MaxPixels
        THEN <<Shrunk(size[1], size[2]) * Factor,
               Shrunk(size[2], size[1]) * Factor>>
        ELSE IF rounded[1] * rounded[2] < MinPixels
        THEN <<Grown(size[1], size[2]) * Factor,
               Grown(size[2], size[1]) * Factor>>
        ELSE rounded
-----------------------------------------------------------------------------
(* The pixels.                                                             *)

(* The filter is zero at a distance of 1 and from 2 on: those pixels do    *)
(* not count.  Distances are over 2 * the greater of the sizes.            *)
Weighs(distance, source, target) ==
    LET unit == 2 * Greater(source, target)
        d == IF distance < 0 THEN -distance ELSE distance
    IN  d # unit /\ d < 2 * unit

Distance(at, index, source, target) ==
    (2 * at + 1) * target - (2 * index + 1) * source

(* Mutant: a window of one pixel less.                                     *)
bicubicAxisPlanShort(source, target) ==
    [index \in 0 .. target - 1 |->
        LET center == (2 * index + 1) * source
            support == 4 * Greater(source, target)
            from == center - support + target
            xmin == IF from < 0 THEN 0 ELSE from \div (2 * target)
            xmax == Lesser((center + support - target) \div (2 * target),
                           source)
        IN  {<<at, Distance(at, index, source, target)>> :
                at \in {x \in xmin .. xmax - 1 :
                            Weighs(Distance(x, index, source, target),
                                   source, target)}}]

(* The pixels of a line that make each pixel of a resampled one: a window  *)
(* around its center, cut off at the ends of the line.                     *)
bicubicAxisPlan(source, target) ==
    [index \in 0 .. target - 1 |->
        LET center == (2 * index + 1) * source
            support == 4 * Greater(source, target)
            from == center - support + target
            xmin == IF from < 0 THEN 0 ELSE from \div (2 * target)
            xmax == Lesser((center + support + target) \div (2 * target),
                           source)
        IN  {<<at, Distance(at, index, source, target)>> :
                at \in {x \in xmin .. xmax - 1 :
                            Weighs(Distance(x, index, source, target),
                                   source, target)}}]

Pixel(y, x, channel) == <<"pixel", y, x, channel>>
(* One pixel alone is itself. *)
Blend(weighed) ==
    IF Cardinality(weighed) = 1 THEN (CHOOSE w \in weighed : TRUE)[2]
    ELSE <<"blend", weighed>>

(* Lines first, then columns. *)
bicubicResizeF32(height, width, target) ==
    LET widthPlan == bicubicAxisPlan(width, target[2])
        heightPlan == bicubicAxisPlan(height, target[1])
        intermediate ==
            [y \in 0 .. height - 1, x \in 0 .. target[2] - 1,
             c \in 0 .. Channels - 1 |->
                Blend({<<tap[2], Pixel(y, tap[1], c)>> : tap \in widthPlan[x]})]
    IN  [y \in 0 .. target[1] - 1, x \in 0 .. target[2] - 1,
         c \in 0 .. Channels - 1 |->
            Blend({<<tap[2], intermediate[tap[1], x, c]>> :
                       tap \in heightPlan[y]})]

PatchElements == Channels * PatchSize * PatchSize

(* Patch by patch, each channel by channel and line by line. *)
preprocessImage(height, width) ==
    LET size == smartResize(height, width)
        resized == bicubicResizeF32(height, width, size)
        gridW == size[2] \div PatchSize
    IN  [patch \in 1 .. (size[1] \div PatchSize) * gridW |->
            [element \in 1 .. PatchElements |->
                LET gridY == (patch - 1) \div gridW
                    gridX == (patch - 1) % gridW
                    channel == (element - 1) \div (PatchSize * PatchSize)
                    y == ((element - 1) \div PatchSize) % PatchSize
                    x == (element - 1) % PatchSize
                IN  resized[gridY * PatchSize + y, gridX * PatchSize + x,
                            channel]]]
-----------------------------------------------------------------------------
(* The vision tokens.                                                      *)

patchProjection(patches) ==
    [i \in DOMAIN patches |->
        Linear(Weight("patch", 0), Weight("patch_bias", 0), patches[i])]

(* Two neighbours on the source axis and the way between them, a fraction  *)
(* of target - 1.                                                          *)
bilinearAxis(source, target, index) ==
    LET coordinate == IF target = 1 THEN 0 ELSE index * (source - 1)
        steps == IF target = 1 THEN 1 ELSE target - 1
        lower == Lesser(coordinate \div steps, source - 1)
    IN  <<lower, Lesser(lower + 1, source - 1), coordinate - lower * steps,
          steps>>

(* The target of a frame's token counts the frames before it twice; a page *)
(* is one frame.                                                           *)
addPositionEmbedding(patches, grid) ==
    LET spatial == grid[2] * grid[3]
    IN  [target \in DOMAIN patches |->
            IF \E time \in 0 .. grid[1] - 1 :
                   target - 1 \in 2 * time * spatial
                                  .. (2 * time + 1) * spatial - 1
            THEN LET place == (target - 1) % spatial
                 IN  Added(patches[target],
                           <<"position",
                             bilinearAxis(PositionGrid, grid[2],
                                          place \div grid[3]),
                             bilinearAxis(PositionGrid, grid[3],
                                          place % grid[3])>>)
            ELSE patches[target]]

(* The height and the width that turn each token of the vision encoder.    *)
visionRope2dTables(grid) ==
    [token \in 1 .. grid[1] * grid[2] * grid[3] |->
        LET place == (token - 1) % (grid[2] * grid[3])
        IN  <<place \div grid[3], place % grid[3]>>]
-----------------------------------------------------------------------------
(* The prompt.                                                             *)

ImageToken == "image"
VisionStart == "vision start"

ImageTokens(grid) ==
    grid[1] * (grid[2] \div MergeSize) * (grid[3] \div MergeSize)

multimodalPromptInputIds(grid, prefixIds, suffixIds) ==
    prefixIds \o [i \in 1 .. ImageTokens(grid) |-> ImageToken] \o suffixIds

(* Every id's own row, and the projected rows over those of image tokens,  *)
(* in order.                                                               *)
assembleEmbeddings(projected, ids) ==
    LET images == {i \in DOMAIN ids : ids[i] = ImageToken}
    IN  IF Cardinality(images) # Len(projected) THEN Refused
        ELSE [i \in DOMAIN ids |->
                 IF i \in images
                 THEN projected[Cardinality({j \in images : j <= i})]
                 ELSE Weight("token", ids[i])]

(* Text counts on; an image stands where its first token does, its rows    *)
(* and columns counting from there; the text behind it goes on after its   *)
(* longer side.  Positions count from 0.                                   *)
mropePositions(ids, grid) ==
    LET height == grid[2] \div MergeSize
        width == grid[3] \div MergeSize
        imageStart == CHOOSE i \in DOMAIN ids : ids[i] = VisionStart
        imageEnd == imageStart + ImageTokens(grid)
        nextPosition == imageStart + Greater(height - 1, width - 1) + 1
    IN  [i \in DOMAIN ids |->
            IF i <= imageStart THEN <<i - 1, i - 1, i - 1>>
            ELSE IF i <= imageEnd
            THEN LET place == (i - imageStart - 1) % (height * width)
                 IN  <<imageStart, imageStart + place \div width,
                       imageStart + (place % width)>>
            ELSE [axis \in 1..3 |-> nextPosition + (i - imageEnd - 1)]]

Highest(positions) ==
    CHOOSE p \in {positions[i][axis] : i \in DOMAIN positions, axis \in 1..3} :
        \A i \in DOMAIN positions, axis \in 1..3 : positions[i][axis] <= p

ropeDelta(positions) == Highest(positions) + 1 - Len(positions)

(* Mutant: tokens to come count on from the length of the prompt.          *)
ropeTablesOfLength(positions, delta, capacity) ==
    [token \in 1 .. capacity |->
        IF token <= Len(positions) THEN positions[token]
        ELSE [axis \in 1..3 |-> token - 1]]

(* A row for every row of the cache: the prompt's, and those to come.      *)
ropeTables(positions, delta, capacity) ==
    [token \in 1 .. capacity |->
        IF token <= Len(positions) THEN positions[token]
        ELSE [axis \in 1..3 |-> token - 1 + delta]]
-----------------------------------------------------------------------------
Init ==
    /\ page \in Pages
    /\ prepared = "canvas"
    /\ gridThw = <<>>
    /\ pixelValues = <<>>
    /\ visionTokens = <<>>
    /\ features = <<>>
    /\ inputIds = <<>>
    /\ assembled = <<>>
    /\ ropes = <<>>

Preprocesses ==
    LET size == smartResize(page.height, page.width)
    IN  /\ prepared = "canvas"
        /\ IF size = Refused
           THEN /\ prepared' = "refused"
                /\ UNCHANGED <<gridThw, pixelValues>>
           ELSE /\ prepared' = "pixels"
                /\ gridThw' = <<1, size[1] \div PatchSize,
                                size[2] \div PatchSize>>
                /\ pixelValues' = preprocessImage(page.height, page.width)
        /\ UNCHANGED <<page, visionTokens, features, inputIds, assembled,
                       ropes>>

(* patchEmbeddingWebGpu: the projection on the device, the positions here. *)
EmbedsPatches ==
    /\ prepared = "pixels"
    /\ prepared' = "embedded"
    /\ visionTokens' = addPositionEmbedding(patchProjection(pixelValues),
                                            gridThw)
    /\ UNCHANGED <<page, gridThw, pixelValues, features, inputIds, assembled,
                   ropes>>

(* The vision stack and the projector, see VisionPrograms.                 *)
Projects ==
    /\ prepared = "embedded"
    /\ prepared' = "projected"
    /\ features' = projector_merge_2x2_f32(visionTokens, <<gridThw>>)
    /\ UNCHANGED <<page, gridThw, pixelValues, visionTokens, inputIds,
                   assembled, ropes>>

AssemblesPrompt ==
    /\ prepared = "projected"
    /\ LET ids == multimodalPromptInputIds(gridThw, page.prefix, page.suffix)
           positions == mropePositions(ids, gridThw)
       IN  /\ inputIds' = ids
           /\ assembled' = assembleEmbeddings(features, ids)
           /\ ropes' = ropeTables(positions, ropeDelta(positions),
                                  Len(ids) + page.generated)
    /\ prepared' = "prompt"
    /\ UNCHANGED <<page, gridThw, pixelValues, visionTokens, features>>

Next == Preprocesses \/ EmbedsPatches \/ Projects \/ AssemblesPrompt

Spec == Init /\ [][Next]_inputVars
-----------------------------------------------------------------------------
(* The reference.                                                          *)

(* It refuses a side of nothing, too. *)
smart_resize_paddleocr_vl(height, width) ==
    LET size == smartResize(height, width)
    IN  IF size # Refused /\ size[1] * size[2] = 0 THEN Refused ELSE size

(* All pixels of a line that the filter weighs. *)
pillow_bicubic_coefficients(source, target) ==
    [index \in 0 .. target - 1 |->
        {<<at, Distance(at, index, source, target)>> :
            at \in {x \in 0 .. source - 1 :
                        Weighs(Distance(x, index, source, target),
                               source, target)}}]

pillow_resample_horizontal_rgb8(image, height, width, target) ==
    LET plan == pillow_bicubic_coefficients(width, target)
    IN  [y \in 0 .. height - 1, x \in 0 .. target - 1,
         c \in 0 .. Channels - 1 |->
            Blend({<<tap[2], image[y, tap[1], c]>> : tap \in plan[x]})]

pillow_resample_vertical_rgb8(image, height, width, target) ==
    LET plan == pillow_bicubic_coefficients(height, target)
    IN  [y \in 0 .. target - 1, x \in 0 .. width - 1,
         c \in 0 .. Channels - 1 |->
            Blend({<<tap[2], image[tap[1], x, c]>> : tap \in plan[y]})]

(* An axis that keeps its size is not resampled. *)
pillow_bicubic_rgb8(image, height, width, size) ==
    LET lines == IF width = size[2] THEN image
                 ELSE pillow_resample_horizontal_rgb8(image, height, width,
                                                      size[2])
    IN  IF height = size[1] THEN lines
        ELSE pillow_resample_vertical_rgb8(lines, height, size[2], size[1])

canonical_rgb8_to_patches(height, width) ==
    LET size == smart_resize_paddleocr_vl(height, width)
        image == [y \in 0 .. height - 1, x \in 0 .. width - 1,
                  c \in 0 .. Channels - 1 |-> Pixel(y, x, c)]
        resized == pillow_bicubic_rgb8(image, height, width, size)
        Line(patch_y, patch_x, channel, y) ==
            [x \in 1 .. PatchSize |->
                resized[patch_y * PatchSize + y, patch_x * PatchSize + x - 1,
                        channel]]
        Plane(patch_y, patch_x, channel) ==
            FlattenSeq([y \in 1 .. PatchSize |->
                           Line(patch_y, patch_x, channel, y - 1)])
        Patch(patch_y, patch_x) ==
            FlattenSeq([c \in 1 .. Channels |->
                           Plane(patch_y, patch_x, c - 1)])
    IN  FlattenSeq([patch_y \in 1 .. size[1] \div PatchSize |->
            [patch_x \in 1 .. size[2] \div PatchSize |->
                Patch(patch_y - 1, patch_x - 1)]])

(* The position of a token, interpolated between the four of the table     *)
(* around its place.                                                       *)
add_interpolated_position_embedding_f32(patches, grid) ==
    LET Axis(size, index) ==
            IF size = 1 THEN bilinearAxis(PositionGrid, 1, 0)
            ELSE LET at == index * (PositionGrid - 1)
                 IN  <<at \div (size - 1),
                       Lesser(at \div (size - 1) + 1, PositionGrid - 1),
                       at % (size - 1), size - 1>>
        spatial == grid[2] * grid[3]
    IN  [i \in DOMAIN patches |->
            Added(patches[i],
                  <<"position", Axis(grid[2], ((i - 1) % spatial) \div grid[3]),
                    Axis(grid[3], ((i - 1) % spatial) % grid[3])>>)]

(* The positions of a prompt with any number of images: the text before an *)
(* image, the image, and what follows.                                     *)
append_text_positions(length, start) ==
    [i \in 1 .. length |-> [axis \in 1..3 |-> start + i - 1]]

append_image_positions(grid, start) ==
    FlattenSeq([y \in 1 .. grid[1] * grid[2] |->
        [x \in 1 .. grid[3] |->
            <<start, start + ((y - 1) % grid[2]), start + x - 1>>]])

image_positions(ids, grids) ==
    LET merged(grid) ==
            <<grid[1], grid[2] \div MergeSize, grid[3] \div MergeSize>>
        after[g \in 0 .. Len(grids)] ==
            IF g = 0 THEN [cursor |-> 0, next |-> 0, positions |-> <<>>]
            ELSE LET b == after[g - 1]
                     grid == merged(grids[g])
                     start == CHOOSE i \in b.cursor + 1 .. Len(ids) :
                                  /\ ids[i] = VisionStart
                                  /\ \A j \in b.cursor + 1 .. i - 1 :
                                         ids[j] # VisionStart
                     visual == b.next + start - b.cursor
                 IN  [cursor |-> start + ImageTokens(grids[g]),
                      next |-> visual + Greater(grid[2], grid[3]),
                      positions |->
                          b.positions
                          \o append_text_positions(start - b.cursor, b.next)
                          \o append_image_positions(grid, visual)]
        last == after[Len(grids)]
    IN  last.positions
        \o append_text_positions(Len(ids) - last.cursor, last.next)

decode_mrope_position_ids(cache_position, rope_delta) ==
    [axis \in 1..3 |-> cache_position + rope_delta]

assemble_multimodal_embeddings_f32(projected, ids) ==
    LET scattered[row \in 0 .. Len(ids)] ==
            IF row = 0 THEN [projected_row |-> 0, rows |-> <<>>]
            ELSE LET before == scattered[row - 1]
                     image == ids[row] = ImageToken
                     next == before.projected_row + (IF image THEN 1 ELSE 0)
                 IN  [projected_row |-> next,
                      rows |-> Append(before.rows,
                                      IF image THEN projected[next]
                                      ELSE Weight("token", ids[row]))]
    IN  scattered[Len(ids)].rows
-----------------------------------------------------------------------------
(* A page is resized to patches that merge, within the budget of pixels,   *)
(* and what it is cut into is what the CPU reference cuts it into.         *)
PixelsComputeReference ==
    /\ prepared = "refused" =>
           smart_resize_paddleocr_vl(page.height, page.width) = Refused
    /\ gridThw # <<>> =>
           /\ gridThw[2] % MergeSize = 0 /\ gridThw[3] % MergeSize = 0
           /\ Len(pixelValues) * PatchSize * PatchSize \in MinPixels..MaxPixels
           /\ pixelValues = canonical_rgb8_to_patches(page.height, page.width)
    /\ visionTokens # <<>> =>
           visionTokens = add_interpolated_position_embedding_f32(
               patchProjection(pixelValues), gridThw)

(* The prompt has one image token for every row of the projector and gets  *)
(* the reference's rows and positions; a token to come stands one behind   *)
(* the highest position before it.                                         *)
PromptComputesReference ==
    prepared = "prompt" =>
        LET positions == image_positions(inputIds, <<gridThw>>)
            length == Len(inputIds)
        IN  /\ Len(assembled) = length
            /\ assembled = assemble_multimodal_embeddings_f32(features,
                                                              inputIds)
            /\ SubSeq(ropes, 1, length) = positions
            /\ Len(ropes) = length + page.generated
            /\ \A j \in length + 1 .. Len(ropes) :
                  /\ ropes[j] = decode_mrope_position_ids(
                                    j - 1, ropeDelta(positions))
                  /\ ropes[j][1] = Highest(SubSeq(ropes, 1, j - 1)) + 1

(* A patch has one place: where it was cut from the page, where the vision *)
(* encoder turns it to, where its position embedding was interpolated, and *)
(* where its image token stands in the prompt are the same.                *)
PlacesAgree ==
    prepared = "prompt" =>
        LET turned == visionRope2dTables(gridThw)
            images == {i \in DOMAIN inputIds : inputIds[i] = ImageToken}
            first == CHOOSE i \in images : \A j \in images : i <= j
            Place(token) ==     \* where the token's position was interpolated
                <<(CHOOSE y \in 0 .. gridThw[2] - 1 :
                       token[3][2] = bilinearAxis(PositionGrid, gridThw[2], y)),
                  (CHOOSE x \in 0 .. gridThw[3] - 1 :
                       token[3][3] = bilinearAxis(PositionGrid, gridThw[3], x))>>
        IN  /\ \A p \in DOMAIN turned : Place(visionTokens[p]) = turned[p]
            /\ \A i \in images : \A k \in 1..MergeSize * MergeSize :
                  LET patch == Place(assembled[i][2][k])
                  IN  /\ ropes[i][2] - ropes[first][2] = patch[1] \div MergeSize
                      /\ ropes[i][3] - ropes[first][3] = patch[2] \div MergeSize

PreparedInputsAreSound ==
    PixelsComputeReference /\ PromptComputesReference /\ PlacesAgree
=============================================================================

------------------------------ MODULE WeightPacks ------------------------------
(***************************************************************************)
(* The PVLCPK01 container of weights: who writes it and who reads it.      *)
(*                                                                         *)
(*   PackBuilder, PackReader            pvlc-pack/src/lib.rs               *)
(*   projector packs                    projector_self_test.rs, and        *)
(*                                      buildSyntheticProjectorPack        *)
(*   session packs: their JS writers    multimodal_ocr.mjs and             *)
(*   and JS reader                      tools/lib/m7q1_balanced_pack.mjs   *)
(*   session packs: their Rust readers  decoder_{stack,layer,full_layer}_  *)
(*                                      session.rs                         *)
(*                                                                         *)
(* A file is a sequence of cells.  A field of a header or of an entry is   *)
(* one cell, whatever its bytes, and so is a field of a JSON text, which   *)
(* has its fields in canonical order; an absent field is 0.  An F16        *)
(* element is a cell and an F32 element two.  A digest is the cell that    *)
(* holds what it digests, so that digests differ when payloads do.         *)
(* Positions in a file count from 0.                                       *)
(***************************************************************************)
EXTENDS Integers, Sequences, FiniteSets

LOCAL INSTANCE SequencesExt

CONSTANTS
    Packs,          \* what is written; see FileOf
    Widths,         \* hidden, query, keyValue, intermediate, vocab, layers,
                    \* head, output
    Drifts,         \* how a damaged cell differs
    MaxDamages

VARIABLES
    pack,
    file,
    damages,
    read,           \* by whom, and what the reader returns
    rebuilt         \* a session pack made of the shards that were read

packVars == <<pack, file, damages, read, rebuilt>>

Cell(n) == <<n, <<>>>>
Digest(cells) == <<97, cells>>

Magic == 11
PackVersion == 1
HeaderCells == 6            \* HEADER_BYTES
EntryCells == 7             \* DIRECTORY_FIXED_BYTES
EntryAlignment == 2         \* 8
SectionAlignment == 4       \* 256
DescriptorAlignment == 2    \* DESCRIPTOR_ALIGNMENT, 64
MaxAlignment == 4           \* MAX_ALIGNMENT
MaxIdCells == 3             \* 128
MaxManifestCells == 6       \* MAX_MANIFEST_BYTES
MaxSections == 14           \* MAX_SECTIONS
Newline == 10
NonFinite == 7              \* an element's highest cell

AlignUp(value, alignment) ==
    ((value + alignment - 1) \div alignment) * alignment
IsAlignment(n) == n \in {1, 2, 4} /\ n <= MaxAlignment
Zeros(n) == [i \in 1..n |-> Cell(0)]
Number(cells, position) == cells[position + 1][1]
Slice(cells, from, to) ==
    SubSeq(cells, from + 1, IF to < Len(cells) THEN to ELSE Len(cells))

Refused == [ok |-> FALSE]
-----------------------------------------------------------------------------
(* Writing.  A section has an id, which is a sequence of letters, a kind,  *)
(* an alignment and its cells.                                             *)

Section(id, kind, alignment, cells) ==
    [id |-> id, kind |-> kind, alignment |-> alignment, cells |-> cells]

EntryLength(idCells) == AlignUp(EntryCells + idCells, EntryAlignment)

Letters(id) == [i \in DOMAIN id |-> Cell(id[i])]

DirectoryEntry(section, offset) ==
    <<Cell(Len(section.id)), Cell(section.kind), Cell(0),
      Cell(section.alignment), Cell(offset), Cell(Len(section.cells)),
      Digest(section.cells)>>
    \o Letters(section.id)
    \o Zeros(EntryLength(Len(section.id)) - EntryCells - Len(section.id))

(* Sections in a given order, each at the next multiple of its alignment.  *)
Laid(manifest, sections) ==
    LET directoryLength ==
            FoldLeft(LAMBDA sum, s : sum + EntryLength(Len(s.id)), 0, sections)
        start == HeaderCells + Len(manifest) + directoryLength
        placed == FoldLeft(
            LAMBDA body, s :
                LET end == start + Len(body.cells)
                    offset == AlignUp(end, s.alignment)
                IN  [cells |-> body.cells \o Zeros(offset - end) \o s.cells,
                     entries |-> body.entries \o DirectoryEntry(s, offset)],
            [cells |-> <<>>, entries |-> <<>>], sections)
    IN  <<Cell(Magic), Cell(PackVersion), Cell(Len(manifest)),
          Cell(directoryLength), Cell(Len(sections)),
          Cell(start + Len(placed.cells))>>
        \o manifest \o placed.entries \o placed.cells

(* The model's identity, the compiler's build, the profile (1 is fidelity, *)
(* 2 is balanced), and the end of the line.                                *)
Manifest(build, profile) ==
    <<Cell(1), Cell(build), Cell(profile), Cell(Newline)>>

IdBefore(a, b) ==
    \E k \in 0 .. Len(a) :
        /\ k < Len(b)
        /\ SubSeq(a, 1, k) = SubSeq(b, 1, k)
        /\ k = Len(a) \/ a[k + 1] < b[k + 1]

IsSectionId(id) ==
    Len(id) \in 1..MaxIdCells /\ \A i \in DOMAIN id : id[i] \in 1..26

(* A map of sections, in the order of their ids. *)
Build(manifest, sections) ==
    Laid(manifest, SortSeq(sections, LAMBDA a, b : IdBefore(a.id, b.id)))
-----------------------------------------------------------------------------
(* PackReader::open.                                                       *)

HeaderAdmits(cells) ==
    /\ Len(cells) >= HeaderCells
    /\ Number(cells, 0) = Magic
    /\ Number(cells, 1) = PackVersion
    /\ Number(cells, 5) = Len(cells)

ManifestEnd(cells) == HeaderCells + Number(cells, 2)
ManifestOf(cells) == Slice(cells, HeaderCells, ManifestEnd(cells))
DirectoryEnd(cells) == ManifestEnd(cells) + Number(cells, 3)

(* The only bytes of a manifest that are accepted are those it is written  *)
(* as.                                                                     *)
IsCanonicalManifest(cells) ==
    /\ Len(cells) = 4
    /\ cells = Manifest(Number(cells, 1), Number(cells, 2))
    /\ Number(cells, 1) \in 1..3
    /\ Number(cells, 2) \in 1..3

EntryAt(cells, cursor) ==
    LET idEnd == cursor + EntryCells + Number(cells, cursor)
        end == cursor + EntryLength(Number(cells, cursor))
    IN  [id |-> Slice(cells, cursor + EntryCells, idEnd),
         kind |-> Number(cells, cursor + 1),
         reserved |-> Number(cells, cursor + 2),
         alignment |-> Number(cells, cursor + 3),
         offset |-> Number(cells, cursor + 4),
         length |-> Number(cells, cursor + 5),
         digest |-> cells[cursor + 7],
         padding |-> Slice(cells, idEnd, end),
         end |-> end]

NumbersOf(id) == [i \in DOMAIN id |-> id[i][1]]

(* Mutant: what pads is not looked at.                                     *)
IsZeroUnchecked(cells) == TRUE

IsZero(cells) == \A i \in DOMAIN cells : cells[i] = Cell(0)

(* Entry after entry, as long as there are cells for one.                  *)
Directory(cells, count) ==
    LET walk == FoldLeft(
            LAMBDA w, i :
                IF w.cursor + EntryCells <= Len(cells)
                THEN [entries |-> Append(w.entries, EntryAt(cells, w.cursor)),
                      cursor |-> EntryAt(cells, w.cursor).end]
                ELSE w,
            [entries |-> <<>>, cursor |-> ManifestEnd(cells)],
            [i \in 1..count |-> i])
    IN  [entries |-> walk.entries,
         complete |-> /\ Len(walk.entries) = count
                      /\ walk.cursor = DirectoryEnd(cells)]

EntryAdmits(entries, i, directoryEnd) ==
    /\ entries[i].end <= directoryEnd
    /\ entries[i].reserved = 0
    /\ entries[i].kind \in 1..5
    /\ IsAlignment(entries[i].alignment)
    /\ IsSectionId(NumbersOf(entries[i].id))
    /\ IsZero(entries[i].padding)
    /\ i > 1 => IdBefore(NumbersOf(entries[i - 1].id), NumbersOf(entries[i].id))

Payload(cells, entry) ==
    Slice(cells, entry.offset, entry.offset + entry.length)

(* Each section begins where its alignment allows it first, with zeros     *)
(* before it, and the last one ends the file.                              *)
LayoutIsExact(cells, start, entries) ==
    LET walk == FoldLeft(
            LAMBDA w, entry :
                [ok |-> /\ w.ok
                        /\ entry.offset = AlignUp(w.end, entry.alignment)
                        /\ entry.offset + entry.length <= Len(cells)
                        /\ IsZero(Slice(cells, w.end, entry.offset)),
                 end |-> entry.offset + entry.length],
            [ok |-> TRUE, end |-> start], entries)
    IN  walk.ok /\ walk.end = Len(cells)

DigestsMatch(cells, entries) ==
    \A i \in DOMAIN entries :
        Digest(Payload(cells, entries[i])) = entries[i].digest

OpenedPack(cells, directory) ==
    LET entries == directory.entries
    IN  IF /\ HeaderAdmits(cells)
           /\ Number(cells, 2) <= MaxManifestCells
           /\ Number(cells, 4) <= MaxSections
           /\ DirectoryEnd(cells) <= Len(cells)
           /\ IsCanonicalManifest(ManifestOf(cells))
           /\ directory.complete
           /\ \A i \in DOMAIN entries :
                  EntryAdmits(entries, i, DirectoryEnd(cells))
           /\ LayoutIsExact(cells, DirectoryEnd(cells), entries)
           /\ DigestsMatch(cells, entries)
        THEN [ok |-> TRUE, manifest |-> ManifestOf(cells),
              sections |-> [i \in DOMAIN entries |->
                  Section(NumbersOf(entries[i].id), entries[i].kind,
                          entries[i].alignment, Payload(cells, entries[i]))]]
        ELSE Refused

PackReaderOpen(cells) ==
    OpenedPack(cells, Directory(cells, Number(cells, 4)))
-----------------------------------------------------------------------------
(* Projector packs.  A case has a profile, which is a letter here, an      *)
(* input and the stages that it expects.                                   *)

DescriptorId == <<9, 18>>       \* ir.projector.official
WeightsId == <<23>>             \* weights.projector
InputId(profile) == <<9, 14, profile>>
ExpectedId(profile) == <<19, profile>>

WeightCells ==
    LET merged == 4 * Widths.hidden
    IN  2 * (2 * Widths.hidden + merged * merged + merged
             + Widths.output * merged + Widths.output)

StageCells(case) ==
    2 * (IF case.allStages
         THEN case.tokens * Widths.hidden
              + 3 * (case.tokens \div 4) * 4 * Widths.hidden
         ELSE 0)
    + 2 * (case.tokens \div 4) * Widths.output

Reference(cells) == <<Cell(Len(cells)), Digest(cells)>>

ProjectorDescriptor(weights, cases) ==
    <<Cell(1)>> \o Reference(weights)
    \o FlattenSeq([i \in DOMAIN cases |->
           <<Cell(cases[i].profile), Cell(cases[i].tokens),
             Cell(IF cases[i].allStages THEN 1 ELSE 0)>>
           \o Reference(cases[i].input) \o Reference(cases[i].expected)])

build_projector_self_test_pack(weights, cases) ==
    LET sorted == SortSeq(cases, LAMBDA a, b : a.profile < b.profile)
    IN  Build(Manifest(1, 1),
            <<Section(DescriptorId, 1, DescriptorAlignment,
                      ProjectorDescriptor(weights, sorted)),
              Section(WeightsId, 2, SectionAlignment, weights)>>
            \o FlattenSeq([i \in DOMAIN cases |->
                <<Section(InputId(cases[i].profile), 2, SectionAlignment,
                          cases[i].input),
                  Section(ExpectedId(cases[i].profile), 3, SectionAlignment,
                          cases[i].expected)>>]))

(* Its sections are sorted before they are laid out. *)
buildSyntheticProjectorPack(weights, case) ==
    Laid(Manifest(1, 1),
         SortSeq(<<Section(DescriptorId, 1, DescriptorAlignment,
                           ProjectorDescriptor(weights, <<case>>)),
                   Section(InputId(case.profile), 2, SectionAlignment,
                           case.input),
                   Section(ExpectedId(case.profile), 3, SectionAlignment,
                           case.expected),
                   Section(WeightsId, 2, SectionAlignment, weights)>>,
                 LAMBDA a, b : IdBefore(a.id, b.id)))

(* The cells of a section that is there with its kind and its alignment.   *)
RequiredSection(opened, id, kind, alignment) ==
    LET found == {i \in DOMAIN opened.sections :
                      /\ opened.sections[i].id = id
                      /\ opened.sections[i].kind = kind
                      /\ opened.sections[i].alignment = alignment}
    IN  IF found = {} THEN Refused
        ELSE [ok |-> TRUE,
              cells |-> opened.sections[CHOOSE i \in found : TRUE].cells]

RequiredPayload(section, length, digest) ==
    /\ section.ok
    /\ Len(section.cells) = length
    /\ Digest(section.cells) = digest

CaseAt(descriptor, i) ==
    LET at == 3 + 7 * (i - 1)
    IN  [profile |-> Number(descriptor, at),
         tokens |-> Number(descriptor, at + 1),
         allStages |-> Number(descriptor, at + 2) = 1,
         inputCells |-> Number(descriptor, at + 3),
         input |-> descriptor[at + 5],
         expectedCells |-> Number(descriptor, at + 5),
         expected |-> descriptor[at + 7]]

ProjectorDescriptorAdmits(descriptor, cases) ==
    /\ Number(descriptor, 0) = 1
    /\ Number(descriptor, 1) = WeightCells
    /\ cases # <<>>
    /\ \A i \in DOMAIN cases :
           /\ i > 1 => cases[i - 1].profile < cases[i].profile
           /\ cases[i].tokens % 4 = 0
           /\ cases[i].inputCells = 2 * cases[i].tokens * Widths.hidden
           /\ cases[i].expectedCells = StageCells(cases[i])

Elements(cells) == {cells[2 * i] : i \in 1 .. Len(cells) \div 2}

CasesOf(descriptor) ==
    [i \in 1 .. Len(descriptor.cells) \div 7 |-> CaseAt(descriptor.cells, i)]

ProjectorCases(opened, descriptor, cases) ==
    LET weights == RequiredSection(opened, WeightsId, 2, SectionAlignment)
        input == [i \in DOMAIN cases |->
                     RequiredSection(opened, InputId(cases[i].profile), 2,
                                     SectionAlignment)]
        expected == [i \in DOMAIN cases |->
                        RequiredSection(opened, ExpectedId(cases[i].profile), 3,
                                        SectionAlignment)]
    IN  IF /\ ProjectorDescriptorAdmits(descriptor, cases)
           /\ RequiredPayload(weights, Number(descriptor, 1), descriptor[3])
           /\ \A i \in DOMAIN cases :
                 /\ RequiredPayload(input[i], cases[i].inputCells,
                                    cases[i].input)
                 /\ RequiredPayload(expected[i], cases[i].expectedCells,
                                    cases[i].expected)
                 /\ Cell(NonFinite) \notin Elements(input[i].cells)
                 /\ Cell(NonFinite) \notin Elements(expected[i].cells)
           /\ Cell(NonFinite) \notin Elements(weights.cells)
           /\ Len(opened.sections) = 2 + 2 * Len(cases)
        THEN [ok |-> TRUE, weights |-> weights.cells,
              cases |-> [i \in DOMAIN cases |->
                  [profile |-> cases[i].profile,
                   input |-> input[i].cells, expected |-> expected[i].cells]]]
        ELSE Refused

DescribedCases(opened, descriptor) ==
    IF descriptor.ok
    THEN ProjectorCases(opened, descriptor.cells, CasesOf(descriptor))
    ELSE Refused

ProjectorPackOf(opened) ==
    IF opened.ok
    THEN DescribedCases(opened,
             RequiredSection(opened, DescriptorId, 1, DescriptorAlignment))
    ELSE Refused

ProjectorSelfTestPackOpen(cells) == ProjectorPackOf(PackReaderOpen(cells))
-----------------------------------------------------------------------------
(* Session packs: a descriptor and the shards of a layer, of all layers,   *)
(* or of the whole decoder, in the order in which the sessions use them.   *)

ShardNames == <<"input_layernorm", "q_proj", "k_proj", "v_proj", "o_proj",
                "mrope_cos", "mrope_sin", "post_attention_layernorm",
                "gate_proj", "up_proj", "down_proj",
                "final_layernorm", "lm_head">>
(* Their places in the alphabet, and the id weights.<name>. *)
ShardRank == <<4, 11, 5, 13, 9, 7, 8, 10, 3, 12, 1, 2, 6>>
ShardId(i) == <<23, ShardRank[i]>>
IsRope(i) == ShardNames[i] \in {"mrope_cos", "mrope_sin"}

SessionKind == {"stack", "layer", "full layer"}
SessionDescriptorId(kind) ==
    <<9, CASE kind = "stack" -> 3 [] kind = "layer" -> 1 [] OTHER -> 2>>

CellsPer(storage) == IF storage = "f32" THEN 2 ELSE 1
StorageOf(i, storage) == IF IsRope(i) THEN "f32" ELSE storage

ShardElements(i, capacity) ==
    LET name == ShardNames[i]
    IN  CASE name \in {"input_layernorm", "post_attention_layernorm",
                       "final_layernorm"} -> Widths.hidden
          [] name \in {"q_proj", "o_proj"} -> Widths.query * Widths.hidden
          [] name \in {"k_proj", "v_proj"} -> Widths.keyValue * Widths.hidden
          [] name \in {"gate_proj", "up_proj", "down_proj"} ->
                 Widths.intermediate * Widths.hidden
          [] name = "lm_head" -> Widths.vocab * Widths.hidden
          [] OTHER -> 3 * capacity * Widths.head

(* The shards of layers hold them all; the logits' shards and the rope     *)
(* tables are shared.                                                      *)
StackShardCells(i, capacity, storage) ==
    ShardElements(i, capacity) * CellsPer(StorageOf(i, storage))
    * (IF i <= 11 /\ ~IsRope(i) THEN Widths.layers ELSE 1)
LayerShardCells(i, capacity) == 2 * ShardElements(i, capacity)

ShardCells(kind, i, capacity, storage) ==
    IF kind = "stack" THEN StackShardCells(i, capacity, storage)
    ELSE LayerShardCells(i, capacity)

(* A shard's bytes, its digest and, in a balanced pack, its type.          *)
Pin(i, cells, storage) ==
    <<Cell(Len(cells)), Digest(cells),
      Cell(IF storage = "f32" THEN 0 ELSE IF IsRope(i) THEN 1 ELSE 2)>>

(* Schema, geometry, prefix, capacity, the checkpoint of a balanced pack,  *)
(* and the pins.                                                           *)
SessionDescriptor(prefix, capacity, storage, checkpoint, shards) ==
    <<Cell(1), Cell(1), Cell(prefix), Cell(capacity),
      Cell(IF storage = "f16" THEN checkpoint ELSE 0)>>
    \o FlattenSeq([i \in DOMAIN shards |-> Pin(i, shards[i], storage)])

SessionSections(kind, descriptor, shards) ==
    <<Section(SessionDescriptorId(kind), 1, SectionAlignment, descriptor)>>
    \o [i \in DOMAIN shards |->
           Section(ShardId(i), 2, SectionAlignment, shards[i])]

Profile(storage) == IF storage = "f16" THEN 2 ELSE 1

(* All 13 shards of the stack. *)
buildMultimodalSessionPack(prefix, capacity, storage, checkpoint, shards) ==
    Laid(Manifest(1, Profile(storage)),
         SessionSections("stack",
             SessionDescriptor(prefix, capacity, storage, checkpoint, shards),
             shards))

(* 11 or 13 shards of the stack in F16, all of whose elements are finite.  *)
buildM7q1BalancedWeightPack(prefix, capacity, checkpoint, shards) ==
    Laid(Manifest(2, 2),
         SessionSections("stack",
             SessionDescriptor(prefix, capacity, "f16", checkpoint, shards),
             shards))

(* A pack of the sessions of one layer, which this repository only reads.  *)
LayerPack(kind, prefix, capacity, shards) ==
    Laid(Manifest(2, 1),
         SessionSections(kind,
             SessionDescriptor(prefix, capacity, "f32", 0, shards), shards))
-----------------------------------------------------------------------------
(* The readers of sessions.                                                *)

(* The sections are there in their order, the first one of kind 1.         *)
SessionEntryAdmits(kind, entries, i, directoryEnd) ==
    /\ entries[i].end <= directoryEnd
    /\ entries[i].reserved = 0
    /\ entries[i].kind = (IF i = 1 THEN 1 ELSE 2)
    /\ IsAlignment(entries[i].alignment)
    /\ entries[i].id =
           Letters(IF i = 1 THEN SessionDescriptorId(kind) ELSE ShardId(i - 1))
    /\ IsZero(entries[i].padding)

IsManifest(manifest) ==
    /\ Len(manifest) = 4
    /\ manifest[1] = Cell(1) /\ manifest[4] = Cell(Newline)
    /\ Number(manifest, 1) \in 1..3

(* A balanced profile means F16, which a layer's sessions do not read.     *)
StackStorage(manifest) ==
    IF IsManifest(manifest) /\ manifest[3] = Cell(1) THEN "f32"
    ELSE IF IsManifest(manifest) /\ manifest[3] = Cell(2) THEN "f16"
    ELSE "refused"
LayerStorage(manifest) ==
    IF IsManifest(manifest) /\ manifest[3] = Cell(1) THEN "f32" ELSE "refused"

(* The cache is the session's own; only a stack that can prefill begins    *)
(* without a prefix.                                                       *)
SessionDescriptorAdmits(descriptor, call, storage, count) ==
    /\ Len(descriptor) = 5 + 3 * count
    /\ Number(descriptor, 0) = 1 /\ Number(descriptor, 1) = 1
    /\ Number(descriptor, 2) = 0 => call.kind = "stack" /\ call.prefillCapable
    /\ Number(descriptor, 3) > Number(descriptor, 2)
    /\ Number(descriptor, 2) = call.prefix
    /\ Number(descriptor, 3) = call.capacity
    /\ IF storage = "f16" THEN Number(descriptor, 4) > 0
       ELSE Number(descriptor, 4) = 0

PinAt(descriptor, i) == Slice(descriptor, 5 + 3 * (i - 1), 5 + 3 * i)

ShardAdmits(descriptor, i, payload, call, storage) ==
    LET pin == PinAt(descriptor, i)
        of == StorageOf(i, storage)
    IN  /\ pin = Pin(i, payload, storage)
        /\ Len(payload) = ShardCells(call.kind, i, call.capacity, storage)
        /\ \A k \in DOMAIN payload :
               k % CellsPer(of) = 0 => payload[k] # Cell(NonFinite)

SessionOf(cells, call, counts, storage, directory) ==
    LET count == Number(cells, 4) - 1
        entries == directory.entries
        payloads == [i \in DOMAIN entries |-> Payload(cells, entries[i])]
    IN  IF /\ HeaderAdmits(cells)
           /\ count + 1 \in counts
           /\ DirectoryEnd(cells) <= Len(cells)
           /\ storage # "refused"
           /\ directory.complete
           /\ \A i \in DOMAIN entries :
                  SessionEntryAdmits(call.kind, entries, i, DirectoryEnd(cells))
           /\ LayoutIsExact(cells, DirectoryEnd(cells), entries)
           /\ DigestsMatch(cells, entries)
           /\ SessionDescriptorAdmits(payloads[1], call, storage, count)
           /\ \A i \in 1..count :
                  ShardAdmits(payloads[1], i, payloads[i + 1], call, storage)
        THEN [ok |-> TRUE, storage |-> storage,
              shards |-> [i \in 1..count |-> payloads[i + 1]]]
        ELSE Refused

ParsedSession(cells, call, counts, storage) ==
    SessionOf(cells, call, counts, storage,
              Directory(cells, Number(cells, 4)))

(* Without the shards of the logits, or with them. *)
parse_stack_weight_pack(cells, call) ==
    ParsedSession(cells, call, {12, 14}, StackStorage(ManifestOf(cells)))
parse_layer_weight_pack(cells, call) ==
    ParsedSession(cells, call, {8}, LayerStorage(ManifestOf(cells)))
parse_full_layer_weight_pack(cells, call) ==
    ParsedSession(cells, call, {12}, LayerStorage(ManifestOf(cells)))

parse_weight_pack(cells, call) ==
    CASE call.kind = "stack" -> parse_stack_weight_pack(cells, call)
      [] call.kind = "layer" -> parse_layer_weight_pack(cells, call)
      [] OTHER -> parse_full_layer_weight_pack(cells, call)

(* The engine's reader of the pack that it downloads: it looks at nothing  *)
(* but lengths and digests, and takes the last of two sections of one id.  *)
ShardsRead(cells, directory) ==
    LET entries == directory.entries
        Of(id) == {i \in DOMAIN entries : entries[i].id = Letters(id)}
        LastOf(id) ==
            Payload(cells,
                    entries[CHOOSE i \in Of(id) : \A j \in Of(id) : j <= i])
    IN  IF /\ HeaderAdmits(cells)
           /\ DigestsMatch(cells, entries)
           /\ directory.complete
           /\ \A i \in DOMAIN ShardNames : Of(ShardId(i)) # {}
        THEN [ok |-> TRUE,
              descriptor |-> IF Of(SessionDescriptorId("stack")) = {} THEN <<>>
                             ELSE LastOf(SessionDescriptorId("stack")),
              shards |-> [i \in DOMAIN ShardNames |-> LastOf(ShardId(i))]]
        ELSE Refused

readSessionPackShardBytes(cells) ==
    ShardsRead(cells, Directory(cells, Number(cells, 4)))

(* The pack of a page: the weights that were downloaded, with the page's   *)
(* rope tables.                                                            *)
RebuiltPack(from, capacity, cos, sin) ==
    IF from.descriptor = <<>> \/ Number(from.descriptor, 4) = 0 THEN <<>>
    ELSE buildMultimodalSessionPack(0, capacity, "f16",
             Number(from.descriptor, 4),
             [from.shards EXCEPT ![6] = cos, ![7] = sin])
-----------------------------------------------------------------------------
(* What is written.  An element is named for the shard that it is part of; *)
(* one of shard p.odd is not finite.                                       *)

Filled(i, cellsPer, length, odd) ==
    [k \in 1..length |->
        Cell(IF odd /\ k = length THEN NonFinite ELSE 20 + i + (k % 3))]

ShardsOf(p) ==
    [i \in 1 .. p.count |->
        Filled(i, CellsPer(StorageOf(i, p.storage)),
               ShardCells(p.kind, i, p.capacity, p.storage), i = p.odd)]

WritesSession == {"multimodal", "balanced", "layer"}

FileOf(p) ==
    CASE p.writer = "builder" -> Build(Manifest(p.build, 1), p.sections)
      [] p.writer = "another writer" -> Laid(Manifest(1, 1), p.sections)
      [] p.writer = "projector" ->
             build_projector_self_test_pack(p.weights, p.cases)
      [] p.writer = "js projector" ->
             buildSyntheticProjectorPack(p.weights, p.cases[1])
      [] p.writer = "multimodal" ->
             buildMultimodalSessionPack(p.prefix, p.capacity, p.storage, 5,
                                        ShardsOf(p))
      [] p.writer = "balanced" ->
             buildM7q1BalancedWeightPack(p.prefix, p.capacity, 5, ShardsOf(p))
      [] p.writer = "layer" ->
             LayerPack(p.kind, p.prefix, p.capacity, ShardsOf(p))

Unread == [by |-> "nobody"]

Init ==
    /\ pack \in Packs
    /\ file = FileOf(pack)
    /\ damages = 0
    /\ read = Unread
    /\ rebuilt = Unread

(* A file on disk or on its way changes, loses its end or gets a longer    *)
(* one.                                                                    *)
Damages ==
    /\ read = Unread
    /\ damages < MaxDamages
    /\ damages' = damages + 1
    /\ \/ \E i \in DOMAIN file, drift \in Drifts :
              /\ file[i][1] + drift >= 0
              /\ file' = [file EXCEPT ![i] = <<@[1] + drift, @[2]>>]
       \/ file' = Front(file)
       \/ file' = Append(file, Cell(0))
    /\ UNCHANGED <<pack, read, rebuilt>>

OpensPack ==
    /\ read = Unread
    /\ read' = [by |-> "PackReader", result |-> PackReaderOpen(file)]
    /\ UNCHANGED <<pack, file, damages, rebuilt>>

OpensProjectorPack ==
    /\ read = Unread
    /\ pack.writer \in {"projector", "js projector", "builder"}
    /\ read' = [by |-> "projector", result |-> ProjectorSelfTestPackOpen(file)]
    /\ UNCHANGED <<pack, file, damages, rebuilt>>

(* A damaged file is begun with as its writer meant it to be. *)
Calls ==
    IF damages > 0
    THEN {[kind |-> pack.kind, prefix |-> pack.prefix,
           capacity |-> pack.capacity, prefillCapable |-> TRUE]}
    ELSE [kind : SessionKind, prefix : {pack.prefix, pack.prefix + 1},
          capacity : {pack.capacity, pack.capacity + 1},
          prefillCapable : BOOLEAN]

BeginsWithPack ==
    /\ read = Unread
    /\ pack.writer \in WritesSession
    /\ \E call \in Calls :
           read' = [by |-> "session", call |-> call,
                    result |-> parse_weight_pack(file, call)]
    /\ UNCHANGED <<pack, file, damages, rebuilt>>

ReadsShards ==
    /\ read = Unread
    /\ pack.writer \in WritesSession
    /\ read' = [by |-> "engine", result |-> readSessionPackShardBytes(file)]
    /\ UNCHANGED <<pack, file, damages, rebuilt>>

(* The tables of a page: of the capacity of its pack. *)
PageRope(name, capacity) ==
    Filled(name, 2, StackShardCells(6, capacity, "f16"), FALSE)

BeginsPage ==
    /\ read.by = "engine" /\ read.result.ok
    /\ rebuilt = Unread
    /\ \E capacity \in 1..2 :
           LET cells == RebuiltPack(read.result, capacity,
                                    PageRope(40, capacity),
                                    PageRope(50, capacity))
               call == [kind |-> "stack", prefix |-> 0, capacity |-> capacity,
                        prefillCapable |-> TRUE]
           IN  rebuilt' = [by |-> "page", capacity |-> capacity,
                           result |-> IF cells = <<>> THEN Refused
                                      ELSE parse_weight_pack(cells, call)]
    /\ UNCHANGED <<pack, file, damages, read>>

Next == Damages \/ OpensPack \/ OpensProjectorPack \/ BeginsWithPack
        \/ ReadsShards \/ BeginsPage

Spec == Init /\ [][Next]_packVars
-----------------------------------------------------------------------------
Accepted(reader) == read.by = reader /\ read.result.ok
AsWritten(reader) == read.by = reader /\ damages = 0

(* PackReader accepts only what the builder writes for the manifest and    *)
(* the sections that it returns, cell by cell (pvlc-pack/src/lib.rs), and  *)
(* it accepts the builder's own files.                                     *)
PacksAreCanonical ==
    /\ Accepted("PackReader") =>
           file = Build(read.result.manifest, read.result.sections)
    /\ AsWritten("PackReader")
           /\ pack.writer \in {"builder", "projector", "js projector"} =>
               read.result.ok

(* The builders of projector packs in Rust and in JavaScript write the     *)
(* same file, and whoever reads one gets the weights and the cases that    *)
(* were written or nothing (projector_self_test.rs).                       *)
ProjectorPacksAreAuthentic ==
    /\ pack.writer = "js projector" /\ damages = 0 =>
           file = build_projector_self_test_pack(pack.weights, pack.cases)
    /\ Accepted("projector") =>
           /\ read.result.weights = pack.weights
           /\ ToSet(read.result.cases) =
                  {[profile |-> c.profile, input |-> c.input,
                    expected |-> c.expected] : c \in ToSet(pack.cases)}
    /\ AsWritten("projector") => (read.result.ok <=> pack.valid)

IsPackOf(call) ==
    /\ call.kind = pack.kind
    /\ call.prefix = pack.prefix /\ call.capacity = pack.capacity
    /\ pack.prefix = 0 => call.kind = "stack" /\ call.prefillCapable

(* A session begins with the weights that were written, in the storage     *)
(* they were written in, or is refused; it is not refused a sound pack     *)
(* that was made for its descriptor (decoder_stack_session.rs and the      *)
(* sessions of one layer).  So is a page, whose pack joins downloaded      *)
(* weights with tables of its own (multimodal_ocr.mjs).                    *)
SessionWeightsAreAuthentic ==
    /\ Accepted("session") =>
           /\ IsPackOf(read.call)
           /\ read.result.storage = pack.storage
           /\ read.result.shards = ShardsOf(pack)
    /\ AsWritten("session") =>
           (read.result.ok <=> IsPackOf(read.call) /\ pack.odd = 0)
    /\ Accepted("engine") => read.result.shards = ShardsOf(pack)
    /\ rebuilt.by = "page" =>
           /\ damages = 0 =>
                  (rebuilt.result.ok
                   <=> pack.storage = "f16" /\ pack.odd \in {0, 6, 7})
           /\ rebuilt.result.ok =>
                  rebuilt.result.shards =
                      [ShardsOf(pack) EXCEPT
                          ![6] = PageRope(40, rebuilt.capacity),
                          ![7] = PageRope(50, rebuilt.capacity)]

PacksAreSound ==
    /\ PacksAreCanonical
    /\ ProjectorPacksAreAuthentic
    /\ SessionWeightsAreAuthentic
=============================================================================

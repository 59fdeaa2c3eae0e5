--------------------------- MODULE ShaderContainer ---------------------------
(***************************************************************************)
(* The DXBC container around a shader's tokens (tritonDxbc.c), and its     *)
(* readers in tritonShader.c: the signature parser, and the creation of a  *)
(* geometry shader with stream output, which has to find the elements of   *)
(* the signature by register.                                              *)
(*                                                                         *)
(* Sizes and offsets are in bytes.  An element of a signature chunk is a   *)
(* function from the offsets of its fields to their values, because the    *)
(* writer and the parser know the layouts of the variants separately.      *)
(***************************************************************************)
EXTENDS ShaderSource

CONSTANTS
    Pipeline,            \* sequences of shaders, each stage's consumer after it
    MaxSoEntries,        \* D3D11_SO_STREAM_COUNT * D3D11_SO_OUTPUT_COMPONENT_COUNT
    Nothing              \* NULL

\* An entry of a stream-output declaration, as the runtime hands it over.
SoDeclEntry == [stream: Nat, reg: Nat, mask: SUBSET Component, slot: Nat]

ASSUME ShaderContainerAssumption ==
    /\ Pipeline \subseteq Seq(Shader) \ {<< >>}
    /\ MaxSoEntries \in Nat
    /\ \A p \in Pipeline : \A i \in 1 .. Len(p) - 1 : p[i].stage # "PS"
    /\ \A s \in Shader :
          /\ s.so # Nothing => s.so \in Seq(SoDeclEntry) /\ s.stage = "GS"
          /\ s.layouts \subseteq Seq(Nat)
          /\ s.sound => CompilerMade(s)

VARIABLES
    pending,             \* the shaders of the pipeline still to be created
    container,           \* TRITON_SHADER.pBytecode
    soDecl,              \* the stream-output declaration given to the host
    layoutSig,           \* what an input layout was given: elements and signature
    created              \* the shaders that exist, with their entries

vars == <<sigVars, pending, container, soDecl, layoutSig, created>>

-----------------------------------------------------------------------------
(* tritonSigBlobLayout and writeSigBlob *)

HasStream(tag) == tag \in {"OSG5", "ISG1", "OSG1", "PSG1"}

HasMinPrec(tag) == tag \in {"ISG1", "OSG1", "PSG1"}

EntrySize(tag) == IF HasMinPrec(tag) THEN 32 ELSE IF HasStream(tag) THEN 28 ELSE 24

\* The variants fxc would choose.
AnyMinPrec == \E c \in Class : \E i \in DOMAIN entries[c] : entries[c][i].minPrec # 0

Tag(cls) ==
    CASE cls = "in" -> IF AnyMinPrec THEN "ISG1" ELSE "ISGN"
      [] cls = "patch" -> IF AnyMinPrec THEN "PSG1" ELSE "PCSG"
      [] cls = "out" -> IF AnyMinPrec THEN "OSG1"
                        ELSE IF shader.stage = "GS" /\ shader.major >= 5 THEN "OSG5"
                        ELSE "OSGN"

\* ASCIIZ
NameBytes(name) ==
    CASE name = "ATTRIB" -> 7
      [] name = "SV_Depth" -> 9
      [] name = "SV_Target" -> 10
      [] name \in {"SV_Position", "SV_VertexID", "SV_Coverage"} -> 12
      [] name \in {"SV_TessFactor", "SV_InstanceID", "SV_StencilRef"} -> 14
      [] name \in {"SV_PrimitiveID", "SV_IsFrontFace", "SV_SampleIndex"} -> 15
      [] name \in {"SV_ClipDistance", "SV_CullDistance"} -> 16
      [] name = "SV_DepthLessEqual" -> 18
      [] name = "SV_InsideTessFactor" -> 20
      [] name = "SV_DepthGreaterEqual" -> 21
      [] name = "SV_ViewportArrayIndex" -> 22
      [] name = "SV_RenderTargetArrayIndex" -> 26

Aligned(n) == n + ((4 - (n % 4)) % 4)

\* A name is written once, behind the elements and the names before it.
NewName(es, i) == \A j \in 1 .. i - 1 : es[j].name # es[i].name

\* Where the names of the first k elements end.
NamesEnd(es, tag, k) ==
    LET end[i \in 0 .. Len(es)] ==
            IF i = 0 THEN 8 + Len(es) * EntrySize(tag)
            ELSE end[i - 1] + (IF NewName(es, i) THEN NameBytes(es[i].name) ELSE 0)
    IN end[k]

NameOffset(es, tag, name) == NamesEnd(es, tag, Min({i \in DOMAIN es : es[i].name = name}) - 1)

\* What is said of the components of an element besides which it has: all are
\* read, or (outputs) none is left unwritten.
UsedMask(cls, mask) ==
    IF cls = "in" \/ (cls = "patch" /\ shader.stage # "HS") THEN mask ELSE Component \ mask

\* The fields of an element, by offset.
FieldBase(tag) == IF HasStream(tag) THEN 4 ELSE 0

Fields(tag) ==
    {FieldBase(tag) + k : k \in {0, 4, 8, 12, 16, 20, 21}} \union
    (IF HasStream(tag) THEN {0} ELSE {}) \union (IF HasMinPrec(tag) THEN {28} ELSE {})

Field(e, cls, k, nameOff) ==
    CASE k = 0 -> nameOff
      [] k = 4 -> e.semIdx
      [] k = 8 -> e.dxSysValue
      [] k = 12 -> e.comp
      [] k = 16 -> e.reg
      [] k = 20 -> e.mask
      [] k = 21 -> UsedMask(cls, e.mask)
      [] k < 0 -> e.stream
      [] OTHER -> e.minPrec

Element(e, cls, tag, nameOff) ==
    [off \in Fields(tag) |-> Field(e, cls, off - FieldBase(tag), nameOff)]

SigChunk(cls) ==
    LET es == entries[cls] IN
    [tag |-> Tag(cls),
     len |-> Aligned(NamesEnd(es, Tag(cls), Len(es))),
     elements |-> [i \in DOMAIN es |-> Element(es[i], cls, Tag(cls), NameOffset(es, Tag(cls), es[i].name))],
     names |-> [n \in {es[i].name : i \in DOMAIN es} |-> NameOffset(es, Tag(cls), n)]]

CodeBytes == 4 * (2 + Len(Words))

CodeChunk ==
    [tag |-> IF shader.major >= 5 THEN "SHEX" ELSE "SHDR", len |-> Aligned(CodeBytes),
     elements |-> << >>, names |-> << >>]

ChunkClasses == IF "patch" \in Classes THEN <<"in", "out", "patch">> ELSE <<"in", "out">>

Chunks == [i \in DOMAIN ChunkClasses |-> SigChunk(ChunkClasses[i])] \o <<CodeChunk>>

HeaderBytes(n) == 32 + 4 * n

\* Where the i-th chunk begins: each takes its header and its length.
Offset(chunks, i) ==
    LET begins[k \in 1 .. Len(chunks) + 1] ==
            IF k = 1 THEN HeaderBytes(Len(chunks)) ELSE begins[k - 1] + 8 + chunks[k - 1].len
    IN begins[i]

Made(chunks) == [chunks |-> chunks, total |-> Offset(chunks, Len(chunks) + 1)]

\* Mutant: the budget has no room for the longest name.
BudgetShort == HeaderBytes(Len(Chunks)) + 20 * Len(Chunks) + 8 + CodeBytes + 4 +
               32 * (Len(entries.in) + Len(entries.out) + Len(entries.patch))

\* What tritonBuildDxbc reserves before it writes.
Budget == HeaderBytes(Len(Chunks)) + 20 * Len(Chunks) + 8 + CodeBytes + 4 +
          64 * (Len(entries.in) + Len(entries.out) + Len(entries.patch))

\* dxbcHash covers what follows the magic and the hash.  The blocks after the
\* last whole one: two when the rest leaves no room for the lengths.
TrailerBlocks(size) ==
    LET rest == size % 64 IN
    IF rest >= 56
    THEN << <<[from |-> "data", bytes |-> rest], [from |-> "padding", bytes |-> 64 - rest]>>,
            <<[from |-> "bits", bytes |-> 4], [from |-> "zero", bytes |-> 56],
              [from |-> "tail", bytes |-> 4]>> >>
    ELSE << <<[from |-> "bits", bytes |-> 4], [from |-> "data", bytes |-> rest],
              [from |-> "padding", bytes |-> 64 - rest - 8], [from |-> "tail", bytes |-> 4]>> >>

-----------------------------------------------------------------------------
(* tritonDxbcParseSig and tritonDxbcFindSig *)

\* The chunks that lie in the file.
Readable(c) ==
    {i \in DOMAIN c.chunks : Offset(c.chunks, i) + 8 + c.chunks[i].len <= c.total}

Preferred(input) == IF input THEN {"ISG1"} ELSE {"OSG1", "OSG5"}

Basic(input) == IF input THEN "ISGN" ELSE "OSGN"

\* The chunk that is parsed: the first of a newer variant, or else the first
\* of the basic one.
Chosen(c, input) ==
    LET newer == {i \in Readable(c) : c.chunks[i].tag \in Preferred(input)}
        basic == {i \in Readable(c) : c.chunks[i].tag = Basic(input)}
    IN IF newer # {} THEN Min(newer) ELSE IF basic # {} THEN Min(basic) ELSE 0

\* The string at an offset of a chunk.
NameAt(chunk, off) == CHOOSE n \in DOMAIN chunk.names : chunk.names[n] = off

\* Mutant: the fields of a streamed element are read where the basic one has them.
ParsedUnshifted(chunk, e) ==
    [stream |-> IF chunk.tag = Basic(TRUE) \/ chunk.tag = Basic(FALSE) THEN 0 ELSE e[0],
     name |-> NameAt(chunk, IF chunk.tag = Basic(TRUE) \/ chunk.tag = Basic(FALSE) THEN e[0] ELSE e[4]),
     semIdx |-> e[4], reg |-> e[16], mask |-> e[20]]

\* What the parser makes of an element, by its own idea of the layouts.
Parsed(chunk, e) ==
    IF chunk.tag \in {"ISGN", "OSGN"}
    THEN [stream |-> 0, name |-> NameAt(chunk, e[0]), semIdx |-> e[4], reg |-> e[16], mask |-> e[20]]
    ELSE [stream |-> e[0], name |-> NameAt(chunk, e[4]), semIdx |-> e[8], reg |-> e[20], mask |-> e[24]]

ParseSig(c, input) ==
    LET i == Chosen(c, input) IN
    IF i = 0 THEN << >>
    ELSE LET es == c.chunks[i].elements IN [k \in DOMAIN es |-> Parsed(c.chunks[i], es[k])]

\* The index of the element, or one past the end.
FindSig(sigs, stream, reg, comp) ==
    LET same == {i \in DOMAIN sigs : sigs[i].stream = stream /\ sigs[i].reg = reg}
        covering == {i \in same : comp \in sigs[i].mask}
    IN Min((IF covering # {} THEN covering ELSE same) \union {Len(sigs) + 1})

-----------------------------------------------------------------------------
(* Creation *)

\* tritonCreateGSWithSO_10 has no streams.
SoSource == [i \in DOMAIN shader.so |->
                IF shader.version = "10" THEN [shader.so[i] EXCEPT !.stream = 0] ELSE shader.so[i]]

\* A component number, or 4 when there is none.
Start(mask) == IF mask = {} THEN 4 ELSE Min(mask)

\* One entry of the declaration; without an element it is a gap.
SoEntry(sigs, src) ==
    LET start == Start(src.mask)
        i == FindSig(sigs, src.stream, src.reg, start)
    IN IF i > Len(sigs)
       THEN [stream |-> src.stream, name |-> NoName, semIdx |-> 0, start |-> start,
             count |-> Cardinality(src.mask), slot |-> src.slot]
       ELSE [stream |-> src.stream, name |-> sigs[i].name, semIdx |-> sigs[i].semIdx,
             start |-> start - Min({start, Start(sigs[i].mask)}),
             count |-> Cardinality(src.mask), slot |-> src.slot]

WithSo(s) == s.so # Nothing

\* tritonCreateGSWithSO_11 gives up before it builds anything.
SoRejects(s) == WithSo(s) /\ (s.alias \/ Len(s.so) > MaxSoEntries)

NextShader == Head(pending)

\* tritonCreateShaderCommon, tritonCreateGSWithSO_11
CreateShader ==
    /\ phase = "idle" /\ pending # << >> /\ ~ SoRejects(NextShader)
    /\ ScanBegins(Head(pending))
    /\ phase' = "scan"
    /\ container' = Nothing /\ soDecl' = Nothing /\ entries' = NoEntries
    /\ UNCHANGED <<pending, layoutSig, created>>

CreateShaderRejected ==
    /\ phase = "idle" /\ pending # << >> /\ SoRejects(NextShader)
    /\ pending' = Tail(pending)
    /\ UNCHANGED <<sigVars, container, soDecl, layoutSig, created>>

Scan == phase = "scan" /\ (ScanNext \/ ScanEnds) /\ UNCHANGED <<phase, entries, pending, container, soDecl, layoutSig, created>>

Complete == (Collect \/ AssignSemantics) /\ UNCHANGED <<pending, container, soDecl, layoutSig, created>>

\* tritonBuildDxbc writes the container, if what it reserved is enough.
BuildDxbc ==
    /\ phase = "named" /\ Made(Chunks).total <= Budget
    /\ container' = Made(Chunks)
    /\ phase' = "built"
    /\ UNCHANGED <<tokenVars, entries, pending, soDecl, layoutSig, created>>

\* No memory, or no room.
BuildDxbcFails ==
    /\ phase = "named"
    /\ phase' = "idle" /\ pending' = Tail(pending)
    /\ UNCHANGED <<tokenVars, entries, container, soDecl, layoutSig, created>>

\* The declaration of the stream output, by the names in the container.
DeclareStreamOutput ==
    /\ phase = "built" /\ WithSo(shader)
    /\ LET sigs == ParseSig(container, FALSE) IN
       soDecl' = [i \in DOMAIN SoSource |-> SoEntry(sigs, SoSource[i])]
    /\ phase' = "declared"
    /\ UNCHANGED <<tokenVars, entries, pending, container, layoutSig, created>>

\* The host takes the shader.
CreateNative ==
    /\ phase = IF WithSo(shader) THEN "declared" ELSE "built"
    /\ created' = Append(created, [shader |-> shader, entries |-> entries, container |-> container])
    /\ phase' = "idle" /\ pending' = Tail(pending)
    /\ UNCHANGED <<tokenVars, entries, container, soDecl, layoutSig>>

\* The host does not: there will be no DestroyShader, so the container goes.
CreateNativeFails ==
    /\ phase = IF WithSo(shader) THEN "declared" ELSE "built"
    /\ container' = Nothing
    /\ phase' = "idle" /\ pending' = Tail(pending)
    /\ UNCHANGED <<tokenVars, entries, soDecl, layoutSig, created>>

\* The elements of an input layout, by register, and the signature made of
\* those that were found (tritonResolveInputLayout, tritonBuildInputSigDxbc).
FirstOf(sigs, reg) == Min({i \in DOMAIN sigs : sigs[i].reg = reg} \union {Len(sigs) + 1})

CreatedShader(v) == created[v].shader

AddMatch(found, sigs, reg) ==
    IF FirstOf(sigs, reg) > Len(sigs) THEN found ELSE Append(found, reg)

\* The registers of a layout that have an element, in their order.
Matched(sigs, regs) ==
    LET found[k \in 0 .. Len(regs)] ==
            IF k = 0 THEN << >> ELSE AddMatch(found[k - 1], sigs, regs[k])
    IN found[Len(regs)]

ResolveElements(v, regs) ==
    /\ phase = "idle" /\ layoutSig = Nothing /\ CreatedShader(v).stage = "VS"
    /\ LET sigs == ParseSig(created[v].container, TRUE)
           found == Matched(sigs, regs)
       IN /\ sigs # << >>
          /\ layoutSig' = [vs |-> v,
                           elements |-> [i \in DOMAIN found |->
                               [reg |-> found[i], name |-> sigs[FirstOf(sigs, found[i])].name,
                                semIdx |-> sigs[FirstOf(sigs, found[i])].semIdx]]]
    /\ UNCHANGED <<sigVars, pending, container, soDecl, created>>

LayoutBytes(elements) ==
    HeaderBytes(1) + 8 + Aligned(NamesEnd(elements, "ISGN", Len(elements)))

LayoutBudget(elements) == HeaderBytes(1) + 16 + Len(elements) * (EntrySize("ISGN") + 32) + 16

Init ==
    /\ pending \in Pipeline
    /\ shader = Head(pending)
    /\ at = 1 /\ scan = NewScan /\ scanning = FALSE /\ highest = 0
    /\ phase = "idle" /\ entries = NoEntries
    /\ container = Nothing /\ soDecl = Nothing /\ layoutSig = Nothing /\ created = << >>

Next ==
    \/ CreateShader \/ CreateShaderRejected
    \/ Scan \/ Complete
    \/ BuildDxbc \/ BuildDxbcFails \/ DeclareStreamOutput \/ CreateNative \/ CreateNativeFails
    \/ \E v \in DOMAIN created : \E regs \in CreatedShader(v).layouts : ResolveElements(v, regs)

\* A call runs to its end.
Spec == Init /\ [][Next]_vars /\ WF_vars(Scan)

-----------------------------------------------------------------------------
TypeOK ==
    /\ shader \in Shader
    /\ at \in 1 .. End /\ highest \in Nat /\ scanning \in BOOLEAN
    /\ \A c \in Class : Len(scan[c]) <= MaxSigEntries
    /\ phase \in {"idle", "scan", "collected", "named", "built", "declared"}
    /\ \A c \in Class : Len(entries[c]) <= MaxSigEntries /\
           \A i \in DOMAIN entries[c] :
               /\ entries[c][i].semIdx \in Nat \/ phase \notin {"named", "built", "declared"}
               /\ entries[c][i].mask \subseteq Component

\* The entries of a class for a declared element.
EntriesFor(es, d) == {i \in DOMAIN es[d.cls] : SamePlace(es[d.cls][i], d) /\ Overlap(es[d.cls][i].mask, d.mask)}

EntryFor(es, d) == es[d.cls][CHOOSE i \in EntriesFor(es, d) : TRUE]

ScannedAs(x, d) == SamePlace(x, d) /\ x.mask = d.mask /\ x.sysval = d.sysval

\* What the scan of a shader has to find: each element of its source once, and
\* no others but the primitive id, which has no register.
ScanFinds ==
    /\ \A d \in shader.declares : \E i \in DOMAIN scan[d.cls] : ScannedAs(scan[d.cls][i], d)
    /\ \A c \in Class : \A i \in DOMAIN scan[c] :
          \/ c = "in" /\ scan[c][i].reg = NoReg
          \/ \E d \in shader.declares : d.cls = c /\ ScannedAs(scan[c][i], d)
    /\ \A i, j \in DOMAIN scan.sysOut : scan.sysOut[i] = scan.sysOut[j] => i = j

ScanExact == shader.sound /\ phase # "idle" /\ ~ scanning => ScanFinds

Finished == shader.sound /\ phase \in {"named", "built", "declared"}

\* The scan finds what the shader declares, and however few entries the runtime
\* hands over, and whatever their stream bytes hold, every element the shader
\* declares has exactly one entry in its class,
\* with all its components, and with the type and the precision the runtime gave
\* for its register, and every system output of a pixel shader has one of its
\* name: "a signature element missing for a live register" brings the host's
\* converter down, and without its type "a uint/int output comes back typed
\* float32" (tritonDxbc.c:537-544, 637-725, 767-890, 984-998).
SignatureComplete ==
  /\ ScanExact
  /\ Finished =>
        /\ \A d \in shader.declares :
              Len(entries[d.cls]) < MaxSigEntries =>
                  /\ Cardinality(EntriesFor(entries, d)) = 1
                  /\ d.mask \subseteq EntryFor(entries, d).mask
                  /\ TypedBy(d.cls, d) # {} /\ Stride >= 20 =>
                        /\ EntryFor(entries, d).comp = d.comp
                        /\ EntryFor(entries, d).minPrec = d.minPrec
        /\ \A o \in SysOut :
              Len(entries.out) < MaxSigEntries /\ shader.stage = "PS" =>
                  Cardinality({i \in DOMAIN entries.out : entries.out[i].name = SysOutName(o)}) =
                  (IF \E i \in DOMAIN scan.sysOut : scan.sysOut[i] = o THEN 1 ELSE 0)

Linked(from, to) == <<from, to>> \in {<<"out", "in">>, <<"patch", "patch">>}

\* What one stage writes and the next one reads have the same name, and the same
\* index exactly when they begin at the same component of the same register,
\* however much each declares behind it, whichever entries each was given, and
\* whatever else each declares: an element whose first component both declare is
\* found, and one packed beside it never taken for it.  The source claims more:
\* "Location-derived indices agree between stages by construction", also where
\* "splits differ per stage" (tritonDxbc.c:1003-1010).  They do not for a stage
\* that declares an element without its first component: it gets another index.
StagesLink ==
    \A k \in 1 .. Len(created) - 1 :
        \A x \in CreatedShader(k).declares, y \in CreatedShader(k + 1).declares :
            /\ CreatedShader(k).sound /\ CreatedShader(k + 1).sound
            /\ Linked(x.cls, y.cls) /\ x.sysval = 0 /\ y.sysval = 0
            /\ EntriesFor(created[k].entries, x) # {} /\ EntriesFor(created[k + 1].entries, y) # {}
            => LET e == EntryFor(created[k].entries, x)
                   f == EntryFor(created[k + 1].entries, y)
               IN /\ e.name = f.name
                  /\ e.semIdx = f.semIdx <=> x.reg = y.reg /\ FirstComp(x.mask) = FirstComp(y.mask)

BlockBytes(b) ==
    LET sum[i \in 0 .. Len(b)] == IF i = 0 THEN 0 ELSE sum[i - 1] + b[i].bytes
    IN sum[Len(b)]

\* A container always fits what was reserved for it, its chunks are aligned and
\* hold their elements and names without overlap, and the hash is taken over
\* whole blocks with every byte of the rest in them (tritonDxbc.c:215-262,
\* 1054-1149, 1325-1337, 1418-1424).
ContainerSound ==
    /\ phase = "named" => Made(Chunks).total <= Budget
    /\ layoutSig # Nothing => LayoutBytes(layoutSig.elements) <= LayoutBudget(layoutSig.elements)
    /\ phase \in {"built", "declared"} =>
        /\ \A i \in DOMAIN container.chunks :
              LET c == container.chunks[i] IN
              /\ Offset(container.chunks, i) % 4 = 0 /\ c.len % 4 = 0
              /\ \A n \in DOMAIN c.names :
                    /\ c.names[n] >= 8 + Len(c.elements) * EntrySize(c.tag)
                    /\ c.names[n] + NameBytes(n) <= c.len
                    /\ \A m \in DOMAIN c.names \ {n} :
                          c.names[m] >= c.names[n] + NameBytes(n) \/ c.names[n] >= c.names[m] + NameBytes(m)
        /\ LET blocks == TrailerBlocks(container.total - 20) IN
           /\ \A b \in DOMAIN blocks : BlockBytes(blocks[b]) = 64
           /\ \E b \in DOMAIN blocks : \E seg \in ToSet(blocks[b]) :
                 seg = [from |-> "data", bytes |-> (container.total - 20) % 64]

\* A stream-output entry names the one element that holds its first component,
\* with the component counted inside that element, and an input element the
\* name its register has in the vertex shader; so the parser reads every
\* variant of a chunk as it was written (tritonShader.c:374-493, 597-644,
\* 759-787).
ReadersFindElements ==
    /\ phase = "declared" /\ shader.sound =>
        \A i \in DOMAIN soDecl, d \in shader.declares :
            /\ d.cls = "out" /\ SamePlace(d, SoSource[i])
            /\ Start(SoSource[i].mask) \in d.mask /\ EntriesFor(entries, d) # {}
            => LET e == EntryFor(entries, d) IN
               /\ soDecl[i].name = e.name /\ soDecl[i].semIdx = e.semIdx
               /\ soDecl[i].start + FirstComp(e.mask) = Start(SoSource[i].mask)
               /\ Cardinality({k \in DOMAIN entries.out :
                                  /\ entries.out[k].stream = soDecl[i].stream
                                  /\ entries.out[k].name = soDecl[i].name
                                  /\ entries.out[k].semIdx = soDecl[i].semIdx}) = 1
    /\ layoutSig # Nothing =>
        \A i \in DOMAIN layoutSig.elements :
            LET x == layoutSig.elements[i] IN
            \E k \in DOMAIN created[layoutSig.vs].entries.in :
                LET e == created[layoutSig.vs].entries.in[k] IN
                e.reg = x.reg /\ e.name = x.name /\ e.semIdx = x.semIdx

\* In a signature with several streams every entry belongs to a stream that
\* declares it: "multi-stream signatures need every entry attributed to a
\* stream" (tritonDxbc.c:792-799).
EntriesAttributed ==
    Finished /\ Streams("out") > 1 =>
        \A i \in DOMAIN entries.out :
            \E d \in shader.declares :
                d.cls = "out" /\ SamePlace(d, entries.out[i]) /\ Overlap(d.mask, entries.out[i].mask)
=============================================================================

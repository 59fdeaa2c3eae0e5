--------------------------- MODULE ShaderSignature ---------------------------
(***************************************************************************)
(* The signatures of a shader (tritonDxbc.c): the entries the runtime      *)
(* hands over, completed from the scanned declarations, sorted, and given  *)
(* the names and indices by which stages and stream output find each       *)
(* other.                                                                  *)
(***************************************************************************)
EXTENDS ShaderTokens

VARIABLES
    phase,               \* how far the container has got
    entries              \* the three entry sets of TritonSigScratch

sigVars == <<tokenVars, phase, entries>>

Class == {"in", "out", "patch"}

\* Fields that have not been resolved.
Unset == -1

NoName == "none"

\* What is at the place of the fields of a 20-byte entry in a 12-byte one.
Absent == 0

-----------------------------------------------------------------------------
(* The semantic table (g_semInfo); system values are those of D3D10_SB_NAME. *)

SemName(v) ==
    CASE v = 1 -> "SV_Position"
      [] v = 2 -> "SV_ClipDistance"
      [] v = 3 -> "SV_CullDistance"
      [] v = 4 -> "SV_RenderTargetArrayIndex"
      [] v = 5 -> "SV_ViewportArrayIndex"
      [] v = 6 -> "SV_VertexID"
      [] v = 7 -> "SV_PrimitiveID"
      [] v = 8 -> "SV_InstanceID"
      [] v = 9 -> "SV_IsFrontFace"
      [] v = 10 -> "SV_SampleIndex"
      [] v \in {15, 16, 20} -> "SV_InsideTessFactor"
      [] v \in 11 .. 22 \ {15, 16, 20} -> "SV_TessFactor"
      [] OTHER -> "ATTRIB"

\* The system values from the render target array to the sample index are
\* unsigned, all others are floating-point.
UintComp == 1

SintComp == 2

FloatComp == 3

SemComp(v) == IF v \in 4 .. 10 THEN UintComp ELSE FloatComp

\* D3D_NAME: the edges and the insides of a tessellation domain have one each.
SemSysValue(v) ==
    CASE v \in 0 .. 10 -> v
      [] v \in 11 .. 14 -> 11
      [] v \in {15, 16} -> 12
      [] v \in 17 .. 19 -> 13
      [] v = 20 -> 14
      [] v = 21 -> 15
      [] v = 22 -> 16
      [] OTHER -> 0

\* A generic output of a pixel shader is a render target.
IsTarget(cls, v) == cls = "out" /\ shader.stage = "PS" /\ v = 0

PickName(cls, v) == IF IsTarget(cls, v) THEN "SV_Target" ELSE SemName(v)

SysOutName(type) ==
    CASE type = "depth" -> "SV_Depth"
      [] type = "coverage" -> "SV_Coverage"
      [] type = "depth_ge" -> "SV_DepthGreaterEqual"
      [] type = "depth_le" -> "SV_DepthLessEqual"
      [] type = "stencil_ref" -> "SV_StencilRef"

SysOutComp(type) == IF type \in {"coverage", "stencil_ref"} THEN UintComp ELSE FloatComp

-----------------------------------------------------------------------------
(* tritonCollectSigEntries *)

FirstComp(mask) == IF mask = {} THEN 0 ELSE Min(mask)

Truncated(s) == SubSeq(s, 1, Min({Len(s), MaxSigEntries}))

\* tritonSigStride: only the 11.1 tables have the longer entries.
Stride == IF shader.version = "11.1" THEN 20 ELSE 12

\* readDdiSig: the shorter entries have no stream, type or precision.
Read(d) ==
    [sysval |-> d.sysval, reg |-> d.reg, mask |-> d.mask,
     stream |-> IF Stride >= 20 THEN d.stream ELSE Absent,
     comp |-> IF Stride >= 20 THEN d.comp ELSE Absent,
     minPrec |-> IF Stride >= 20 THEN d.minPrec ELSE Absent]

Ddi(cls) == LET s == Truncated(shader.ddi[cls]) IN [i \in DOMAIN s |-> Read(s[i])]

Decls(cls) == scan[cls]

\* Only the outputs of a geometry shader have streams.
Streams(cls) == IF cls = "out" /\ shader.stage = "GS" THEN scan.cStream ELSE 1

Entry(d, stream, comp, minPrec) ==
    [sysval |-> d.sysval, reg |-> d.reg, mask |-> d.mask, comp |-> comp,
     minPrec |-> minPrec, stream |-> stream,
     name |-> NoName, dxSysValue |-> 0, semIdx |-> Unset]

SamePlace(x, y) == x.reg = y.reg /\ x.stream = y.stream

Overlap(x, y) == x \intersect y # {}

\* An entry of a signature with several streams is believed only if the
\* shader declares its register for its stream, and once.
Believed(kept, d, cls) ==
    Streams(cls) > 1 =>
        /\ d.stream < Streams(cls)
        /\ \E i \in DOMAIN Decls(cls) : SamePlace(Decls(cls)[i], d)
        /\ ~ \E i \in DOMAIN kept : SamePlace(kept[i], d) /\ Overlap(kept[i].mask, d.mask)

Attribute(kept, d, cls) ==
    IF Believed(kept, d, cls)
    THEN Append(kept, Entry(d, IF Streams(cls) > 1 THEN d.stream ELSE 0, d.comp, d.minPrec))
    ELSE kept

Attributed(cls) ==
    LET kept[k \in 0 .. Len(Ddi(cls))] ==
            IF k = 0 THEN << >> ELSE Attribute(kept[k - 1], Ddi(cls)[k], cls)
    IN kept[Len(Ddi(cls))]

\* Two masks of which neither is known to miss the other.
MayOverlap(x, y) == x = {} \/ y = {} \/ Overlap(x, y)

\* Mutant: an entry stands for every declaration of its register.
PresentByPlace(kept, decl) == \E i \in DOMAIN kept : SamePlace(kept[i], decl)

\* A declaration that has an entry.
Present(kept, decl) ==
    \E i \in DOMAIN kept : SamePlace(kept[i], decl) /\ MayOverlap(kept[i].mask, decl.mask)

\* The DDI entry that tells the type of a declaration: the first for its
\* components, whatever its stream.
TypedBy(cls, decl) ==
    {k \in DOMAIN Ddi(cls) : Ddi(cls)[k].reg = decl.reg /\ MayOverlap(decl.mask, Ddi(cls)[k].mask)}

Synthesised(cls, decl) ==
    LET ks == TypedBy(cls, decl) IN
    Entry(decl, decl.stream,
          IF ks = {} THEN 0 ELSE Ddi(cls)[Min(ks)].comp,
          IF ks = {} THEN 0 ELSE Ddi(cls)[Min(ks)].minPrec)

Synthesise(kept, decl, cls) ==
    IF Present(kept, decl) \/ Len(kept) >= MaxSigEntries THEN kept
    ELSE Append(kept, Synthesised(cls, decl))

Completed(cls) ==
    LET kept[k \in 0 .. Len(Decls(cls))] ==
            IF k = 0 THEN Attributed(cls) ELSE Synthesise(kept[k - 1], Decls(cls)[k], cls)
    IN kept[Len(Decls(cls))]

SigOrderBefore(x, y) ==
    \/ x.stream < y.stream
    \/ x.stream = y.stream /\ x.reg < y.reg
    \/ x.stream = y.stream /\ x.reg = y.reg /\ FirstComp(x.mask) < FirstComp(y.mask)

\* One step of the insertion sort: an entry goes behind the last of those
\* that are sorted that it is not to be before.
Inserted(sorted, e) ==
    InsertAt(sorted, Highest({j \in DOMAIN sorted : ~ SigOrderBefore(e, sorted[j])}) + 1, e)

Sorted(es) ==
    LET sorted[k \in 0 .. Len(es)] ==
            IF k = 0 THEN << >> ELSE Inserted(sorted[k - 1], es[k])
    IN sorted[Len(es)]

Classes == IF shader.stage \in {"HS", "DS"} THEN Class ELSE {"in", "out"}

-----------------------------------------------------------------------------
(* tritonAssignSemantics *)

Named(cls, e) ==
    [e EXCEPT !.name = PickName(cls, e.sysval),
              !.dxSysValue = IF IsTarget(cls, e.sysval) THEN 0 ELSE SemSysValue(e.sysval)]

\* The scanned system output that an entry without register stands for: the
\* first that is left of its kind of number, or else the first that is left.
Claim(e, claimed) ==
    LET left == DOMAIN scan.sysOut \ claimed
        isUint == e.comp \in {UintComp, SintComp}
        alike == {j \in left : e.comp \notin {UintComp, SintComp, FloatComp}
                               \/ isUint = (SysOutComp(scan.sysOut[j]) = UintComp)}
    IN IF alike # {} THEN Min(alike) ELSE IF left # {} THEN Min(left) ELSE 0

TypeOf(e) == IF e.comp # 0 THEN e.comp ELSE SemComp(e.sysval)

\* One entry is resolved; acc has what came before it and what is claimed.
Resolved(acc, e, cls) ==
    LET n == Named(cls, e)
        j == Claim(e, acc.claimed)
    IN IF ~ IsTarget(cls, e.sysval)
       THEN [acc EXCEPT !.done = Append(@, [n EXCEPT !.comp = TypeOf(e)])]
       ELSE IF e.reg # NoReg
       THEN [acc EXCEPT !.done = Append(@, [n EXCEPT !.comp = TypeOf(e), !.semIdx = e.reg])]
       ELSE IF j = 0
       THEN [acc EXCEPT !.done = Append(@, [n EXCEPT !.comp = TypeOf(e)])]
       ELSE [claimed |-> acc.claimed \union {j},
             done |-> Append(acc.done, [n EXCEPT !.name = SysOutName(scan.sysOut[j]),
                                                 !.comp = SysOutComp(scan.sysOut[j]),
                                                 !.mask = IF @ = {} THEN {0} ELSE @,
                                                 !.semIdx = 0])]

SysOutEntry(type) ==
    [sysval |-> 0, reg |-> NoReg, mask |-> {0}, comp |-> SysOutComp(type), minPrec |-> 0,
     stream |-> 0, name |-> SysOutName(type), dxSysValue |-> 0, semIdx |-> 0]

ResolvedAll(es, cls) ==
    LET acc[k \in 0 .. Len(es)] ==
            IF k = 0 THEN [done |-> << >>, claimed |-> {}] ELSE Resolved(acc[k - 1], es[k], cls)
    IN acc[Len(es)]

\* Declared system outputs of a pixel shader that no entry claimed.
AddSysOut(es, j, claimed) ==
    IF j \in claimed \/ Len(es) >= MaxSigEntries THEN es
    ELSE Append(es, SysOutEntry(scan.sysOut[j]))

WithSysOuts(acc, cls) ==
    LET es[j \in 0 .. Len(scan.sysOut)] ==
            IF j = 0 THEN acc.done ELSE AddSysOut(es[j - 1], j, acc.claimed)
    IN IF cls = "out" /\ shader.stage = "PS" THEN es[Len(scan.sysOut)] ELSE acc.done

\* Mutant: generic entries are numbered in the order of the signature.
LocatedNever(e) == FALSE

\* What is known by its place, and numbered by it.
Located(e) == e.name = "ATTRIB" /\ e.reg # NoReg

SemIndex(es, i) ==
    IF es[i].semIdx # Unset THEN es[i].semIdx
    ELSE IF Located(es[i]) THEN es[i].reg * 4 + FirstComp(es[i].mask)
    ELSE Cardinality({j \in 1 .. i - 1 : es[j].stream = es[i].stream /\ es[j].name = es[i].name})

Assigned(es, cls) ==
    LET all == WithSysOuts(ResolvedAll(es, cls), cls) IN
    [i \in DOMAIN all |-> [all[i] EXCEPT !.semIdx = SemIndex(all, i)]]

-----------------------------------------------------------------------------
NoEntries == [c \in Class |-> << >>]

\* tritonCollectSigEntries for the inputs, the outputs and the patch constants.
Collect ==
    /\ phase = "scan" /\ ~ scanning
    /\ entries' = [c \in Class |-> IF c \in Classes THEN Sorted(Completed(c)) ELSE << >>]
    /\ phase' = "collected"
    /\ UNCHANGED tokenVars

\* tritonAssignSemantics for the three.
AssignSemantics ==
    /\ phase = "collected"
    /\ entries' = [c \in Class |-> Assigned(entries[c], c)]
    /\ phase' = "named"
    /\ UNCHANGED tokenVars
=============================================================================

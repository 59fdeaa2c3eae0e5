-------------------------- MODULE MCShaderContainer --------------------------
(* The shaders a compiler makes of a few elements, encoded as the tokens    *)
(* that declare them, with what the runtime says of them, and some programs *)
(* whose lengths are wrong.                                                 *)
EXTENDS ShaderContainer

Op(op, n) ==
    [op |-> op, len |-> n, extended |-> FALSE, mask |-> {}, type |-> "none", index |-> << >>, val |-> 300]

Num(v) == [Op("other", 0) EXCEPT !.val = v]

Operand(type, mask, index) == [Op("other", 0) EXCEPT !.mask = mask, !.type = type, !.index = index]

\* An element of a signature.
El(cls, stream, reg, mask, sysval, comp, minPrec) ==
    [cls |-> cls, stream |-> stream, reg |-> reg, mask |-> mask, sysval |-> sysval,
     comp |-> comp, minPrec |-> minPrec]

\* A line of a program.
Line(says, what, words) == [says |-> says, what |-> what, words |-> words]

\* The declaration of an element; per-vertex inputs have two indices.
Dcl(e, type, vertices) ==
    LET named == e.sysval # 0
        op == IF e.cls = "in" \/ type = "patch_const"
              THEN IF named THEN "dcl_input_named" ELSE "dcl_input"
              ELSE IF named THEN "dcl_output_named" ELSE "dcl_output"
        index == IF vertices THEN <<"imm32", "imm32">> ELSE <<"imm32">>
    IN Line("element", e,
            <<Op(op, 2 + Len(index) + (IF named THEN 1 ELSE 0)), Operand(type, e.mask, index)>> \o
            (IF vertices THEN <<Num(3)>> ELSE << >>) \o <<Num(e.reg)>> \o
            (IF named THEN <<Num(e.sysval)>> ELSE << >>))

DclPrimitiveId == <<Line("primitive_id", 0, <<Op("dcl_input", 2), Operand("primitive_id", {}, << >>)>>)>>

DclSysOut(type) == <<Line("system_output", type, <<Op("dcl_output", 2), Operand(type, {0}, << >>)>>)>>

DclStream(n) == <<Line("stream", n, <<Op("dcl_stream", 3), Operand("stream", {}, <<"imm32">>), Num(n)>>)>>

Phase(op) == <<Line("phase", op, <<Op(op, 1)>>)>>

CustomData == <<Line("other", 0, <<Op("other", 0), Num(3), Num(7)>>)>>

All(es, type, vertices) == [i \in DOMAIN es |-> Dcl(es[i], type, vertices)]

\* A program with the place and the context of its lines.
WordsOf(program) == FlattenSeq([k \in DOMAIN program |-> program[k].words])

Placed(program) ==
    LET line[k \in DOMAIN program] ==
            LET before == line[k - 1] IN
            [says |-> program[k].says, what |-> program[k].what, length |-> Len(program[k].words),
             at |-> IF k = 1 THEN 1 ELSE before.at + before.length,
             stream |-> IF k = 1 THEN 0 ELSE StreamAfter(before),
             patchPhase |-> IF k = 1 THEN FALSE ELSE PatchPhaseAfter(before)]
    IN [k \in DOMAIN program |-> line[k]]

NoDdi == [c \in Class |-> << >>]

\* Elements as the runtime hands them over.
Handed(es) ==
    [i \in DOMAIN es |-> [sysval |-> es[i].sysval, reg |-> es[i].reg, mask |-> es[i].mask,
                          stream |-> es[i].stream, comp |-> es[i].comp, minPrec |-> es[i].minPrec]]

\* What is handed over of some entries: all, all but the n-th, none.
Reported(es, n) == IF n = 0 THEN es ELSE IF n > Len(es) THEN << >> ELSE RemoveAt(es, n)

Ways(es) == 0 .. Len(es) + 1

Made0(stage, program, ddi, declares, version) ==
    [stage |-> stage, major |-> 5, words |-> WordsOf(program), lines |-> Placed(program),
     ddi |-> [c \in Class |-> Handed(ddi[c])], version |-> version,
     so |-> Nothing, alias |-> FALSE, declares |-> Range(declares), sound |-> TRUE,
     layouts |-> IF stage = "VS" THEN {<<1, 0>>, <<0, 5>>} ELSE {}]

-----------------------------------------------------------------------------
(* A vertex and a pixel shader *)

VsIn == <<El("in", 0, 0, {0, 1, 2, 3}, 0, 3, 0), El("in", 0, 1, {0, 1}, 0, 3, 0)>>

VsOut == <<El("out", 0, 0, {0, 1, 2, 3}, 1, 3, 0), El("out", 0, 1, {0, 1}, 0, 3, 0),
           El("out", 0, 1, {2, 3}, 0, 1, 0), El("out", 0, 2, {0}, 4, 1, 0),
           El("out", 0, 3, {0, 1, 2}, 0, 3, 0)>>

Vs(version, reported) ==
    Made0("VS", CustomData \o All(VsIn, "input", FALSE) \o All(VsOut, "output", FALSE),
          [NoDdi EXCEPT !.in = VsIn, !.out = reported], VsIn \o VsOut, version)

\* What the pixel shader declares of them, at the precision prec; of the last
\* one perhaps not the first component.
PsIn(part, prec) == <<El("in", 0, 3, part, 0, 3, 0), El("in", 0, 1, {2}, 0, 1, prec)>>

PsOut == <<El("out", 0, 2, {0, 1, 2, 3}, 0, 3, 0), El("out", 0, 0, {0, 1}, 0, 1, 0)>>

SysEntries == <<El("out", 0, NoReg, {0}, 0, 1, 0), El("out", 0, NoReg, {}, 0, 3, 0)>>

Ps(version, in, out, sys, declared) ==
    Made0("PS", All(declared, "input", FALSE) \o DclSysOut("depth") \o
                All(PsOut, "output", FALSE) \o DclSysOut("coverage"),
          [NoDdi EXCEPT !.in = in, !.out = out \o sys], declared \o PsOut, version)

Link(version, vsOut, in, out, sys, declared) ==
    <<Vs(version, Reported(VsOut, vsOut)),
      Ps(version, Reported(declared, in), Reported(PsOut, out), Reported(SysEntries, sys), declared)>>

\* What is left out of the pixel shader varies on one side of it at a time.
Linking ==
    {<<"link", "11.1", o, in, 0, 0, PsIn({0, 1}, prec)>> :
        o \in Ways(VsOut), in \in 0 .. 3, prec \in {0, 1}} \union
    {<<"link", "11.1", o, in, 0, 0, PsIn({1}, 0)>> : o \in {0, 5, 6}, in \in {0, 1, 3}} \union
    {<<"link", "11.1", o, 0, out, sys, PsIn({0, 1}, 0)>> :
        o \in {0, 3}, out \in Ways(PsOut), sys \in Ways(SysEntries)} \union
    {<<"link", "11", o, 0, 0, 0, PsIn({0, 1}, 0)>> : o \in Ways(VsOut)}

-----------------------------------------------------------------------------
(* A hull and a domain shader: the phases declare the same constants again. *)

HsOut == <<El("out", 0, 0, {0, 1, 2, 3}, 1, 3, 0)>>

Tess == <<El("patch", 0, 0, {0}, 17, 3, 0), El("patch", 0, 1, {0}, 18, 3, 0), El("patch", 0, 2, {0}, 20, 3, 0),
          El("patch", 0, 2, {1, 2}, 0, 2, 0)>>

Hs(patch) ==
    Made0("HS", Phase("hs_control_point_phase") \o All(HsOut, "output", FALSE) \o
                Phase("hs_fork_phase") \o All(Tess, "output", FALSE) \o
                Phase("hs_join_phase") \o <<Dcl(Tess[4], "output", FALSE)>>,
          [NoDdi EXCEPT !.out = HsOut, !.patch = patch], HsOut \o Tess, "11.1")

DsIn == <<El("in", 0, 0, {0, 1, 2, 3}, 1, 3, 0)>>

Ds(patch) ==
    Made0("DS", All(DsIn, "control_point", TRUE) \o All(Tess, "patch_const", FALSE),
          [NoDdi EXCEPT !.in = DsIn, !.patch = patch], DsIn \o Tess, "11.1")

Tessellating == {<<"tess", p, q>> : p \in Ways(Tess), q \in Ways(Tess)}

-----------------------------------------------------------------------------
(* A geometry shader with streams and stream output *)

GsIn == <<El("in", 0, 0, {0, 1, 2, 3}, 1, 3, 0)>>

Stream0 == <<El("out", 0, 0, {0}, 0, 1, 0), El("out", 0, 1, {0, 1, 2}, 0, 3, 0), El("out", 0, 1, {3}, 0, 2, 0)>>

Stream1(prec) == <<El("out", 1, 0, {0}, 0, 1, 0), El("out", 1, 0, {1, 2}, 0, 3, prec)>>

So(stream, reg, mask) == [stream |-> stream, reg |-> reg, mask |-> mask, slot |-> 0]

SoOne == <<So(0, 1, {3}), So(0, 1, {1, 2}), So(0, NoReg, {0, 1}), So(0, 0, {0})>>

SoTwo == <<So(0, 1, {3}), So(1, 0, {1}), So(1, 0, {2}), So(0, 0, {0})>>

\* The stream bytes of the entries: right, absent, or whatever was there.
Bytes(es, how) ==
    [i \in DOMAIN es |-> IF how = "right" THEN es[i] ELSE [es[i] EXCEPT !.stream = IF how = "zero" THEN 0 ELSE 9]]

Gs(major, version, outs, program, ddi, so, alias) ==
    [Made0("GS", All(GsIn, "input", TRUE) \o DclPrimitiveId \o program,
           [NoDdi EXCEPT !.in = GsIn, !.out = ddi], GsIn \o outs, version)
     EXCEPT !.major = major, !.so = so, !.alias = alias]

OneStream(major, version, reported, so) ==
    Gs(major, version, Stream0, All(Stream0, "output", FALSE), reported, so, FALSE)

TwoStreams(version, reported, how, prec) ==
    Gs(5, version, Stream0 \o Stream1(prec),
       DclStream(0) \o All(Stream0, "output", FALSE) \o DclStream(1) \o All(Stream1(prec), "output", FALSE),
       Bytes(reported, how), SoTwo, FALSE)

Reused == Gs(5, "11", Stream0, All(Stream0, "output", FALSE), << >>, SoOne, TRUE)

TooMany == Gs(5, "11", Stream0, All(Stream0, "output", FALSE), << >>, [i \in 1 .. MaxSoEntries + 1 |-> So(0, 0, {0})], FALSE)

Streaming ==
    {<<"one", major, version, n, so>> :
        major \in {4, 5}, version \in {"10", "11", "11.1"}, n \in Ways(Stream0), so \in BOOLEAN} \union
    {<<"two", version, n, how, prec>> :
        version \in {"11", "11.1"}, n \in {0, 4, 6}, how \in {"right", "zero", "other"}, prec \in {0}} \union
    {<<"two", "11.1", 0, how, 1>> : how \in {"right", "zero", "other"}} \union
    {<<"reused">>, <<"too_many">>}

-----------------------------------------------------------------------------
(* More elements than fit, and programs whose lengths are wrong *)

Many == [i \in 1 .. MaxSigEntries + 1 |-> El("out", 0, i, {0}, 0, 3, 0)]

Crowded == [Made0("VS", All(Many, "output", FALSE), NoDdi, Many, "11") EXCEPT !.sound = FALSE]

Tails ==
    <<<<Op("dcl_output", 3), Operand("output", {0}, <<"imm32">>)>>,
     <<Op("dcl_output", 2), Operand("output", {0}, <<"imm32">>)>>,
     <<Op("dcl_output", 1)>>,
     <<Op("dcl_input_named", 3), Operand("input", {0}, <<"imm32">>), Num(1)>>,
     <<Op("dcl_output", 3), Operand("output", {0}, <<"imm64">>), Num(1)>>,
     <<Op("dcl_output", 4), Operand("output", {0}, <<"imm64">>), Num(1), Num(2)>>,
     <<Op("dcl_output", 4), Operand("output", {0}, <<"imm32", "imm64", "imm32">>), Num(1), Num(2)>>,
     <<Op("dcl_output", 3), Operand("output", {0}, <<"relative">>), Num(1)>>,
     <<Op("dcl_output", 3), [Operand("output", {0}, <<"imm32">>) EXCEPT !.extended = TRUE], [Num(1) EXCEPT !.extended = TRUE]>>,
     <<Op("dcl_output", 3), [Operand("output", {0}, << >>) EXCEPT !.extended = TRUE], [Num(1) EXCEPT !.extended = TRUE]>>,
     <<Op("dcl_stream", 127), Num(1)>>,
     <<Op("other", 0)>>, <<Op("other", 0), Num(0), Num(0)>>, <<Op("other", 0), Num(1), Num(5)>>,
     <<Op("other", 0), Num(9)>>, << >>>>

Malformed(n) ==
    [Made0("VS", <<Dcl(VsIn[1], "input", FALSE), Line("other", 0, Tails[n])>>, NoDdi, << >>, "11")
     EXCEPT !.sound = FALSE]

-----------------------------------------------------------------------------
Families ==
    Linking \union Tessellating \union Streaming \union {<<"crowded">>} \union
    {<<"malformed", n>> : n \in DOMAIN Tails}

Shaders(f) ==
    CASE f[1] = "link" -> Link(f[2], f[3], f[4], f[5], f[6], f[7])
      [] f[1] = "tess" -> <<Hs(Reported(Tess, f[2])), Ds(Reported(Tess, f[3]))>>
      [] f[1] = "one" -> <<OneStream(f[2], f[3], Reported(Stream0, f[4]), IF f[5] THEN SoOne ELSE Nothing)>>
      [] f[1] = "two" -> <<TwoStreams(f[2], Reported(Stream0 \o Stream1(f[5]), f[3]), f[4], f[5])>>
      [] f[1] = "reused" -> <<Reused>>
      [] f[1] = "too_many" -> <<TooMany>>
      [] f[1] = "crowded" -> <<Crowded>>
      [] f[1] = "malformed" -> <<Malformed(f[2])>>

\* (TLC keeps the value of a definition, though not that of the definition a
\* CONSTANT is replaced by.)
PipelineTable == {Shaders(f) : f \in Families}

EveryPipeline == PipelineTable

ShaderTable == UNION {Range(p) : p \in PipelineTable}

EveryShader == ShaderTable
=============================================================================

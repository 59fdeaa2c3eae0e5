----------------------------- MODULE ShaderSource -----------------------------
(***************************************************************************)
(* What the containers are built from, and what may be expected of it: a   *)
(* shader a compiler made of a source (sound), whose program declares the  *)
(* elements of that source line by line, and of which the runtime reports  *)
(* no more than is true.  None of this is code of the driver; it is what   *)
(* the driver relies on when it completes a signature from declarations.   *)
(*                                                                         *)
(* A line is said with the words it has in the token format, not with what *)
(* the scan makes of them.                                                 *)
(***************************************************************************)
EXTENDS ShaderSignature

\* An element of a signature, as the source of the shader has it.
DeclaredElement ==
    [cls: Class, stream: 0 .. 3, reg: Nat \ {NoReg}, mask: (SUBSET Component) \ {{}},
     sysval: Nat, comp: Nat \ {0}, minPrec: Nat]

\* Two elements that claim the same component of a register.
Collide(x, y) == x.reg = y.reg /\ Overlap(x.mask, y.mask)

-----------------------------------------------------------------------------
(* The program.  A line has what it says, which of them (an element, a      *)
(* stream, a type of output), where it begins, how many words it has, and   *)
(* the stream and the kind of phase it is in.                               *)

OpcodeAt(s, l) == s.words[l.at].op

OperandAt(s, l) == s.words[l.at + 1]

\* The length is in the first word, or, where that has none, in the second.
LengthSaid(s, l) ==
    /\ l.length >= 1 /\ l.at + l.length <= Len(s.words) + 1
    /\ \/ l.length = s.words[l.at].len
       \/ s.words[l.at].len = 0 /\ l.length >= 2 /\ s.words[l.at + 1].val = l.length

\* Behind the operand token are its indices, the last of which is the register
\* (before it, in what every vertex of a primitive has, their number), and the
\* system value if there is one.
DclIndices == {<<"imm32">>, <<"imm32", "imm32">>}

RegisterAt(s, l) == l.at + 1 + Len(OperandAt(s, l).index)

Operation(d, plain, named) == IF d.sysval = 0 THEN plain ELSE named

ElementOperand(s, l, d) ==
    /\ OperandAt(s, l).mask = d.mask /\ ~ OperandAt(s, l).extended
    /\ OperandAt(s, l).index \in DclIndices
    /\ s.words[RegisterAt(s, l)].val = d.reg
    /\ l.at + l.length = RegisterAt(s, l) + (IF d.sysval = 0 THEN 1 ELSE 2)
    /\ d.sysval # 0 => s.words[RegisterAt(s, l) + 1].val = d.sysval

InputElement(s, l, d) ==
    /\ OpcodeAt(s, l) = Operation(d, "dcl_input", "dcl_input_named")
    /\ \/ d.cls = "in" /\ OperandAt(s, l).type \in {"input", "control_point"}
       \/ d.cls = "patch" /\ OperandAt(s, l).type = "patch_const"

OutputElement(s, l, d) ==
    /\ OpcodeAt(s, l) = Operation(d, "dcl_output", "dcl_output_named")
    /\ OperandAt(s, l).type = "output"
    /\ d.cls = (IF l.patchPhase THEN "patch" ELSE "out")
    /\ s.stage = "GS" => d.stream = l.stream

SaysElement(s, l) ==
    /\ l.what \in s.declares
    /\ ElementOperand(s, l, l.what)
    /\ InputElement(s, l, l.what) \/ OutputElement(s, l, l.what)

\* What has no register: the primitive id, and outputs of a pixel shader.
PlainOperand(s, l) == l.length = 2 /\ OperandAt(s, l).index = << >> /\ ~ OperandAt(s, l).extended

SaysPrimitiveId(s, l) ==
    OpcodeAt(s, l) = "dcl_input" /\ OperandAt(s, l).type = "primitive_id" /\ PlainOperand(s, l)

SaysSysOut(s, l) ==
    /\ OpcodeAt(s, l) = "dcl_output" /\ l.what \in SysOut /\ OperandAt(s, l).type = l.what
    /\ PlainOperand(s, l)

SaysStream(s, l) ==
    /\ OpcodeAt(s, l) = "dcl_stream" /\ OperandAt(s, l).type = "stream" /\ ~ OperandAt(s, l).extended
    /\ OperandAt(s, l).index = <<"imm32">> /\ l.length = 3
    /\ l.what \in 0 .. 3 /\ s.words[l.at + 2].val = l.what

SaysPhase(s, l) == OpcodeAt(s, l) \in HsPhase /\ l.what = OpcodeAt(s, l)

Says(s, l) ==
    CASE l.says = "element" -> SaysElement(s, l)
      [] l.says = "primitive_id" -> SaysPrimitiveId(s, l)
      [] l.says = "system_output" -> SaysSysOut(s, l)
      [] l.says = "stream" -> SaysStream(s, l)
      [] l.says = "phase" -> SaysPhase(s, l)
      [] l.says = "other" -> OpcodeAt(s, l) = "other"

Saying == {"element", "primitive_id", "system_output", "stream", "phase", "other"}

\* Where the k-th line begins, or the program ends.
LineAt(s, k) == IF k \in DOMAIN s.lines THEN s.lines[k].at ELSE Len(s.words) + 1

\* A line is in the stream and in the kind of phase that were begun last.
StreamAfter(l) == IF l.says = "stream" THEN l.what ELSE l.stream

PatchPhaseAfter(l) == IF l.says = "phase" THEN l.what # "hs_control_point_phase" ELSE l.patchPhase

Follows(m, l) == m.stream = StreamAfter(l) /\ m.patchPhase = PatchPhaseAfter(l)

LinesOf(s) ==
    /\ DOMAIN s.lines = 1 .. Len(s.lines) /\ Len(s.lines) \in Nat
    /\ \A k \in DOMAIN s.lines :
          /\ s.lines[k].says \in Saying
          /\ s.lines[k].at \in Nat \ {0} /\ s.lines[k].length \in Nat
          /\ s.lines[k].stream \in 0 .. 3 /\ s.lines[k].patchPhase \in BOOLEAN

SaidElement(l, d) == l.says = "element" /\ l.what = d

\* The lines are the program, one behind the other; each element has one, each
\* system output at most one.
ProgramSays(s) ==
    /\ LinesOf(s)
    /\ LineAt(s, 1) = 1
    /\ \A k \in DOMAIN s.lines :
          /\ LengthSaid(s, s.lines[k]) /\ Says(s, s.lines[k])
          /\ s.lines[k].at + s.lines[k].length = LineAt(s, k + 1)
    /\ 1 \in DOMAIN s.lines => s.lines[1].stream = 0 /\ ~ s.lines[1].patchPhase
    /\ \A k \in DOMAIN s.lines : k + 1 \in DOMAIN s.lines => Follows(s.lines[k + 1], s.lines[k])
    /\ \A d \in s.declares : \E k \in DOMAIN s.lines : SaidElement(s.lines[k], d)
    /\ \A j, k \in DOMAIN s.lines :
          /\ s.lines[j].says = "system_output" /\ s.lines[k].says = "system_output"
          /\ s.lines[j].what = s.lines[k].what
          => j = k

\* The elements fit in the arrays of the scan, with the primitive id of a
\* geometry shader.
Fits(s, cls) ==
    Cardinality({d \in s.declares : d.cls = cls}) + (IF cls = "in" /\ s.stage = "GS" THEN 1 ELSE 0) <= MaxSigEntries

-----------------------------------------------------------------------------
(* The report *)

SingleStream(s, cls) == \A d, e \in s.declares : d.cls = cls /\ e.cls = cls => d.stream = e.stream

\* The runtime says of an element what the shader says: of its type whatever
\* the stream, of its extent and system value if it can be told which element
\* is meant, that is, unless the elements are in several streams and this
\* element is not reported with its own.
ReportedRight(s, cls) ==
    \A i \in DOMAIN s.ddi[cls] :
        LET x == s.ddi[cls][i] IN
        x.reg # NoReg =>
            /\ x.mask # {}
            /\ \A d \in s.declares :
                  d.cls = cls /\ Collide(x, d) =>
                      /\ x.comp = d.comp /\ x.minPrec = d.minPrec
                      /\ \/ SingleStream(s, cls)
                         \/ d.stream = (IF s.version = "11.1" THEN x.stream ELSE 0)
                         => x.mask = d.mask /\ x.sysval = d.sysval
            /\ SingleStream(s, cls) =>
                  \A j \in DOMAIN s.ddi[cls] \ {i} : ~ Collide(s.ddi[cls][j], x)

\* What is known of a shader that a compiler made of a source, of which the
\* runtime reports no more than is true.
CompilerMade(s) ==
    /\ s.declares \subseteq DeclaredElement /\ IsFiniteSet(s.declares)
    /\ \A d \in s.declares : d.sysval < 65536
    /\ ProgramSays(s) /\ \A cls \in Class : Fits(s, cls)
    /\ \A d \in s.declares :
          /\ d.cls = "patch" => s.stage \in {"HS", "DS"}
          /\ d.stream # 0 => d.cls = "out" /\ s.stage = "GS" /\ s.major >= 5
    /\ \A d, e \in s.declares : d.cls = e.cls /\ d.stream = e.stream /\ Collide(d, e) => d = e
    /\ \A cls \in Class : ReportedRight(s, cls)
    /\ s.stage # "PS" => \A i \in DOMAIN s.ddi["out"] : s.ddi["out"][i].reg # NoReg
=============================================================================

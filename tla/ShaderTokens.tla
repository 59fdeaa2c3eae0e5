----------------------------- MODULE ShaderTokens -----------------------------
(***************************************************************************)
(* The scan of a shader's declarations (tritonDxbc.c): an iterator over    *)
(* the instructions of a tokenized program, a decoder of the operand of a  *)
(* declaration, and the collection of every register the program declares. *)
(*                                                                         *)
(* A DWORD of the program is a record of the fields the scan looks at, so  *)
(* that one that was meant as something else can still be read as an       *)
(* instruction or an operand.  Words are counted from 1, which is the      *)
(* first after the version and the total length.                           *)
(***************************************************************************)
EXTENDS Integers, Sequences, FiniteSets, FiniteSetsExt, SequencesExt

CONSTANTS
    Shader,              \* the shaders the runtime can create
    MaxSigEntries,       \* TRITON_DXBC_MAX_SIG_ENTRIES
    NoReg                \* 0xFFFFFFFF, the register of what has no register

Component == 0 .. 3

Stage == {"PS", "VS", "GS", "HS", "DS", "CS"}

\* The opcodes the scan tells apart; "named" is a declaration with a system
\* value (_SGV, _SIV), whose name follows its operand.
InputDcl == {"dcl_input", "dcl_input_named"}

OutputDcl == {"dcl_output", "dcl_output_named"}

NamedDcl == {"dcl_input_named", "dcl_output_named"}

HsPhase == {"hs_control_point_phase", "hs_fork_phase", "hs_join_phase"}

Opcode == InputDcl \union OutputDcl \union HsPhase \union {"dcl_stream", "other"}

\* Outputs of a pixel shader that have no register.
SysOut == {"depth", "coverage", "depth_ge", "depth_le", "stencil_ref"}

OperandType ==
    {"input", "output", "primitive_id", "stream", "control_point", "patch_const", "none"} \union SysOut

IndexForm == {"imm32", "imm64", "relative"}

\* Every field a DWORD is read for: OpcodeToken0, the operand token, a number.
Word ==
    [op: Opcode, len: 0 .. 127, extended: BOOLEAN, mask: SUBSET Component,
     type: OperandType, index: UNION {[1 .. n -> IndexForm] : n \in 0 .. 3}, val: Nat]

\* An entry of a signature as the runtime hands it over: whatever it holds.
DdiEntry ==
    [sysval: Nat, reg: Nat, mask: SUBSET Component, stream: Nat, comp: Nat, minPrec: Nat]

ASSUME ShaderTokensAssumption ==
    /\ MaxSigEntries \in Nat /\ NoReg \in Nat
    /\ \A s \in Shader :
          /\ s.stage \in Stage /\ s.major \in Nat /\ s.words \in Seq(Word)
          /\ \A cls \in {"in", "out", "patch"} : s.ddi[cls] \in Seq(DdiEntry)

VARIABLES
    shader,              \* the shader whose container is being built
    at,                  \* TritonTokIter.p
    scan,                \* TritonShdrScan, with the state of the loop
    scanning,            \* the loop has not ended
    highest              \* history: the last word that was read

tokenVars == <<shader, at, scan, scanning, highest>>

Highest(S) == Max(S \union {0})

-----------------------------------------------------------------------------
Words == shader.words

\* TritonTokIter.end: one past the last word of the program.
End == Len(Words) + 1

\* A word past the end, which must not be read, has some value.
WordValue(p) == IF p \in DOMAIN Words THEN Words[p].val ELSE 0

\* A length field of zero means that the count is in the next word.
InstructionLength(p) == IF Words[p].len # 0 THEN Words[p].len ELSE WordValue(p + 1)

\* Mutant: any count is taken.
LengthReadableAny(p) == Words[p].len = 0 => p + 1 < End

LengthReadable(p) == Words[p].len = 0 => p + 1 < End /\ WordValue(p + 1) >= 2

\* Mutant: an instruction may be longer than what is left.
WellFormedUnbounded(p) == LengthReadable(p)

\* An encoding that tritonTokIterNext can follow.
WellFormed(p) == LengthReadable(p) /\ InstructionLength(p) <= End - p

\* The words the iterator looks at to find that length.
HeaderRead(p) == IF Words[p].len = 0 /\ p + 1 < End THEN p + 1 ELSE p

Width(form) == IF form = "imm64" THEN 2 ELSE 1

\* How many words the operand token at p and the tokens chained to it take.
ChainLength(p, end) ==
    CHOOSE n \in 1 .. end - p + 1 :
        /\ n = end - p + 1 \/ ~ Words[p + n - 1].extended
        /\ \A k \in 1 .. n - 1 : Words[p + k - 1].extended

\* Where the d-th index of the operand at p begins.
IndexAt(p, end, d) ==
    LET form == Words[p].index IN
    p + ChainLength(p, end) + (IF d > 1 THEN Width(form[1]) ELSE 0)
                            + (IF d > 2 THEN Width(form[2]) ELSE 0)

IndexInside(p, end, d) == IndexAt(p, end, d) + Width(Words[p].index[d]) - 1 < end

\* tritonDecodeDeclOperand: an operand that is cut off, or that is indexed
\* relatively, cannot be decoded.
Decodable(p, end) ==
    /\ p < end
    /\ \A d \in DOMAIN Words[p].index :
        Words[p].index[d] # "relative" /\ IndexInside(p, end, d)

OperandLength(p, end) ==
    LET dims == Len(Words[p].index) IN
    IF dims = 0 THEN ChainLength(p, end)
    ELSE IndexAt(p, end, dims) + Width(Words[p].index[dims]) - p

\* The register is the last index.
OperandReg(p, end) ==
    LET dims == Len(Words[p].index) IN
    IF dims = 0 THEN 0 ELSE WordValue(IndexAt(p, end, dims))

\* The last word the decoder reads.
OperandRead(p, end) ==
    IF p >= end THEN 0
    ELSE Highest({p} \union
                 {k \in p .. end - 1 : k < p + ChainLength(p, end)} \union
                 {IndexAt(p, end, d) :
                     d \in {d \in DOMAIN Words[p].index :
                               \A c \in 1 .. d : /\ Words[p].index[c] # "relative"
                                                 /\ IndexInside(p, end, c)}})

-----------------------------------------------------------------------------
\* A declaration that is merged into one seen before: the same components of
\* the same register.  Disjoint ones are packed elements and stay apart.
Merges(d, reg, mask, stream) ==
    /\ d.reg = reg /\ d.stream = stream
    /\ d.mask \intersect mask # {} \/ mask = {} \/ d.mask = {}

\* Mutant: no end to the declarations.
DeclAddUnbounded(decls, reg, mask, sysval, stream) ==
    Append(decls, [reg |-> reg, mask |-> mask, sysval |-> sysval, stream |-> stream])

\* tritonDeclAdd
DeclAdd(decls, reg, mask, sysval, stream) ==
    LET same == {i \in DOMAIN decls : Merges(decls[i], reg, mask, stream)} IN
    IF same # {}
    THEN [decls EXCEPT ![Min(same)].mask = @ \union mask,
                       ![Min(same)].sysval = IF sysval # 0 /\ @ = 0 THEN sysval ELSE @]
    ELSE IF Len(decls) < MaxSigEntries
    THEN Append(decls, [reg |-> reg, mask |-> mask, sysval |-> sysval, stream |-> stream])
    ELSE decls

\* What a declaration of an input adds; D3D10_SB_NAME_PRIMITIVE_ID is 7.
WithInput(s, type, reg, mask, sysval) ==
    CASE type \in {"input", "control_point"} ->
           [s EXCEPT !.in = DeclAdd(@, reg, mask, sysval, 0)]
      [] type = "patch_const" ->
           [s EXCEPT !.patch = DeclAdd(@, reg, mask, sysval, 0)]
      [] type = "primitive_id" /\ shader.stage = "GS" ->
           [s EXCEPT !.in = DeclAdd(@, NoReg, {0}, 7, 0)]
      [] OTHER -> s

\* What a declaration of an output adds.
WithOutput(s, type, reg, mask, sysval) ==
    CASE type = "output" /\ s.patchPhase ->
           [s EXCEPT !.patch = DeclAdd(@, reg, mask, sysval, 0)]
      [] type = "output" /\ ~ s.patchPhase ->
           [s EXCEPT !.out = DeclAdd(@, reg, mask, sysval,
                                     IF shader.stage = "GS" THEN s.stream ELSE 0)]
      [] type \in SysOut /\ shader.stage = "PS" /\ Len(s.sysOut) < 4 ->
           [s EXCEPT !.sysOut = Append(@, type)]
      [] OTHER -> s

WithStream(s, type, reg) ==
    IF type = "stream" /\ reg < 4
    THEN [s EXCEPT !.stream = reg, !.cStream = Highest({@, reg + 1})]
    ELSE s

\* The scan after the instruction at p of n words.
Scanned(p, n) ==
    LET op == Words[p].op
        end == p + n
        decodable == Decodable(p + 1, end)
        type == Words[p + 1].type
        reg == OperandReg(p + 1, end)
        nameAt == p + 1 + OperandLength(p + 1, end)
        sysval == IF op \in NamedDcl /\ nameAt < end THEN WordValue(nameAt) % 65536 ELSE 0
    IN CASE op = "hs_control_point_phase" -> [scan EXCEPT !.patchPhase = FALSE]
         [] op \in {"hs_fork_phase", "hs_join_phase"} -> [scan EXCEPT !.patchPhase = TRUE]
         [] op = "dcl_stream" /\ decodable -> WithStream(scan, type, reg)
         [] op \in InputDcl /\ decodable -> WithInput(scan, type, reg, Words[p + 1].mask, sysval)
         [] op \in OutputDcl /\ decodable -> WithOutput(scan, type, reg, Words[p + 1].mask, sysval)
         [] OTHER -> scan

\* The last word that is read for it.
InstructionRead(p, n) ==
    LET op == Words[p].op
        end == p + n
        name == p + 1 + OperandLength(p + 1, end)
    IN IF op \in HsPhase \union {"other"} THEN HeaderRead(p)
       ELSE IF op \in NamedDcl /\ Decodable(p + 1, end) /\ name < end
       THEN Highest({HeaderRead(p), OperandRead(p + 1, end), name})
       ELSE Highest({HeaderRead(p), OperandRead(p + 1, end)})

NewScan ==
    [in |-> << >>, out |-> << >>, patch |-> << >>, sysOut |-> << >>,
     stream |-> 0, cStream |-> 1, patchPhase |-> FALSE]

ScanBegins(s) ==
    /\ shader' = s
    /\ at' = 1 /\ scan' = NewScan /\ scanning' = TRUE /\ highest' = 0

\* tritonTokIterNext and the body of the loop.
ScanNext ==
    /\ scanning /\ at < End /\ WellFormed(at)
    /\ LET n == InstructionLength(at) IN
       /\ at' = at + n
       /\ scan' = Scanned(at, n)
       /\ highest' = Highest({highest, InstructionRead(at, n)})
    /\ UNCHANGED <<shader, scanning>>

\* The end of the program, or an encoding that cannot be followed.
ScanEnds ==
    /\ scanning
    /\ at < End => ~ WellFormed(at)
    /\ scanning' = FALSE
    /\ highest' = IF at < End THEN Highest({highest, HeaderRead(at)}) ELSE highest
    /\ UNCHANGED <<shader, at, scan>>

-----------------------------------------------------------------------------
\* Whatever the lengths in the tokens say, no word past the end of the program
\* is read: not by the iterator, not by the decoder, not for the name that
\* follows an operand (tritonDxbc.c:419-433, 549-592, 682-684).
ReadsInside == highest < End

\* The scan goes forward with every instruction, so it ends on any program
\* (tritonDxbc.c:420-426).
ScanTerminates == scanning ~> ~ scanning
=============================================================================

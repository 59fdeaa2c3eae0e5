------------------------ MODULE ShaderContainer_proofs ------------------------
(***************************************************************************)
(* Proofs about the scan of declarations, the signatures completed from    *)
(* it, and the containers written from them: whatever words a program is   *)
(* made of, no word past its end is read; the scan finds what the source   *)
(* of the shader declares; every element has its entry; and what is        *)
(* written fits, is read as it was written, and links.                     *)
(*                                                                         *)
(* In this order: the walk over the words (ScanInv); types (SigTypes);     *)
(* containers (ContainerInv); entries follow the runtime and the           *)
(* declarations (EntriesInv, StreamsCounted); the scan finds every line    *)
(* (DecodedInv); system outputs (SysOutsInv); signatures; linkage between  *)
(* stages (MatchInv); numbering (NumbersInv); readers (DeclaredInv).       *)
(***************************************************************************)
EXTENDS ShaderContainer, FiniteSetTheorems, SequenceTheorems, WellFoundedInduction, TLAPS

-----------------------------------------------------------------------------
\* The order of the naturals is well-founded.
LEMMA LessWellFounded == IsWellFoundedOn({pair \in Nat \X Nat : pair[1] < pair[2]}, Nat)
  BY NatLessThanWellFounded DEF OpToRel

\* A set of naturals that is not empty has a least element.
LEMMA LeastNatural ==
    ASSUME NEW T \in SUBSET Nat, T # {}
    PROVE  \E x \in T : \A y \in T : x <= y
  <1> DEFINE R == {pair \in Nat \X Nat : pair[1] < pair[2]}
  <1>1. IsWellFoundedOn(R, Nat)
    BY LessWellFounded
  <1>2. PICK x \in T : \A y \in T : ~(<<y, x>> \in R)
    <2> HIDE DEF R
    <2> QED
      BY <1>1, WFMin
  <1>3. \A y \in T : ~(y < x)
    BY <1>2
  <1> QED
    BY <1>3

\* A set of naturals below a bound has its highest element below it, too.
LEMMA HighestBelow ==
    ASSUME NEW S \in SUBSET Nat, NEW b \in Nat, 0 < b, \A x \in S : x < b
    PROVE  Highest(S) \in Nat /\ Highest(S) < b
  <1> DEFINE U == S \union {0}
             T == {b - x : x \in U}
  <1>1. T \in SUBSET Nat /\ T # {}
    OBVIOUS
  <1>2. PICK t \in T : \A y \in T : t <= y
    BY <1>1, LeastNatural
  <1>3. PICK m \in U : t = b - m
    BY <1>2
  <1>4. \A y \in U : m >= y
    BY <1>2, <1>3
  <1>5. Max(U) \in U
    BY <1>4 DEF Max
  <1>6. Max(U) \in Nat /\ Max(U) < b
    <2>1. \A x \in U : x \in Nat /\ x < b
      OBVIOUS
    <2> HIDE DEF U
    <2> QED
      BY <1>5, <2>1
  <1>7. Highest(S) = Max(U)
    BY DEF Highest
  <1> QED
    BY <1>6, <1>7

-----------------------------------------------------------------------------
\* What holds of the scan in every state.
ScanInv ==
    /\ pending \in Seq(Shader)
    /\ phase # "idle" => pending # << >>
    /\ shader \in Shader
    /\ at \in 1 .. End
    /\ highest \in Nat
    /\ ReadsInside

\* The words of the program.
LEMMA WordTypes ==
    ASSUME shader \in Shader
    PROVE  /\ Words \in Seq(Word) /\ DOMAIN Words = 1 .. Len(Words)
           /\ End \in Nat /\ End = Len(Words) + 1
           /\ \A p \in 1 .. End - 1 : Words[p] \in Word
           /\ \A p \in Int : WordValue(p) \in Nat
  <1>1. Words \in Seq(Word)
    BY ShaderTokensAssumption DEF Words
  <1>2. DOMAIN Words = 1 .. Len(Words) /\ Len(Words) \in Nat
    BY <1>1, LenProperties
  <1>3. \A p \in 1 .. Len(Words) : Words[p] \in Word
    BY <1>1, <1>2, ElementOfSeq
  <1>4. \A p \in Int : WordValue(p) \in Nat
    BY <1>2, <1>3 DEF WordValue, Word
  <1> QED
    BY <1>1, <1>2, <1>3, <1>4 DEF End

\* The chain of an operand token ends at the end of the instruction at latest.
LEMMA ChainLengthType ==
    ASSUME NEW p \in Nat, NEW end \in Nat, p < end
    PROVE  ChainLength(p, end) \in 1 .. end - p + 1
  <1> DEFINE Ends(n) == n = end - p + 1 \/ ~ Words[p + n - 1].extended
             N == {n \in 1 .. end - p + 1 : Ends(n)}
  <1>1. N \in SUBSET Nat /\ N # {}
    <2>1. end - p + 1 \in 1 .. end - p + 1
      OBVIOUS
    <2>2. end - p + 1 \in N
      BY <2>1
    <2>3. N \in SUBSET Nat
      OBVIOUS
    <2> QED
      BY <2>2, <2>3
  <1>2. PICK n \in N : \A k \in N : n <= k
    BY <1>1, LeastNatural
  <1>3. \A k \in 1 .. n - 1 : Words[p + k - 1].extended
    BY <1>2
  <1>4. /\ n \in 1 .. end - p + 1
        /\ n = end - p + 1 \/ ~ Words[p + n - 1].extended
    BY <1>2
  <1> HIDE DEF N, Ends
  <1> QED
    BY <1>3, <1>4 DEF ChainLength

\* The indices of an operand inside the program.
LEMMA IndexTypes ==
    ASSUME NEW p \in Nat, NEW end \in Nat, Words[p] \in Word, p < end
    PROVE  /\ Len(Words[p].index) \in 0 .. 3
           /\ DOMAIN Words[p].index = 1 .. Len(Words[p].index)
           /\ \A d \in DOMAIN Words[p].index :
                 /\ Width(Words[p].index[d]) \in {1, 2}
                 /\ IndexAt(p, end, d) \in Nat
  <1>1. PICK n \in 0 .. 3 : Words[p].index \in [1 .. n -> IndexForm]
    BY DEF Word
  <1>2. Words[p].index \in Seq(IndexForm)
    BY <1>1, SeqDef
  <1>3. Len(Words[p].index) = n /\ DOMAIN Words[p].index = 1 .. n
    BY <1>1, <1>2, LenProperties
  <1>4. \A form : Width(form) \in {1, 2}
    BY DEF Width
  <1>5. \A d \in 1 .. n : IndexAt(p, end, d) \in Nat
    <2>1. ChainLength(p, end) \in Nat
      BY ChainLengthType
    <2>2. Width(Words[p].index[1]) \in Nat /\ Width(Words[p].index[2]) \in Nat
      BY <1>4
    <2> QED
      BY <2>1, <2>2 DEF IndexAt
  <1> QED
    BY <1>3, <1>4, <1>5

\* The decoder reads nothing past the end of its instruction.
LEMMA OperandReadInside ==
    ASSUME shader \in Shader,
           NEW p \in Nat, NEW end \in Nat, 1 <= p, 0 < end, end <= End
    PROVE  OperandRead(p, end) \in Nat /\ OperandRead(p, end) < end
  <1>1. CASE p >= end
    BY <1>1 DEF OperandRead
  <1>2. CASE p < end
    <2>1. Words[p] \in Word
      BY <1>2, WordTypes
    <2> DEFINE Chain == {k \in p .. end - 1 : k < p + ChainLength(p, end)}
               Ds == {d \in DOMAIN Words[p].index :
                        \A c \in 1 .. d : /\ Words[p].index[c] # "relative"
                                          /\ IndexInside(p, end, c)}
               Indices == {IndexAt(p, end, d) : d \in Ds}
    <2>2. \A d \in Ds : IndexAt(p, end, d) \in Nat /\ IndexAt(p, end, d) < end
      <3> SUFFICES ASSUME NEW d \in Ds PROVE IndexAt(p, end, d) \in Nat /\ IndexAt(p, end, d) < end
        OBVIOUS
      <3>1. /\ IndexAt(p, end, d) \in Nat /\ Width(Words[p].index[d]) \in {1, 2}
            /\ d \in 1 .. Len(Words[p].index) /\ Len(Words[p].index) \in 0 .. 3
        BY <1>2, <2>1, IndexTypes
      <3>2. IndexInside(p, end, d)
        BY <3>1
      <3> QED
        BY <3>1, <3>2 DEF IndexInside
    <2>3. \A x \in {p} \union Chain \union Indices : x \in Nat /\ x < end
      BY <1>2, <2>2
    <2>4. OperandRead(p, end) = Highest({p} \union Chain \union Indices)
      BY <1>2 DEF OperandRead
    <2> HIDE DEF Chain, Indices
    <2> QED
      BY <2>3, <2>4, HighestBelow
  <1> QED
    BY <1>1, <1>2

\* Nor is the header of an instruction read past the end of the program.
LEMMA HeaderReadInside ==
    ASSUME shader \in Shader, NEW p \in Nat, 1 <= p, p < End
    PROVE  HeaderRead(p) \in Nat /\ HeaderRead(p) < End
  <1>1. End \in Nat
    BY WordTypes
  <1>2. HeaderRead(p) = p \/ (HeaderRead(p) = p + 1 /\ p + 1 < End)
    BY DEF HeaderRead
  <1> QED
    BY <1>1, <1>2

\* An instruction that can be followed ends in the program, behind its start.
LEMMA LengthInside ==
    ASSUME shader \in Shader, NEW p \in Nat, 1 <= p, p < End, WellFormed(p)
    PROVE  /\ InstructionLength(p) \in Nat /\ InstructionLength(p) >= 1
           /\ p + InstructionLength(p) <= End
  <1>1. /\ End \in Nat /\ p \in 1 .. End - 1 /\ p + 1 \in Int
        /\ Words[p] \in Word /\ WordValue(p + 1) \in Nat
    <2>1. End \in Nat /\ p \in 1 .. End - 1 /\ p + 1 \in Int
      BY WordTypes
    <2> QED
      BY <2>1, WordTypes
  <1>2. Words[p].len \in 0 .. 127
    BY <1>1 DEF Word
  <1> QED
    BY <1>1, <1>2 DEF WellFormed, LengthReadable, InstructionLength

\* Nothing that is read for an instruction is past the end of the program.
LEMMA InstructionReadInside ==
    ASSUME shader \in Shader, NEW p \in Nat, 1 <= p, p < End, WellFormed(p)
    PROVE  /\ InstructionRead(p, InstructionLength(p)) \in Nat
           /\ InstructionRead(p, InstructionLength(p)) < End
  <1> DEFINE end == p + InstructionLength(p)
             name == p + 1 + OperandLength(p + 1, end)
  <1>1. end \in Nat /\ 0 < end /\ end <= End /\ End \in Nat /\ 0 < End
    <2>1. End \in Nat
      BY WordTypes
    <2>2. /\ InstructionLength(p) \in Nat /\ InstructionLength(p) >= 1
          /\ p + InstructionLength(p) <= End
      BY LengthInside
    <2> QED
      BY <2>1, <2>2
  <1>2. HeaderRead(p) \in Nat /\ HeaderRead(p) < End
    BY HeaderReadInside
  <1>3. OperandRead(p + 1, end) \in Nat /\ OperandRead(p + 1, end) < End
    <2> HIDE DEF end
    <2> QED
      BY <1>1, OperandReadInside
  <1>4. ASSUME Decodable(p + 1, end) PROVE name \in Nat
    <2> HIDE DEF end
    <2>1. p + 1 < end
      BY <1>4 DEF Decodable
    <2>2. Words[p + 1] \in Word
      BY <1>1, <2>1, WordTypes
    <2>3. ChainLength(p + 1, end) \in Nat
      BY <1>1, <2>1, ChainLengthType
    <2>4. /\ Len(Words[p + 1].index) \in 0 .. 3
          /\ DOMAIN Words[p + 1].index = 1 .. Len(Words[p + 1].index)
          /\ \A d \in DOMAIN Words[p + 1].index :
                Width(Words[p + 1].index[d]) \in {1, 2} /\ IndexAt(p + 1, end, d) \in Nat
      BY <1>1, <2>1, <2>2, IndexTypes
    <2>5. \A d \in DOMAIN Words[p + 1].index : IndexAt(p + 1, end, d) >= p + 1
      BY <1>1, <2>1, <2>3, <2>4 DEF IndexAt, Width
    <2> DEFINE dims == Len(Words[p + 1].index)
    <2>6. CASE dims = 0
      BY <2>3, <2>6 DEF OperandLength
    <2>7. CASE dims # 0
      <3>1. dims \in DOMAIN Words[p + 1].index
        BY <2>4, <2>7
      <3>2. OperandLength(p + 1, end)
              = IndexAt(p + 1, end, dims) + Width(Words[p + 1].index[dims]) - (p + 1)
        BY <2>7 DEF OperandLength
      <3> HIDE DEF dims
      <3> QED
        BY <2>4, <2>5, <3>1, <3>2
    <2> QED
      BY <2>6, <2>7
  <1>5. CASE Words[p].op \in HsPhase \union {"other"}
    BY <1>2, <1>5 DEF InstructionRead
  <1>6. CASE Words[p].op \notin HsPhase \union {"other"}
    <2>1. Highest({HeaderRead(p), OperandRead(p + 1, end)}) \in Nat
          /\ Highest({HeaderRead(p), OperandRead(p + 1, end)}) < End
      BY <1>1, <1>2, <1>3, HighestBelow
    <2>2. ASSUME Decodable(p + 1, end), name < end
          PROVE  /\ Highest({HeaderRead(p), OperandRead(p + 1, end), name}) \in Nat
                 /\ Highest({HeaderRead(p), OperandRead(p + 1, end), name}) < End
      <3> HIDE DEF end, name
      <3> QED
        BY <1>1, <1>2, <1>3, <1>4, <2>2, HighestBelow
    <2> QED
      BY <1>6, <2>1, <2>2 DEF InstructionRead
  <1> QED
    BY <1>5, <1>6

-----------------------------------------------------------------------------
\* A step of the scan.
LEMMA ScanStep == ScanInv /\ Scan => ScanInv'
  <1> SUFFICES ASSUME ScanInv, Scan PROVE ScanInv'
    OBVIOUS
  <1>1. /\ pending' = pending /\ shader' = shader /\ Words' = Words /\ End' = End
        /\ phase' = phase /\ pending \in Seq(Shader) /\ shader \in Shader
        /\ phase # "idle" => pending # << >>
    BY DEF Scan, ScanNext, ScanEnds, Words, End, ScanInv
  <1>2. End \in Nat
    BY WordTypes DEF ScanInv
  <1>3. CASE ScanNext
    <2> DEFINE n == InstructionLength(at)
    <2>1. at \in Nat /\ 1 <= at /\ at < End /\ WellFormed(at)
      BY <1>2, <1>3 DEF ScanNext, ScanInv
    <2>2. at' = at + n /\ highest' = Highest({highest, InstructionRead(at, n)})
      BY <1>3 DEF ScanNext
    <2>3. n \in Nat /\ at + n <= End
      BY <2>1, LengthInside DEF ScanInv
    <2>4. InstructionRead(at, n) \in Nat /\ InstructionRead(at, n) < End
      BY <2>1, InstructionReadInside DEF ScanInv
    <2>5. highest \in Nat /\ highest < End
      BY DEF ScanInv, ReadsInside
    <2> DEFINE read == InstructionRead(at, n)
    <2>6. highest' = Highest({highest, read}) /\ read \in Nat /\ read < End
      BY <2>2, <2>4
    <2> HIDE DEF read
    <2>7. highest' \in Nat /\ highest' < End
      BY <1>2, <2>5, <2>6, HighestBelow
    <2>8. at' \in 1 .. End
      <3> HIDE DEF n
      <3> QED
        BY <1>2, <2>1, <2>2, <2>3
    <2> QED
      BY <1>1, <2>7, <2>8 DEF ScanInv, ReadsInside
  <1>4. CASE ScanEnds
    <2>1. at' = at
      BY <1>4 DEF ScanEnds
    <2>2. CASE at < End
      <3>1. highest' = Highest({highest, HeaderRead(at)})
        BY <1>4, <2>2 DEF ScanEnds
      <3>2. HeaderRead(at) \in Nat /\ HeaderRead(at) < End
        BY <1>2, <2>2, HeaderReadInside DEF ScanInv
      <3>3. highest \in Nat /\ highest < End
        BY DEF ScanInv, ReadsInside
      <3>4. highest' \in Nat /\ highest' < End
        BY <1>2, <3>1, <3>2, <3>3, HighestBelow
      <3> QED
        BY <1>1, <2>1, <3>4 DEF ScanInv, ReadsInside
    <2>3. CASE ~(at < End)
      <3>1. highest' = highest
        BY <1>4, <2>3 DEF ScanEnds
      <3> QED
        BY <1>1, <2>1, <3>1 DEF ScanInv, ReadsInside
    <2> QED
      BY <2>2, <2>3
  <1> QED
    BY <1>3, <1>4 DEF Scan

\* The creation of a shader begins a scan.
LEMMA CreateStep == ScanInv /\ CreateShader => ScanInv'
  <1> SUFFICES ASSUME ScanInv, CreateShader PROVE ScanInv'
    OBVIOUS
  <1>1. pending' = pending /\ shader' = Head(pending) /\ at' = 1 /\ highest' = 0 /\ pending # << >>
    BY DEF CreateShader, ScanBegins
  <1>2. shader' \in Shader
    BY <1>1, HeadTailProperties DEF ScanInv
  <1>3. Words' \in Seq(Word)
    BY <1>2, ShaderTokensAssumption DEF Words
  <1>4. End' \in Nat /\ End' >= 1
    BY <1>3, LenProperties DEF End
  <1> QED
    BY <1>1, <1>2, <1>4 DEF ScanInv, ReadsInside

\* Every other step leaves the scan alone, and at most goes on to the next shader.
LEMMA OtherStep ==
    ASSUME ScanInv, UNCHANGED tokenVars,
           \/ pending' = pending /\ (phase' # "idle" => phase # "idle")
           \/ pending # << >> /\ pending' = Tail(pending) /\ phase' = "idle"
    PROVE  ScanInv'
  <1>1. shader' = shader /\ at' = at /\ highest' = highest
    BY DEF tokenVars
  <1>2. End' = End
    BY <1>1 DEF End, Words
  <1>3. pending' \in Seq(Shader) /\ (phase' # "idle" => pending' # << >>)
    BY HeadTailProperties DEF ScanInv
  <1> QED
    BY <1>1, <1>2, <1>3 DEF ScanInv, ReadsInside

\* What holds of the scan is kept by every step.
LEMMA ScanInvKept == ScanInv /\ [Next]_vars => ScanInv'
  <1> SUFFICES ASSUME ScanInv, [Next]_vars PROVE ScanInv'
    OBVIOUS
  <1>0. phase # "idle" => pending # << >>
    BY DEF ScanInv
  <1>1. CASE CreateShader
    BY <1>1, CreateStep
  <1>2. CASE CreateShaderRejected
    <2>1. UNCHANGED tokenVars /\ phase' = phase /\ phase = "idle"
      BY <1>2 DEF CreateShaderRejected, sigVars
    <2>2. pending # << >> /\ pending' = Tail(pending)
      BY <1>2 DEF CreateShaderRejected
    <2> QED
      BY <2>1, <2>2, OtherStep
  <1>3. CASE Scan
    BY <1>3, ScanStep
  <1>4. CASE Complete
    <2>1. UNCHANGED tokenVars /\ pending' = pending /\ phase # "idle"
      BY <1>4 DEF Complete, Collect, AssignSemantics
    <2> QED
      BY <2>1, OtherStep
  <1>5. CASE BuildDxbc
    <2>1. UNCHANGED tokenVars /\ pending' = pending /\ phase # "idle"
      BY <1>5 DEF BuildDxbc
    <2> QED
      BY <2>1, OtherStep
  <1>6. CASE BuildDxbcFails
    <2>1. UNCHANGED tokenVars /\ pending' = Tail(pending) /\ phase # "idle" /\ phase' = "idle"
      BY <1>6 DEF BuildDxbcFails
    <2> QED
      BY <1>0, <2>1, OtherStep
  <1>7. CASE DeclareStreamOutput
    <2>1. UNCHANGED tokenVars /\ pending' = pending /\ phase # "idle"
      BY <1>7 DEF DeclareStreamOutput
    <2> QED
      BY <2>1, OtherStep
  <1>8. CASE CreateNative
    <2>1. UNCHANGED tokenVars /\ pending' = Tail(pending) /\ phase # "idle" /\ phase' = "idle"
      BY <1>8 DEF CreateNative
    <2> QED
      BY <1>0, <2>1, OtherStep
  <1>9. CASE CreateNativeFails
    <2>1. UNCHANGED tokenVars /\ pending' = Tail(pending) /\ phase # "idle" /\ phase' = "idle"
      BY <1>9 DEF CreateNativeFails
    <2> QED
      BY <1>0, <2>1, OtherStep
  <1>10. ASSUME NEW v \in DOMAIN created, NEW regs \in CreatedShader(v).layouts, ResolveElements(v, regs)
         PROVE  ScanInv'
    <2>1. UNCHANGED tokenVars /\ pending' = pending /\ phase' = phase
      BY <1>10 DEF ResolveElements, sigVars
    <2> QED
      BY <2>1, OtherStep
  <1>11. CASE UNCHANGED vars
    <2>1. UNCHANGED tokenVars /\ pending' = pending /\ phase' = phase
      BY <1>11 DEF vars, sigVars
    <2> QED
      BY <2>1, OtherStep
  <1> QED
    BY <1>1, <1>2, <1>3, <1>4, <1>5, <1>6, <1>7, <1>8, <1>9, <1>10, <1>11 DEF Next

\* It holds of the first shader before its scan begins.
LEMMA ScanInvInit == Init => ScanInv
  <1> SUFFICES ASSUME Init PROVE ScanInv
    OBVIOUS
  <1>1. pending \in Seq(Shader) /\ pending # << >> /\ shader = Head(pending)
    BY ShaderContainerAssumption DEF Init
  <1>2. shader \in Shader
    BY <1>1, HeadTailProperties
  <1>3. End \in Nat /\ End >= 1
    <2>1. Words \in Seq(Word)
      BY <1>2, ShaderTokensAssumption DEF Words
    <2> QED
      BY <2>1, LenProperties DEF End
  <1>4. at = 1 /\ highest = 0 /\ phase = "idle"
    BY DEF Init
  <1> QED
    BY <1>1, <1>2, <1>3, <1>4 DEF ScanInv, ReadsInside

\* The scan stays between the first word and the end of the program, and the
\* shader it is of is one of those there are.
THEOREM ScanInvariant == Spec => []ScanInv
  BY ScanInvInit, ScanInvKept, PTL DEF Spec

\* No word past the end of a program is read, whatever its lengths say
\* (tritonDxbc.c:419-433, 549-592, 682-684).
THEOREM ScanReadsInside == Spec => []ReadsInside
  <1>1. ScanInv => ReadsInside
    BY DEF ScanInv
  <1> QED
    BY ScanInvariant, <1>1, PTL

-----------------------------------------------------------------------------
\* What holds of 0, and of i when it holds of i - 1, holds up to n.
LEMMA Induct ==
    ASSUME NEW n \in Nat, NEW S, 0 \in S, \A i \in 1 .. n : i - 1 \in S => i \in S
    PROVE  n \in S /\ \A i \in 0 .. n : i \in S
  <1> DEFINE T == {i \in 0 .. n : i \notin S}
  <1>1. CASE T = {}
    <2>1. \A i \in 0 .. n : i \in S
      BY <1>1
    <2> QED
      BY <2>1
  <1>2. CASE T # {}
    <2>1. T \in SUBSET Nat
      OBVIOUS
    <2>2. PICK x \in T : \A y \in T : x <= y
      <3> HIDE DEF T
      <3> QED
        BY <1>2, <2>1, LeastNatural
    <2>3. x \in 1 .. n /\ x - 1 \in 0 .. n
      BY <2>2
    <2>4. x - 1 \in S
      BY <2>2, <2>3
    <2> QED
      BY <2>2, <2>3, <2>4
  <1> QED
    BY <1>1, <1>2

\* f is what a recursion over 1 .. n computes from b, with a step for each i
\* that stays in A.
Computes(f, n, A, b, st) ==
    f \in [0 .. n -> A] /\ f[0] = b /\ \A i \in 1 .. n : f[i] = st[i][f[i - 1]]

\* Every such recursion computes something.
LEMMA Recursion ==
    ASSUME NEW n \in Nat, NEW A, NEW b \in A, NEW st, \A i \in 1 .. n, a \in A : st[i][a] \in A
    PROVE  \E f : Computes(f, n, A, b, st)
  <1> DEFINE S == {k \in 0 .. n : \E f : Computes(f, k, A, b, st)}
  <1>1. 0 \in S
    <2>1. Computes([i \in 0 .. 0 |-> b], 0, A, b, st)
      BY DEF Computes
    <2> QED
      BY <2>1
  <1>2. ASSUME NEW i \in 1 .. n, i - 1 \in S PROVE i \in S
    <2>1. PICK f : Computes(f, i - 1, A, b, st)
      BY <1>2
    <2>2. f \in [0 .. i - 1 -> A] /\ f[0] = b /\ \A j \in 1 .. i - 1 : f[j] = st[j][f[j - 1]]
      BY <2>1 DEF Computes
    <2> DEFINE g == [j \in 0 .. i |-> IF j = i THEN st[i][f[i - 1]] ELSE f[j]]
    <2>3. f[i - 1] \in A /\ \A j \in 0 .. i - 1 : f[j] \in A
      BY <2>2
    <2>4. g \in [0 .. i -> A]
      BY <2>2, <2>3
    <2>5. g[0] = b
      BY <2>2
    <2>6. ASSUME NEW j \in 1 .. i PROVE g[j] = st[j][g[j - 1]]
      <3>1. CASE j = i
        BY <3>1
      <3>2. CASE j # i
        <4>1. j \in 1 .. i - 1 /\ j \in 0 .. i /\ j - 1 \in 0 .. i /\ j - 1 # i
          BY <3>2
        <4> QED
          BY <2>2, <3>2, <4>1
      <3> QED
        BY <3>1, <3>2
    <2> HIDE DEF g
    <2>7. Computes(g, i, A, b, st)
      BY <2>4, <2>5, <2>6 DEF Computes
    <2> QED
      BY <2>7
  <1> HIDE DEF S
  <1>3. n \in S
    BY <1>1, <1>2, Induct
  <1> QED
    BY <1>3 DEF S

\* The least of a set of naturals.
LEMMA MinOf ==
    ASSUME NEW S \in SUBSET Nat, S # {}
    PROVE  Min(S) \in S /\ Min(S) \in Nat /\ \A y \in S : Min(S) <= y
  <1>1. PICK x \in S : \A y \in S : x <= y
    BY LeastNatural
  <1>2. Min(S) \in S /\ \A y \in S : Min(S) <= y
    BY <1>1 DEF Min
  <1> QED
    BY <1>2

\* The highest of a set of naturals with a bound.
LEMMA HighestOf ==
    ASSUME NEW b \in Nat, NEW S \in SUBSET (0 .. b)
    PROVE  /\ Highest(S) \in S \union {0} /\ Highest(S) \in 0 .. b
           /\ \A x \in S : x <= Highest(S)
  <1> DEFINE U == S \union {0}
             T == {b - x : x \in U}
  <1>1. T \in SUBSET Nat /\ T # {}
    <2>1. \A x \in U : x \in 0 .. b
      OBVIOUS
    <2>2. \A x \in 0 .. b : b - x \in Nat
      OBVIOUS
    <2>3. b - 0 \in T
      OBVIOUS
    <2> HIDE DEF U
    <2> QED
      BY <2>1, <2>2, <2>3
  <1>2. PICK t \in T : \A y \in T : t <= y
    BY <1>1, LeastNatural
  <1>3. PICK m \in U : t = b - m
    BY <1>2
  <1>4. \A y \in U : m >= y
    BY <1>2, <1>3
  <1>5. Max(U) \in U /\ \A y \in U : Max(U) >= y
    BY <1>4 DEF Max
  <1>6. U \in SUBSET (0 .. b)
    OBVIOUS
  <1>7. Highest(S) = Max(U)
    BY DEF Highest
  <1>8. S \subseteq U
    OBVIOUS
  <1> HIDE DEF U
  <1>9. Highest(S) \in U /\ Highest(S) \in 0 .. b /\ \A x \in S : x <= Highest(S)
    BY <1>5, <1>6, <1>7, <1>8
  <1> QED
    BY <1>9 DEF U

-----------------------------------------------------------------------------
\* What a declaration, the scan and an entry of a signature are made of.
DeclType == [reg: Nat, mask: SUBSET Component, sysval: Nat, stream: 0 .. 3]

\* The lists of declarations that fit in the arrays of the scan.
DeclLists == {ds \in Seq(DeclType) : Len(ds) <= MaxSigEntries}

ScanType ==
    [in: DeclLists, out: DeclLists, patch: DeclLists,
     sysOut: {os \in Seq(SysOut) : Len(os) <= 4},
     stream: 0 .. 3, cStream: 1 .. 4, patchPhase: BOOLEAN]

\* A declaration is added, merged or dropped, and the array never overflows.
LEMMA DeclAddType ==
    ASSUME NEW ds \in DeclLists, NEW reg \in Nat, NEW mask \in SUBSET Component,
           NEW sysval \in Nat, NEW stream \in 0 .. 3
    PROVE  DeclAdd(ds, reg, mask, sysval, stream) \in DeclLists
  <1> DEFINE same == {i \in DOMAIN ds : Merges(ds[i], reg, mask, stream)}
             new == [reg |-> reg, mask |-> mask, sysval |-> sysval, stream |-> stream]
  <1>1. /\ ds \in Seq(DeclType) /\ Len(ds) \in Nat /\ Len(ds) <= MaxSigEntries
        /\ DOMAIN ds = 1 .. Len(ds) /\ \A i \in 1 .. Len(ds) : ds[i] \in DeclType
    BY LenProperties, ElementOfSeq DEF DeclLists
  <1>2. new \in DeclType
    BY DEF DeclType
  <1>3. CASE same # {}
    <2> DEFINE m == Min(same)
               merged == [reg |-> ds[m].reg, mask |-> ds[m].mask \union mask,
                          sysval |-> IF sysval # 0 /\ ds[m].sysval = 0 THEN sysval ELSE ds[m].sysval,
                          stream |-> ds[m].stream]
    <2>1. m \in same
      <3>1. same \in SUBSET Nat
        BY <1>1
      <3> HIDE DEF same
      <3> QED
        BY <1>3, <3>1, MinOf
    <2>2. m \in 1 .. Len(ds) /\ ds[m] \in DeclType
      BY <1>1, <2>1
    <2>3. merged \in DeclType
      <3> HIDE DEF same
      <3> QED
        BY <2>2 DEF DeclType
    <2>4. DeclAdd(ds, reg, mask, sysval, stream) = [ds EXCEPT ![m] = merged]
      <3>1. DeclAdd(ds, reg, mask, sysval, stream)
              = [ds EXCEPT ![m].mask = @ \union mask,
                           ![m].sysval = IF sysval # 0 /\ @ = 0 THEN sysval ELSE @]
        BY <1>3 DEF DeclAdd
      <3> HIDE DEF same
      <3> QED
        BY <1>1, <2>2, <3>1 DEF DeclType
    <2> HIDE DEF m, merged
    <2>5. [ds EXCEPT ![m] = merged] \in Seq(DeclType) /\ Len([ds EXCEPT ![m] = merged]) = Len(ds)
      BY <1>1, <2>2, <2>3, ExceptSeq
    <2> QED
      BY <1>1, <2>4, <2>5 DEF DeclLists
  <1>4. CASE same = {} /\ Len(ds) < MaxSigEntries
    <2>1. DeclAdd(ds, reg, mask, sysval, stream) = Append(ds, new)
      BY <1>4 DEF DeclAdd
    <2>2. Append(ds, new) \in Seq(DeclType) /\ Len(Append(ds, new)) = Len(ds) + 1
      <3> HIDE DEF new
      <3> QED
        BY <1>1, <1>2, AppendProperties
    <2>3. MaxSigEntries \in Nat
      BY ShaderTokensAssumption
    <2> HIDE DEF new, same
    <2> QED
      BY <1>1, <1>4, <2>1, <2>2, <2>3 DEF DeclLists
  <1>5. CASE same = {} /\ ~ (Len(ds) < MaxSigEntries)
    BY <1>5 DEF DeclAdd
  <1> QED
    BY <1>3, <1>4, <1>5

\* What a declaration of an input adds keeps the type of the scan.
LEMMA WithInputType ==
    ASSUME NEW s \in ScanType, NEW type, NEW reg \in Nat, NEW mask \in SUBSET Component, NEW sysval \in Nat
    PROVE  WithInput(s, type, reg, mask, sysval) \in ScanType
  <1>1. /\ DeclAdd(s.in, reg, mask, sysval, 0) \in DeclLists
        /\ DeclAdd(s.patch, reg, mask, sysval, 0) \in DeclLists
        /\ DeclAdd(s.in, NoReg, {0}, 7, 0) \in DeclLists
    <2>1. s.in \in DeclLists /\ s.patch \in DeclLists
      BY DEF ScanType
    <2>2. NoReg \in Nat /\ {0} \in SUBSET Component /\ 7 \in Nat /\ 0 \in 0 .. 3
      BY ShaderTokensAssumption DEF Component
    <2> QED
      BY <2>1, <2>2, DeclAddType
  <1> QED
    BY <1>1 DEF WithInput, ScanType

\* So does what a declaration of an output adds.
LEMMA WithOutputType ==
    ASSUME NEW s \in ScanType, NEW type, NEW reg \in Nat, NEW mask \in SUBSET Component, NEW sysval \in Nat
    PROVE  WithOutput(s, type, reg, mask, sysval) \in ScanType
  <1> DEFINE stream == IF shader.stage = "GS" THEN s.stream ELSE 0
  <1>1. s.patch \in DeclLists /\ s.out \in DeclLists /\ stream \in 0 .. 3
    BY DEF ScanType
  <1>2. /\ DeclAdd(s.patch, reg, mask, sysval, 0) \in DeclLists
        /\ DeclAdd(s.out, reg, mask, sysval, stream) \in DeclLists
    <2> HIDE DEF stream
    <2>1. 0 \in 0 .. 3
      OBVIOUS
    <2> QED
      BY <1>1, <2>1, DeclAddType
  <1>3. ASSUME type \in SysOut, Len(s.sysOut) < 4
        PROVE  Append(s.sysOut, type) \in {os \in Seq(SysOut) : Len(os) <= 4}
    <2>1. s.sysOut \in Seq(SysOut)
      BY DEF ScanType
    <2>2. Append(s.sysOut, type) \in Seq(SysOut) /\ Len(Append(s.sysOut, type)) = Len(s.sysOut) + 1
      BY <1>3, <2>1, AppendProperties
    <2>3. Len(s.sysOut) \in Nat
      BY <2>1, LenProperties
    <2> QED
      BY <1>3, <2>2, <2>3
  <1>4. CASE type = "output" /\ s.patchPhase
    <2>1. WithOutput(s, type, reg, mask, sysval) = [s EXCEPT !.patch = DeclAdd(s.patch, reg, mask, sysval, 0)]
      BY <1>4 DEF WithOutput, SysOut
    <2> QED
      BY <1>2, <2>1 DEF ScanType
  <1>5. CASE type = "output" /\ ~ s.patchPhase
    <2>1. WithOutput(s, type, reg, mask, sysval) = [s EXCEPT !.out = DeclAdd(s.out, reg, mask, sysval, stream)]
      BY <1>5 DEF WithOutput, SysOut
    <2> HIDE DEF stream
    <2> QED
      BY <1>2, <2>1 DEF ScanType
  <1>6. CASE type # "output"
    <2>1. CASE type \in SysOut /\ shader.stage = "PS" /\ Len(s.sysOut) < 4
      <3>1. WithOutput(s, type, reg, mask, sysval) = [s EXCEPT !.sysOut = Append(s.sysOut, type)]
        BY <1>6, <2>1 DEF WithOutput
      <3> QED
        BY <1>3, <2>1, <3>1 DEF ScanType
    <2>2. CASE ~ (type \in SysOut /\ shader.stage = "PS" /\ Len(s.sysOut) < 4)
      BY <1>6, <2>2 DEF WithOutput
    <2> QED
      BY <2>1, <2>2
  <1> QED
    BY <1>4, <1>5, <1>6

\* And what a declaration of a stream does.
LEMMA WithStreamType ==
    ASSUME NEW s \in ScanType, NEW type, NEW reg \in Nat
    PROVE  WithStream(s, type, reg) \in ScanType
  <1>1. CASE type = "stream" /\ reg < 4
    <2>1. {s.cStream, reg + 1} \in SUBSET (0 .. 4) /\ 4 \in Nat /\ s.cStream >= 1
      BY <1>1 DEF ScanType
    <2>2. /\ Highest({s.cStream, reg + 1}) \in 0 .. 4
          /\ \A x \in {s.cStream, reg + 1} : x <= Highest({s.cStream, reg + 1})
      <3> DEFINE U == {s.cStream, reg + 1}
      <3>1. U \in SUBSET (0 .. 4) /\ 4 \in Nat
        BY <2>1
      <3> HIDE DEF U
      <3>2. Highest(U) \in 0 .. 4 /\ \A x \in U : x <= Highest(U)
        BY <3>1, HighestOf
      <3> QED
        BY <3>2 DEF U
    <2>3. Highest({s.cStream, reg + 1}) \in 1 .. 4
      BY <2>1, <2>2
    <2>4. WithStream(s, type, reg) = [s EXCEPT !.stream = reg, !.cStream = Highest({s.cStream, reg + 1})]
      BY <1>1 DEF WithStream
    <2>5. reg \in 0 .. 3
      BY <1>1
    <2> QED
      BY <2>3, <2>4, <2>5 DEF ScanType
  <1>2. CASE ~ (type = "stream" /\ reg < 4)
    BY <1>2 DEF WithStream
  <1> QED
    BY <1>1, <1>2

\* The register of an operand is a number.
LEMMA OperandRegType ==
    ASSUME shader \in Shader, NEW p \in Nat, NEW end \in Nat, Words[p] \in Word, p < end
    PROVE  OperandReg(p, end) \in Nat
  <1> DEFINE dims == Len(Words[p].index)
  <1>1. dims \in 0 .. 3 /\ (dims # 0 => IndexAt(p, end, dims) \in Nat)
    <2>1. dims \in 0 .. 3 /\ DOMAIN Words[p].index = 1 .. dims
      BY IndexTypes
    <2>2. \A d \in DOMAIN Words[p].index : IndexAt(p, end, d) \in Nat
      BY IndexTypes
    <2> HIDE DEF dims
    <2> QED
      BY <2>1, <2>2
  <1>2. \A k \in Int : WordValue(k) \in Nat
    BY WordTypes
  <1>3. CASE dims = 0
    BY <1>3 DEF OperandReg
  <1>4. CASE dims # 0
    <2>1. OperandReg(p, end) = WordValue(IndexAt(p, end, dims))
      BY <1>4 DEF OperandReg
    <2>2. IndexAt(p, end, dims) \in Int
      BY <1>1, <1>4
    <2> HIDE DEF dims
    <2> QED
      BY <2>1, <2>2, <1>2
  <1> QED
    BY <1>3, <1>4

\* Whatever an instruction is, the scan keeps its type.
LEMMA ScannedType ==
    ASSUME shader \in Shader, scan \in ScanType, NEW p \in Nat, 1 <= p, NEW n \in Nat, p + n <= End
    PROVE  Scanned(p, n) \in ScanType
  <1> DEFINE op == Words[p].op
             end == p + n
             type == Words[p + 1].type
             mask == Words[p + 1].mask
             reg == OperandReg(p + 1, end)
             nameAt == p + 1 + OperandLength(p + 1, end)
             sysval == IF op \in NamedDcl /\ nameAt < end THEN WordValue(nameAt) % 65536 ELSE 0
  <1>1. ASSUME Decodable(p + 1, end)
        PROVE  reg \in Nat /\ mask \in SUBSET Component /\ sysval \in Nat
    <2>1. p + 1 < end /\ p + 1 \in Nat /\ end \in Nat /\ end <= End
      BY <1>1 DEF Decodable
    <2>2. Words[p + 1] \in Word
      BY <2>1, WordTypes
    <2>3. reg \in Nat
      <3> HIDE DEF end
      <3> QED
        BY <2>1, <2>2, OperandRegType
    <2>4. mask \in SUBSET Component
      BY <2>2 DEF Word
    <2>5. sysval \in Nat
      <3>1. \A k \in DOMAIN Words : Words[k].val \in Nat
        BY WordTypes DEF Word
      <3>2. WordValue(nameAt) \in Nat
        BY <3>1 DEF WordValue
      <3> HIDE DEF nameAt, op, end
      <3> QED
        BY <3>2
    <2> QED
      BY <2>3, <2>4, <2>5
  <1>2. CASE op = "hs_control_point_phase"
    <2>1. Scanned(p, n) = [scan EXCEPT !.patchPhase = FALSE]
      BY <1>2 DEF Scanned, InputDcl, OutputDcl, HsPhase
    <2> QED
      BY <2>1 DEF ScanType
  <1>3. CASE op \in {"hs_fork_phase", "hs_join_phase"}
    <2>1. Scanned(p, n) = [scan EXCEPT !.patchPhase = TRUE]
      BY <1>3 DEF Scanned, InputDcl, OutputDcl, HsPhase
    <2> QED
      BY <2>1 DEF ScanType
  <1>4. CASE op = "dcl_stream" /\ Decodable(p + 1, end)
    <2>1. Scanned(p, n) = WithStream(scan, type, reg)
      BY <1>4 DEF Scanned, InputDcl, OutputDcl, HsPhase
    <2> HIDE DEF reg, type
    <2> QED
      BY <1>1, <1>4, <2>1, WithStreamType
  <1>5. CASE op \in InputDcl /\ Decodable(p + 1, end)
    <2>1. Scanned(p, n) = WithInput(scan, type, reg, mask, sysval)
      BY <1>5 DEF Scanned, InputDcl, OutputDcl, HsPhase
    <2> HIDE DEF reg, type, mask, sysval
    <2> QED
      BY <1>1, <1>5, <2>1, WithInputType
  <1>6. CASE op \in OutputDcl /\ Decodable(p + 1, end)
    <2>1. Scanned(p, n) = WithOutput(scan, type, reg, mask, sysval)
      BY <1>6 DEF Scanned, InputDcl, OutputDcl, HsPhase
    <2> HIDE DEF reg, type, mask, sysval
    <2> QED
      BY <1>1, <1>6, <2>1, WithOutputType
  <1>7. CASE /\ op \notin HsPhase
             /\ op \notin {"dcl_stream"} \union InputDcl \union OutputDcl \/ ~ Decodable(p + 1, end)
    <2>1. Scanned(p, n) = scan
      BY <1>7 DEF Scanned, InputDcl, OutputDcl, HsPhase
    <2> QED
      BY <2>1
  <1> QED
    BY <1>2, <1>3, <1>4, <1>5, <1>6, <1>7 DEF HsPhase

-----------------------------------------------------------------------------
\* The names of the elements of a signature.
NameType ==
    {"ATTRIB", "SV_Position", "SV_ClipDistance", "SV_CullDistance", "SV_RenderTargetArrayIndex",
     "SV_ViewportArrayIndex", "SV_VertexID", "SV_PrimitiveID", "SV_InstanceID", "SV_IsFrontFace",
     "SV_SampleIndex", "SV_InsideTessFactor", "SV_TessFactor", "SV_Target", "SV_Depth", "SV_Coverage",
     "SV_DepthGreaterEqual", "SV_DepthLessEqual", "SV_StencilRef"}

EntryType ==
    [sysval: Nat, reg: Nat, mask: SUBSET Component, comp: Nat, minPrec: Nat, stream: Nat,
     name: NameType \union {NoName}, dxSysValue: Nat, semIdx: Nat \union {Unset}]

\* An entry that has no number yet.
RawType == {e \in EntryType : e.semIdx = Unset}

\* The entries that fit in an array of the scratch memory.
EntryLists == {es \in Seq(EntryType) : Len(es) <= MaxSigEntries}

RawLists == {es \in Seq(RawType) : Len(es) <= MaxSigEntries}

\* The least of two numbers.
LEMMA MinOfTwo ==
    ASSUME NEW a \in Nat, NEW b \in Nat
    PROVE  Min({a, b}) \in Nat /\ Min({a, b}) <= a /\ Min({a, b}) <= b /\ Min({a, b}) \in {a, b}
  <1> DEFINE S == {a, b}
  <1>1. S \in SUBSET Nat /\ S # {} /\ a \in S /\ b \in S
    OBVIOUS
  <1> HIDE DEF S
  <1>2. Min(S) \in Nat /\ Min(S) <= a /\ Min(S) <= b /\ Min(S) \in S
    BY <1>1, MinOf
  <1> QED
    BY <1>2 DEF S

\* What the runtime hands over is read up to the size of the array.
LEMMA DdiType ==
    ASSUME shader \in Shader, NEW cls \in Class
    PROVE  /\ Len(Ddi(cls)) \in Nat /\ Len(Ddi(cls)) <= MaxSigEntries
           /\ DOMAIN Ddi(cls) = 1 .. Len(Ddi(cls))
           /\ \A i \in 1 .. Len(Ddi(cls)) : Ddi(cls)[i] \in DdiEntry
  <1> DEFINE ddi == shader.ddi[cls]
             n == Min({Len(ddi), MaxSigEntries})
  <1>1. ddi \in Seq(DdiEntry) /\ MaxSigEntries \in Nat
    BY ShaderTokensAssumption DEF Class
  <1>2. Len(ddi) \in Nat /\ \A i \in 1 .. Len(ddi) : ddi[i] \in DdiEntry
    <2> HIDE DEF ddi
    <2> QED
      BY <1>1, LenProperties, ElementOfSeq
  <1>3. n \in Nat /\ n <= Len(ddi) /\ n <= MaxSigEntries
    <2> HIDE DEF ddi
    <2> QED
      BY <1>1, <1>2, MinOfTwo
  <1> HIDE DEF n
  <1>4. /\ Truncated(ddi) = SubSeq(ddi, 1, n)
        /\ SubSeq(ddi, 1, n) \in Seq(DdiEntry) /\ Len(SubSeq(ddi, 1, n)) = n
    <2>1. \A i \in 1 .. n : ddi[i] \in DdiEntry
      BY <1>2, <1>3
    <2>2. SubSeq(ddi, 1, n) \in Seq(DdiEntry)
          /\ Len(SubSeq(ddi, 1, n)) = IF 1 <= n THEN n - 1 + 1 ELSE 0
      <3> HIDE DEF ddi
      <3> QED
        BY <1>3, <2>1, SubSeqProperties
    <2>3. Len(SubSeq(ddi, 1, n)) = n
      BY <1>3, <2>2
    <2>4. Truncated(ddi) = SubSeq(ddi, 1, n)
      BY DEF Truncated, n
    <2> QED
      BY <2>2, <2>3, <2>4
  <1> DEFINE s == Truncated(ddi)
  <1>5. DOMAIN s = 1 .. n /\ \A i \in 1 .. n : s[i] \in DdiEntry
    BY <1>3, <1>4, LenProperties, ElementOfSeq
  <1>6. Ddi(cls) = [i \in 1 .. n |-> Read(s[i])]
    <2>1. Ddi(cls) = [i \in DOMAIN s |-> Read(s[i])]
      BY DEF Ddi
    <2> HIDE DEF s
    <2> QED
      BY <1>5, <2>1
  <1>7. \A i \in 1 .. n : Read(s[i]) \in DdiEntry
    <2> HIDE DEF s
    <2> QED
      BY <1>5 DEF Read, DdiEntry, Absent
  <1> HIDE DEF s
  <1>8. Ddi(cls) \in Seq(DdiEntry)
    BY <1>3, <1>6, <1>7, SeqDef
  <1>9. Len(Ddi(cls)) = n
    BY <1>3, <1>6, <1>8, LenProperties
  <1> QED
    BY <1>3, <1>6, <1>7, <1>9

\* What the scan found of a class.
LEMMA DeclsType ==
    ASSUME scan \in ScanType, NEW cls \in Class
    PROVE  /\ Decls(cls) \in DeclLists /\ Len(Decls(cls)) \in Nat
           /\ DOMAIN Decls(cls) = 1 .. Len(Decls(cls))
           /\ \A i \in 1 .. Len(Decls(cls)) : Decls(cls)[i] \in DeclType
  <1>1. Decls(cls) \in DeclLists
    BY DEF Decls, Class, ScanType
  <1> QED
    BY <1>1, LenProperties, ElementOfSeq DEF DeclLists

\* An entry as it begins.
LEMMA EntryIsEntry ==
    ASSUME NEW d, d.sysval \in Nat, d.reg \in Nat, d.mask \in SUBSET Component,
           NEW stream \in Nat, NEW comp \in Nat, NEW minPrec \in Nat
    PROVE  Entry(d, stream, comp, minPrec) \in RawType
  BY DEF Entry, RawType, EntryType, NoName, Unset

\* One entry of the runtime's is taken or dropped.
LEMMA AttributeType ==
    ASSUME NEW kept \in Seq(RawType), NEW d \in DdiEntry, NEW cls
    PROVE  /\ Attribute(kept, d, cls) \in Seq(RawType)
           /\ Len(Attribute(kept, d, cls)) \in {Len(kept), Len(kept) + 1}
           /\ \A i \in 1 .. Len(kept) : Attribute(kept, d, cls)[i] = kept[i]
  <1> DEFINE stream == IF Streams(cls) > 1 THEN d.stream ELSE 0
             e == Entry(d, stream, d.comp, d.minPrec)
  <1>1. e \in RawType
    <2>1. stream \in Nat /\ d.comp \in Nat /\ d.minPrec \in Nat /\ d.sysval \in Nat /\ d.reg \in Nat
          /\ d.mask \in SUBSET Component
      BY DEF DdiEntry
    <2> HIDE DEF stream
    <2> QED
      BY <2>1, EntryIsEntry
  <1>2. Attribute(kept, d, cls) \in {kept, Append(kept, e)}
    BY DEF Attribute
  <1> HIDE DEF e
  <1> QED
    BY <1>1, <1>2, AppendProperties

\* f has the entries kept of the first i the runtime hands over.
AttributedBy(f, cls) ==
    /\ f \in [0 .. Len(Ddi(cls)) -> Seq(RawType)] /\ f[0] = << >>
    /\ \A i \in 1 .. Len(Ddi(cls)) : f[i] = Attribute(f[i - 1], Ddi(cls)[i], cls)
    /\ Attributed(cls) = f[Len(Ddi(cls))]

\* The entries are taken one after the other.
LEMMA AttributedSteps ==
    ASSUME shader \in Shader, NEW cls \in Class
    PROVE  \E f : AttributedBy(f, cls)
  <1> DEFINE n == Len(Ddi(cls))
             A == Seq(RawType)
             b == << >>
             st == [i \in 1 .. n |-> [a \in A |-> Attribute(a, Ddi(cls)[i], cls)]]
             F == CHOOSE f : f = [k \in 0 .. n |-> IF k = 0 THEN b ELSE Attribute(f[k - 1], Ddi(cls)[k], cls)]
  <1>1. Attributed(cls) = F[n]
    BY DEF Attributed
  <1>2. n \in Nat /\ b \in A /\ \A i \in 1 .. n, a \in A : Attribute(a, Ddi(cls)[i], cls) \in A
    <2>1. n \in Nat /\ \A i \in 1 .. n : Ddi(cls)[i] \in DdiEntry
      BY DdiType
    <2> QED
      BY <2>1, AttributeType
  <1>3. \A i \in 1 .. n, a \in A : st[i][a] = Attribute(a, Ddi(cls)[i], cls) /\ st[i][a] \in A
    BY <1>2
  <1> HIDE DEF n, A, b, st
  <1>4. PICK f : Computes(f, n, A, b, st)
    BY <1>2, <1>3, Recursion
  <1>5. f \in [0 .. n -> A] /\ f[0] = b /\ \A i \in 1 .. n : f[i] = Attribute(f[i - 1], Ddi(cls)[i], cls)
    <2>1. f \in [0 .. n -> A] /\ f[0] = b /\ \A i \in 1 .. n : f[i] = st[i][f[i - 1]]
      BY <1>4 DEF Computes
    <2>2. \A i \in 1 .. n : f[i - 1] \in A
      <3>1. \A i \in 1 .. n : i - 1 \in 0 .. n
        BY <1>2
      <3> QED
        BY <2>1, <3>1
    <2> QED
      BY <1>3, <2>1, <2>2
  <1>6. f = [k \in 0 .. n |-> IF k = 0 THEN b ELSE Attribute(f[k - 1], Ddi(cls)[k], cls)]
    BY <1>2, <1>5
  <1>7. F = [k \in 0 .. n |-> IF k = 0 THEN b ELSE Attribute(F[k - 1], Ddi(cls)[k], cls)]
    BY <1>6
  <1> HIDE DEF F
  <1>8. F[0] = b /\ \A i \in 1 .. n : F[i] = Attribute(F[i - 1], Ddi(cls)[i], cls)
    BY <1>2, <1>7
  <1> DEFINE S == {k \in 0 .. n : F[k] \in A}
  <1>9. 0 \in S /\ \A i \in 1 .. n : i - 1 \in S => i \in S
    BY <1>2, <1>8
  <1>10. \A i \in 0 .. n : i \in S
    <2> HIDE DEF S
    <2> QED
      BY <1>2, <1>9, Induct
  <1>11. F \in [0 .. n -> A]
    BY <1>7, <1>10
  <1>12. AttributedBy(F, cls)
    BY <1>1, <1>8, <1>11 DEF AttributedBy, n, A, b
  <1> QED
    BY <1>12

\* What is kept of the entries of the runtime fits in the array.
LEMMA AttributedType ==
    ASSUME shader \in Shader, NEW cls \in Class
    PROVE  Attributed(cls) \in RawLists
  <1> DEFINE n == Len(Ddi(cls))
  <1>1. PICK f : AttributedBy(f, cls)
    BY AttributedSteps
  <1>2. /\ n \in Nat /\ n <= MaxSigEntries
        /\ \A i \in 1 .. n : Ddi(cls)[i] \in DdiEntry
    BY DdiType
  <1>3. /\ f \in [0 .. n -> Seq(RawType)] /\ f[0] = << >> /\ Attributed(cls) = f[n]
        /\ \A i \in 1 .. n : f[i] = Attribute(f[i - 1], Ddi(cls)[i], cls)
    BY <1>1 DEF AttributedBy
  <1> HIDE DEF n
  <1> DEFINE S == {i \in 0 .. n : Len(f[i]) <= i}
  <1>4. 0 \in S
    BY <1>2, <1>3
  <1>5. ASSUME NEW i \in 1 .. n, i - 1 \in S PROVE i \in S
    <2>1. f[i - 1] \in Seq(RawType) /\ Len(f[i - 1]) \in Nat
      <3>1. i - 1 \in 0 .. n
        BY <1>2
      <3> QED
        BY <1>3, <3>1, LenProperties
    <2>2. Len(f[i]) \in {Len(f[i - 1]), Len(f[i - 1]) + 1}
      BY <1>2, <1>3, <2>1, AttributeType
    <2> QED
      BY <1>5, <2>1, <2>2
  <1>6. n \in S
    <2> HIDE DEF S
    <2> QED
      BY <1>2, <1>4, <1>5, Induct
  <1>7. MaxSigEntries \in Nat /\ f[n] \in Seq(RawType) /\ Len(f[n]) \in Nat
    BY <1>2, <1>3, LenProperties, ShaderTokensAssumption
  <1> QED
    BY <1>2, <1>3, <1>6, <1>7 DEF RawLists

\* A synthesised entry is one.
LEMMA SynthesisedType ==
    ASSUME shader \in Shader, NEW cls \in Class, NEW decl \in DeclType
    PROVE  Synthesised(cls, decl) \in RawType
  <1> DEFINE ks == TypedBy(cls, decl)
             comp == IF ks = {} THEN 0 ELSE Ddi(cls)[Min(ks)].comp
             minPrec == IF ks = {} THEN 0 ELSE Ddi(cls)[Min(ks)].minPrec
  <1>1. comp \in Nat /\ minPrec \in Nat
    <2>1. ks \in SUBSET Nat /\ \A k \in ks : Ddi(cls)[k] \in DdiEntry
      BY DdiType DEF TypedBy
    <2> HIDE DEF ks
    <2>2. CASE ks # {}
      <3>1. Min(ks) \in ks
        BY <2>1, <2>2, MinOf
      <3> QED
        BY <2>1, <2>2, <3>1 DEF DdiEntry
    <2>3. CASE ks = {}
      BY <2>3
    <2> QED
      BY <2>2, <2>3
  <1>2. decl.sysval \in Nat /\ decl.reg \in Nat /\ decl.mask \in SUBSET Component /\ decl.stream \in Nat
    BY DEF DeclType
  <1>3. Synthesised(cls, decl) = Entry(decl, decl.stream, comp, minPrec)
    BY DEF Synthesised
  <1> HIDE DEF comp, minPrec
  <1> QED
    BY <1>1, <1>2, <1>3, EntryIsEntry

\* A declaration has an entry already, gets one, or does not fit.
LEMMA SynthesiseType ==
    ASSUME shader \in Shader, NEW cls \in Class, NEW kept \in RawLists, NEW decl \in DeclType
    PROVE  /\ Synthesise(kept, decl, cls) \in RawLists
           /\ Len(Synthesise(kept, decl, cls)) \in {Len(kept), Len(kept) + 1}
           /\ \A i \in 1 .. Len(kept) : Synthesise(kept, decl, cls)[i] = kept[i]
  <1> DEFINE e == Synthesised(cls, decl)
  <1>1. /\ kept \in Seq(RawType) /\ Len(kept) \in Nat /\ Len(kept) <= MaxSigEntries
        /\ MaxSigEntries \in Nat /\ e \in RawType
    BY SynthesisedType, LenProperties, ShaderTokensAssumption DEF RawLists
  <1>2. CASE Present(kept, decl) \/ Len(kept) >= MaxSigEntries
    BY <1>1, <1>2 DEF Synthesise
  <1>3. CASE ~ (Present(kept, decl) \/ Len(kept) >= MaxSigEntries)
    <2>1. Synthesise(kept, decl, cls) = Append(kept, e)
      BY <1>3 DEF Synthesise
    <2> HIDE DEF e
    <2>2. /\ Append(kept, e) \in Seq(RawType) /\ Len(Append(kept, e)) = Len(kept) + 1
          /\ \A i \in 1 .. Len(kept) : Append(kept, e)[i] = kept[i]
      BY <1>1, AppendProperties
    <2> QED
      BY <1>1, <1>3, <2>1, <2>2 DEF RawLists
  <1> QED
    BY <1>2, <1>3

\* f has the entries completed for the first i declarations.
CompletedBy(f, cls) ==
    /\ f \in [0 .. Len(Decls(cls)) -> RawLists] /\ f[0] = Attributed(cls)
    /\ \A i \in 1 .. Len(Decls(cls)) : f[i] = Synthesise(f[i - 1], Decls(cls)[i], cls)
    /\ Completed(cls) = f[Len(Decls(cls))]

\* The entries are completed for one declaration after the other.
LEMMA CompletedSteps ==
    ASSUME shader \in Shader, scan \in ScanType, NEW cls \in Class
    PROVE  \E f : CompletedBy(f, cls)
  <1> DEFINE n == Len(Decls(cls))
             A == RawLists
             b == Attributed(cls)
             st == [i \in 1 .. n |-> [a \in A |-> Synthesise(a, Decls(cls)[i], cls)]]
             F == CHOOSE f : f = [k \in 0 .. n |-> IF k = 0 THEN b ELSE Synthesise(f[k - 1], Decls(cls)[k], cls)]
  <1>1. Completed(cls) = F[n]
    BY DEF Completed
  <1>2. n \in Nat /\ b \in A /\ \A i \in 1 .. n, a \in A : Synthesise(a, Decls(cls)[i], cls) \in A
    <2>1. n \in Nat /\ \A i \in 1 .. n : Decls(cls)[i] \in DeclType
      BY DeclsType
    <2> QED
      BY <2>1, AttributedType, SynthesiseType
  <1>3. \A i \in 1 .. n, a \in A : st[i][a] = Synthesise(a, Decls(cls)[i], cls) /\ st[i][a] \in A
    BY <1>2
  <1> HIDE DEF n, A, b, st
  <1>4. PICK f : Computes(f, n, A, b, st)
    BY <1>2, <1>3, Recursion
  <1>5. f \in [0 .. n -> A] /\ f[0] = b /\ \A i \in 1 .. n : f[i] = Synthesise(f[i - 1], Decls(cls)[i], cls)
    <2>1. f \in [0 .. n -> A] /\ f[0] = b /\ \A i \in 1 .. n : f[i] = st[i][f[i - 1]]
      BY <1>4 DEF Computes
    <2>2. \A i \in 1 .. n : f[i - 1] \in A
      <3>1. \A i \in 1 .. n : i - 1 \in 0 .. n
        BY <1>2
      <3> QED
        BY <2>1, <3>1
    <2> QED
      BY <1>3, <2>1, <2>2
  <1>6. f = [k \in 0 .. n |-> IF k = 0 THEN b ELSE Synthesise(f[k - 1], Decls(cls)[k], cls)]
    BY <1>2, <1>5
  <1>7. F = [k \in 0 .. n |-> IF k = 0 THEN b ELSE Synthesise(F[k - 1], Decls(cls)[k], cls)]
    BY <1>6
  <1> HIDE DEF F
  <1>8. F[0] = b /\ \A i \in 1 .. n : F[i] = Synthesise(F[i - 1], Decls(cls)[i], cls)
    BY <1>2, <1>7
  <1> DEFINE S == {k \in 0 .. n : F[k] \in A}
  <1>9. 0 \in S /\ \A i \in 1 .. n : i - 1 \in S => i \in S
    BY <1>2, <1>8
  <1>10. \A i \in 0 .. n : i \in S
    <2> HIDE DEF S
    <2> QED
      BY <1>2, <1>9, Induct
  <1>11. F \in [0 .. n -> A]
    BY <1>7, <1>10
  <1>12. CompletedBy(F, cls)
    BY <1>1, <1>8, <1>11 DEF CompletedBy, n, A, b
  <1> QED
    BY <1>12

\* The completed entries fit in the array.
LEMMA CompletedType ==
    ASSUME shader \in Shader, scan \in ScanType, NEW cls \in Class
    PROVE  Completed(cls) \in RawLists
  <1>1. PICK f : CompletedBy(f, cls)
    BY CompletedSteps
  <1>2. Len(Decls(cls)) \in Nat
    BY DeclsType
  <1> QED
    BY <1>1, <1>2 DEF CompletedBy

-----------------------------------------------------------------------------
\* The first component of a mask is a number.
LEMMA FirstCompType ==
    ASSUME NEW mask \in SUBSET Component
    PROVE  FirstComp(mask) \in 0 .. 3 /\ (mask # {} => FirstComp(mask) \in mask)
  <1>1. CASE mask = {}
    BY <1>1 DEF FirstComp
  <1>2. CASE mask # {}
    <2>1. mask \in SUBSET Nat
      BY DEF Component
    <2>2. Min(mask) \in mask
      BY <1>2, <2>1, MinOf
    <2> QED
      BY <1>2, <2>2 DEF FirstComp, Component
  <1> QED
    BY <1>1, <1>2

\* An entry that is not before a second, which is not before a third, is not
\* before the third; of two entries one is not before the other.
LEMMA OrderTransitive ==
    ASSUME NEW x \in EntryType, NEW y \in EntryType, NEW z \in EntryType
    PROVE  /\ ~ SigOrderBefore(x, y) /\ ~ SigOrderBefore(y, z) => ~ SigOrderBefore(x, z)
           /\ SigOrderBefore(x, y) => ~ SigOrderBefore(y, x)
  <1>1. /\ x.stream \in Nat /\ y.stream \in Nat /\ z.stream \in Nat
        /\ x.reg \in Nat /\ y.reg \in Nat /\ z.reg \in Nat
    BY DEF EntryType
  <1>2. FirstComp(x.mask) \in Nat /\ FirstComp(y.mask) \in Nat /\ FirstComp(z.mask) \in Nat
    <2>1. x.mask \in SUBSET Component /\ y.mask \in SUBSET Component /\ z.mask \in SUBSET Component
      BY DEF EntryType
    <2> QED
      BY <2>1, FirstCompType
  <1> QED
    BY <1>1, <1>2 DEF SigOrderBefore

\* The entries before x[p + 1] in a list, those behind it, and it.
Around(x, s, p, e) ==
    \A i \in 1 .. Len(s) + 1 :
        x[i] = IF i <= p THEN s[i] ELSE IF i = p + 1 THEN e ELSE s[i - 1]

\* Where an entry is inserted.
InsertPlace(s, e) == Highest({j \in DOMAIN s : ~ SigOrderBefore(e, s[j])})

\* An insertion leaves the others as they were, around the new entry.
LEMMA InsertedIs ==
    ASSUME NEW s \in Seq(EntryType), NEW e \in EntryType
    PROVE  /\ Inserted(s, e) \in Seq(EntryType) /\ Len(Inserted(s, e)) = Len(s) + 1
           /\ InsertPlace(s, e) \in 0 .. Len(s)
           /\ Around(Inserted(s, e), s, InsertPlace(s, e), e)
           /\ InsertPlace(s, e) # 0 => ~ SigOrderBefore(e, s[InsertPlace(s, e)])
           /\ \A j \in 1 .. Len(s) : j > InsertPlace(s, e) => SigOrderBefore(e, s[j])
  <1> DEFINE T == {j \in DOMAIN s : ~ SigOrderBefore(e, s[j])}
             p == Highest(T)
             front == SubSeq(s, 1, p)
             back == SubSeq(s, p + 1, Len(s))
  <1>1. /\ Len(s) \in Nat /\ DOMAIN s = 1 .. Len(s) /\ \A i \in 1 .. Len(s) : s[i] \in EntryType
    BY LenProperties, ElementOfSeq
  <1>2. p \in 0 .. Len(s) /\ (p # 0 => p \in T) /\ \A j \in T : j <= p
    <2>1. T \in SUBSET (0 .. Len(s))
      BY <1>1
    <2> HIDE DEF T
    <2> QED
      BY <1>1, <2>1, HighestOf
  <1>3. InsertPlace(s, e) = p
    BY DEF InsertPlace
  <1>4. /\ p # 0 => ~ SigOrderBefore(e, s[p])
        /\ \A j \in 1 .. Len(s) : j > p => SigOrderBefore(e, s[j])
    <2>1. \A j \in 1 .. Len(s) : j > p => j \notin T
      <3> HIDE DEF T
      <3> QED
        BY <1>1, <1>2
    <2> HIDE DEF p
    <2> QED
      BY <1>1, <1>2, <2>1
  <1>5. Inserted(s, e) = (front \o <<e>>) \o back
    <2>1. Inserted(s, e) = (SubSeq(s, 1, (p + 1) - 1) \o <<e>>) \o back
      BY DEF Inserted, InsertAt
    <2>2. (p + 1) - 1 = p
      BY <1>1, <1>2
    <2> HIDE DEF p
    <2> QED
      BY <2>1, <2>2
  <1> HIDE DEF p, T
  <1>6. /\ front \in Seq(EntryType) /\ Len(front) = p
        /\ \A i \in 1 .. p : front[i] = s[i]
    <2>1. \A i \in 1 .. p : s[i] \in EntryType
      BY <1>1, <1>2
    <2>2. /\ front \in Seq(EntryType) /\ Len(front) = IF 1 <= p THEN p - 1 + 1 ELSE 0
          /\ \A i \in 1 .. p - 1 + 1 : front[i] = s[1 + i - 1]
      BY <1>2, <2>1, SubSeqProperties
    <2> HIDE DEF front
    <2> QED
      BY <1>2, <2>2
  <1>7. /\ back \in Seq(EntryType) /\ Len(back) = Len(s) - p
        /\ \A i \in 1 .. Len(s) - p : back[i] = s[p + i]
    <2>1. \A i \in p + 1 .. Len(s) : s[i] \in EntryType
      BY <1>1, <1>2
    <2>2. /\ back \in Seq(EntryType) /\ Len(back) = IF p + 1 <= Len(s) THEN Len(s) - (p + 1) + 1 ELSE 0
          /\ \A i \in 1 .. Len(s) - (p + 1) + 1 : back[i] = s[p + 1 + i - 1]
      BY <1>1, <1>2, <2>1, SubSeqProperties
    <2>3. Len(s) - (p + 1) + 1 = Len(s) - p /\ \A i \in 1 .. Len(s) - p : p + 1 + i - 1 = p + i
      BY <1>1, <1>2
    <2>4. Len(back) = Len(s) - p
      <3>1. Len(back) = IF p + 1 <= Len(s) THEN Len(s) - (p + 1) + 1 ELSE 0
        BY <2>2
      <3> HIDE DEF back
      <3>2. CASE p = Len(s)
        BY <1>1, <3>1, <3>2
      <3>3. CASE p # Len(s)
        <4>1. p + 1 <= Len(s) /\ Len(s) - (p + 1) + 1 = Len(s) - p
          <5>1. Len(s) \in Int /\ p \in Int /\ p <= Len(s)
            BY <1>1, <1>2
          <5> HIDE DEF p
          <5> QED
            BY <3>3, <5>1
        <4> QED
          BY <3>1, <4>1
      <3> QED
        BY <3>2, <3>3
    <2> HIDE DEF back
    <2> QED
      BY <2>2, <2>3, <2>4
  <1> HIDE DEF front, back
  <1> DEFINE mid == front \o <<e>>
  <1>8. /\ mid \in Seq(EntryType) /\ Len(mid) = p + 1
        /\ \A i \in 1 .. p + 1 : mid[i] = IF i <= p THEN s[i] ELSE e
    <2>1. <<e>> \in Seq(EntryType) /\ Len(<<e>>) = 1 /\ <<e>>[1] = e
      OBVIOUS
    <2>2. /\ mid \in Seq(EntryType) /\ Len(mid) = Len(front) + 1
          /\ \A i \in 1 .. Len(front) + 1 : mid[i] = IF i <= Len(front) THEN front[i] ELSE <<e>>[i - Len(front)]
      BY <1>6, <2>1, ConcatProperties
    <2> HIDE DEF mid
    <2> QED
      BY <1>2, <1>6, <2>1, <2>2
  <1> HIDE DEF mid
  <1>9. /\ mid \o back \in Seq(EntryType) /\ Len(mid \o back) = Len(s) + 1
        /\ \A i \in 1 .. Len(s) + 1 : (mid \o back)[i] = IF i <= p + 1 THEN mid[i] ELSE back[i - (p + 1)]
    <2>1. /\ mid \o back \in Seq(EntryType) /\ Len(mid \o back) = Len(mid) + Len(back)
          /\ \A i \in 1 .. Len(mid) + Len(back) : (mid \o back)[i] = IF i <= Len(mid) THEN mid[i] ELSE back[i - Len(mid)]
      BY <1>7, <1>8, ConcatProperties
    <2>2. Len(mid) + Len(back) = Len(s) + 1
      BY <1>1, <1>2, <1>7, <1>8
    <2> QED
      BY <1>8, <2>1, <2>2
  <1>10. Around(mid \o back, s, p, e)
    <2> SUFFICES ASSUME NEW i \in 1 .. Len(s) + 1
                 PROVE  (mid \o back)[i] = IF i <= p THEN s[i] ELSE IF i = p + 1 THEN e ELSE s[i - 1]
      BY DEF Around
    <2>1. CASE i <= p + 1
      BY <1>2, <1>8, <1>9, <2>1
    <2>2. CASE i > p + 1
      <3>1. i - (p + 1) \in 1 .. Len(s) - p /\ p + (i - (p + 1)) = i - 1
        BY <1>1, <1>2, <2>2
      <3>2. (mid \o back)[i] = back[i - (p + 1)]
        BY <1>2, <1>9, <2>2
      <3>3. back[i - (p + 1)] = s[i - 1]
        BY <1>7, <3>1
      <3> QED
        BY <1>2, <2>2, <3>2, <3>3
    <2>3. i <= p + 1 \/ i > p + 1
      BY <1>1, <1>2
    <2> QED
      BY <2>1, <2>2, <2>3
  <1> QED
    BY <1>2, <1>3, <1>4, <1>5, <1>9, <1>10 DEF mid

\* f has the first i entries sorted.
SortedBy(f, es) ==
    /\ f \in [0 .. Len(es) -> Seq(EntryType)] /\ f[0] = << >>
    /\ \A i \in 1 .. Len(es) : f[i] = Inserted(f[i - 1], es[i])
    /\ Sorted(es) = f[Len(es)]

\* One entry is inserted after the other.
LEMMA SortedSteps ==
    ASSUME NEW es \in Seq(EntryType)
    PROVE  \E f : SortedBy(f, es)
  <1> DEFINE n == Len(es)
             A == Seq(EntryType)
             b == << >>
             st == [i \in 1 .. n |-> [a \in A |-> Inserted(a, es[i])]]
             F == CHOOSE f : f = [k \in 0 .. n |-> IF k = 0 THEN b ELSE Inserted(f[k - 1], es[k])]
  <1>1. Sorted(es) = F[n]
    BY DEF Sorted
  <1>2. n \in Nat /\ b \in A /\ \A i \in 1 .. n, a \in A : Inserted(a, es[i]) \in A
    <2>1. n \in Nat /\ \A i \in 1 .. n : es[i] \in EntryType
      BY LenProperties, ElementOfSeq
    <2>2. \A a \in Seq(EntryType), e \in EntryType : Inserted(a, e) \in Seq(EntryType)
      BY InsertedIs
    <2>3. \A i \in 1 .. n : \A a \in A : Inserted(a, es[i]) \in A
      <3> HIDE DEF n
      <3> QED
        BY <2>1, <2>2
    <2> QED
      BY <2>1, <2>3
  <1>3. \A i \in 1 .. n, a \in A : st[i][a] = Inserted(a, es[i]) /\ st[i][a] \in A
    BY <1>2
  <1> HIDE DEF n, A, b, st
  <1>4. PICK f : Computes(f, n, A, b, st)
    BY <1>2, <1>3, Recursion
  <1>5. f \in [0 .. n -> A] /\ f[0] = b /\ \A i \in 1 .. n : f[i] = Inserted(f[i - 1], es[i])
    <2>1. f \in [0 .. n -> A] /\ f[0] = b /\ \A i \in 1 .. n : f[i] = st[i][f[i - 1]]
      BY <1>4 DEF Computes
    <2>2. \A i \in 1 .. n : f[i - 1] \in A
      <3>1. \A i \in 1 .. n : i - 1 \in 0 .. n
        BY <1>2
      <3> QED
        BY <2>1, <3>1
    <2> QED
      BY <1>3, <2>1, <2>2
  <1>6. f = [k \in 0 .. n |-> IF k = 0 THEN b ELSE Inserted(f[k - 1], es[k])]
    BY <1>2, <1>5
  <1>7. F = [k \in 0 .. n |-> IF k = 0 THEN b ELSE Inserted(F[k - 1], es[k])]
    BY <1>6
  <1> HIDE DEF F
  <1>8. F[0] = b /\ \A i \in 1 .. n : F[i] = Inserted(F[i - 1], es[i])
    BY <1>2, <1>7
  <1> DEFINE S == {k \in 0 .. n : F[k] \in A}
  <1>9. 0 \in S /\ \A i \in 1 .. n : i - 1 \in S => i \in S
    BY <1>2, <1>8
  <1>10. \A i \in 0 .. n : i \in S
    <2> HIDE DEF S
    <2> QED
      BY <1>2, <1>9, Induct
  <1>11. F \in [0 .. n -> A]
    BY <1>7, <1>10
  <1>12. SortedBy(F, es)
    BY <1>1, <1>8, <1>11 DEF SortedBy, n, A, b
  <1> QED
    BY <1>12

\* No entry is before one in front of it.
InOrder(s) == \A i, j \in 1 .. Len(s) : i < j => ~ SigOrderBefore(s[j], s[i])

\* The entries of a list.
Elements(s, n) == {s[i] : i \in 1 .. n}

\* An insertion adds the entry to the others.
LEMMA InsertedElements ==
    ASSUME NEW s \in Seq(EntryType), NEW e \in EntryType
    PROVE  Elements(Inserted(s, e), Len(s) + 1) = Elements(s, Len(s)) \union {e}
  <1> DEFINE x == Inserted(s, e)
             p == InsertPlace(s, e)
  <1>1. Len(s) \in Nat /\ p \in 0 .. Len(s)
        /\ \A i \in 1 .. Len(s) + 1 : x[i] = IF i <= p THEN s[i] ELSE IF i = p + 1 THEN e ELSE s[i - 1]
    BY InsertedIs, LenProperties DEF Around
  <1> HIDE DEF x, p
  <1>2. ASSUME NEW i \in 1 .. Len(s) + 1 PROVE x[i] \in Elements(s, Len(s)) \union {e}
    <2>1. CASE i <= p
      BY <1>1, <2>1 DEF Elements
    <2>2. CASE i = p + 1
      BY <1>1, <2>2
    <2>3. CASE i > p + 1
      <3>1. i - 1 \in 1 .. Len(s) /\ x[i] = s[i - 1]
        BY <1>1, <2>3
      <3> QED
        BY <3>1 DEF Elements
    <2> QED
      BY <1>1, <2>1, <2>2, <2>3
  <1>3. e \in Elements(x, Len(s) + 1)
    <2>1. p + 1 \in 1 .. Len(s) + 1 /\ x[p + 1] = e
      BY <1>1
    <2> QED
      BY <2>1 DEF Elements
  <1>4. ASSUME NEW i \in 1 .. Len(s) PROVE s[i] \in Elements(x, Len(s) + 1)
    <2>1. CASE i <= p
      <3>1. i \in 1 .. Len(s) + 1 /\ x[i] = s[i]
        BY <1>1, <2>1
      <3> QED
        BY <3>1 DEF Elements
    <2>2. CASE i > p
      <3>1. i + 1 \in 1 .. Len(s) + 1 /\ x[i + 1] = s[i]
        BY <1>1, <2>2
      <3> QED
        BY <3>1 DEF Elements
    <2> QED
      BY <1>1, <2>1, <2>2
  <1>5. Elements(x, Len(s) + 1) = Elements(s, Len(s)) \union {e}
    BY <1>2, <1>3, <1>4 DEF Elements
  <1> QED
    BY <1>5 DEF x

\* An insertion keeps the order.
LEMMA InsertedInOrder ==
    ASSUME NEW s \in Seq(EntryType), NEW e \in EntryType, InOrder(s)
    PROVE  InOrder(Inserted(s, e))
  <1> DEFINE x == Inserted(s, e)
             p == InsertPlace(s, e)
  <1>1. /\ Len(s) \in Nat /\ p \in 0 .. Len(s) /\ Len(x) = Len(s) + 1
        /\ \A i \in 1 .. Len(s) + 1 : x[i] = IF i <= p THEN s[i] ELSE IF i = p + 1 THEN e ELSE s[i - 1]
        /\ \A i \in 1 .. Len(s) : s[i] \in EntryType
        /\ p # 0 => ~ SigOrderBefore(e, s[p])
        /\ \A j \in 1 .. Len(s) : j > p => SigOrderBefore(e, s[j])
    BY InsertedIs, LenProperties, ElementOfSeq DEF Around
  <1> HIDE DEF x, p
  <1>2. ASSUME NEW i \in 1 .. p PROVE ~ SigOrderBefore(e, s[i])
    <2>1. i \in 1 .. Len(s) /\ p \in 1 .. Len(s) /\ ~ SigOrderBefore(e, s[p])
      BY <1>1
    <2>2. i = p \/ ~ SigOrderBefore(s[p], s[i])
      BY <1>1, <2>1 DEF InOrder
    <2> QED
      BY <1>1, <2>1, <2>2, OrderTransitive
  <1>3. ASSUME NEW j \in 1 .. Len(s), j > p PROVE ~ SigOrderBefore(s[j], e)
    BY <1>1, <1>3, OrderTransitive
  <1> SUFFICES ASSUME NEW i \in 1 .. Len(s) + 1, NEW j \in 1 .. Len(s) + 1, i < j
               PROVE  ~ SigOrderBefore(x[j], x[i])
    BY <1>1 DEF InOrder, x
  <1>4. CASE j <= p
    <2>1. x[i] = s[i] /\ x[j] = s[j] /\ i \in 1 .. Len(s) /\ j \in 1 .. Len(s)
      BY <1>1, <1>4
    <2> QED
      BY <2>1 DEF InOrder
  <1>5. CASE j = p + 1
    <2>1. x[i] = s[i] /\ x[j] = e /\ i \in 1 .. p
      BY <1>1, <1>5
    <2> QED
      BY <1>2, <2>1
  <1>6. CASE j > p + 1
    <2>1. x[j] = s[j - 1] /\ j - 1 \in 1 .. Len(s) /\ j - 1 > p
      BY <1>1, <1>6
    <2>2. CASE i <= p
      <3>1. x[i] = s[i] /\ i \in 1 .. Len(s) /\ i < j - 1
        BY <1>1, <1>6, <2>2
      <3> QED
        BY <2>1, <3>1 DEF InOrder
    <2>3. CASE i = p + 1
      <3>1. x[i] = e
        BY <1>1, <2>3
      <3> QED
        BY <1>3, <2>1, <3>1
    <2>4. CASE i > p + 1
      <3>1. x[i] = s[i - 1] /\ i - 1 \in 1 .. Len(s) /\ i - 1 < j - 1
        BY <1>1, <2>4
      <3> QED
        BY <2>1, <3>1 DEF InOrder
    <2> QED
      BY <1>1, <2>2, <2>3, <2>4
  <1> QED
    BY <1>1, <1>4, <1>5, <1>6

\* Sorting keeps every entry and adds none.
LEMMA SortedProps ==
    ASSUME NEW es \in Seq(EntryType)
    PROVE  /\ Sorted(es) \in Seq(EntryType) /\ Len(Sorted(es)) = Len(es)
           /\ Elements(Sorted(es), Len(es)) = Elements(es, Len(es))
           /\ InOrder(Sorted(es))
  <1> DEFINE n == Len(es)
  <1>1. PICK f : SortedBy(f, es)
    BY SortedSteps
  <1>2. n \in Nat /\ \A i \in 1 .. n : es[i] \in EntryType
    BY LenProperties, ElementOfSeq
  <1>3. /\ f \in [0 .. n -> Seq(EntryType)] /\ f[0] = << >> /\ Sorted(es) = f[n]
        /\ \A i \in 1 .. n : f[i] = Inserted(f[i - 1], es[i])
    BY <1>1 DEF SortedBy
  <1> HIDE DEF n
  <1> DEFINE S == {i \in 0 .. n : Len(f[i]) = i /\ Elements(f[i], i) = Elements(es, i) /\ InOrder(f[i])}
  <1>4. 0 \in S
    <2>1. Len(f[0]) = 0 /\ Elements(f[0], 0) = {} /\ Elements(es, 0) = {}
      BY <1>3 DEF Elements
    <2>2. InOrder(f[0])
      BY <2>1 DEF InOrder
    <2>3. 0 \in 0 .. n
      BY <1>2
    <2>4. Elements(f[0], 0) = Elements(es, 0)
      BY <2>1
    <2> QED
      BY <2>1, <2>2, <2>3, <2>4
  <1>5. ASSUME NEW i \in 1 .. n, i - 1 \in S PROVE i \in S
    <2> DEFINE s == f[i - 1]
               e == es[i]
    <2>1. s \in Seq(EntryType) /\ e \in EntryType /\ f[i] = Inserted(s, e)
      <3>1. i - 1 \in 0 .. n
        BY <1>2
      <3> QED
        BY <1>2, <1>3, <3>1
    <2>2. Len(s) = i - 1 /\ Elements(s, i - 1) = Elements(es, i - 1) /\ InOrder(s)
      BY <1>5
    <2>3. Len(s) + 1 = i /\ i \in 0 .. n
      BY <1>2, <2>2
    <2> HIDE DEF s, e
    <2>4. Len(f[i]) = i
      BY <2>1, <2>3, InsertedIs
    <2>5. InOrder(f[i])
      BY <2>1, <2>2, InsertedInOrder
    <2>6. Elements(f[i], i) = Elements(es, i - 1) \union {e}
      <3>1. Elements(Inserted(s, e), Len(s) + 1) = Elements(s, Len(s)) \union {e}
        BY <2>1, InsertedElements
      <3> QED
        BY <2>1, <2>2, <2>3, <3>1
    <2>7. Elements(es, i) = Elements(es, i - 1) \union {e}
      <3>1. \A k : k \in 1 .. i <=> k \in 1 .. i - 1 \/ k = i
        BY <1>2
      <3> QED
        BY <3>1 DEF Elements, e
    <2> QED
      BY <2>3, <2>4, <2>5, <2>6, <2>7
  <1>6. n \in S
    <2> HIDE DEF S
    <2> QED
      BY <1>2, <1>4, <1>5, Induct
  <1>7. f[n] \in Seq(EntryType)
    BY <1>2, <1>3
  <1> QED
    BY <1>3, <1>6, <1>7 DEF n

-----------------------------------------------------------------------------
\* An entry with a name, and one that has its index, too.
NamedType == {e \in EntryType : e.name \in NameType}

ReadyType == {e \in NamedType : e.semIdx \in Nat}

NamedLists == {es \in Seq(NamedType) : Len(es) <= MaxSigEntries}

ReadyLists == {es \in Seq(ReadyType) : Len(es) <= MaxSigEntries}

\* A named entry is the one it was made of, and keeps its place.  An element in
\* a register keeps its components, and has the name of its system value.
SameElement(x, e, cls) ==
    /\ x.reg = e.reg /\ x.stream = e.stream /\ x.sysval = e.sysval /\ x.minPrec = e.minPrec
    /\ e.reg # NoReg => x.mask = e.mask /\ x.name = PickName(cls, e.sysval) /\ x.comp = TypeOf(e)

\* Only a render target has its number from the start.
NamedFrom(x, e, cls) ==
    /\ SameElement(x, e, cls)
    /\ e.reg # NoReg => x.semIdx = IF IsTarget(cls, e.sysval) THEN e.reg ELSE e.semIdx

\* Every element without a name of its own is numbered by its place.
NumberedFrom(x, e, cls) ==
    /\ SameElement(x, e, cls)
    /\ e.reg # NoReg /\ e.semIdx = Unset =>
          /\ IsTarget(cls, e.sysval) => x.semIdx = e.reg
          /\ PickName(cls, e.sysval) = "ATTRIB" => x.semIdx = e.reg * 4 + FirstComp(e.mask)

\* A name is one of the names, and its number is one.
LEMMA PickNameType ==
    ASSUME NEW cls, NEW v \in Nat
    PROVE  PickName(cls, v) \in NameType /\ SemSysValue(v) \in Nat /\ SemComp(v) \in Nat
  <1>1. SemName(v) \in NameType
    BY DEF SemName, NameType
  <1>2. SemSysValue(v) \in Nat
    BY DEF SemSysValue
  <1>3. SemComp(v) \in Nat
    BY DEF SemComp, UintComp, FloatComp
  <1> QED
    BY <1>1, <1>2, <1>3 DEF PickName, NameType

\* A system output has a name and a component type.
LEMMA SysOutTypes ==
    ASSUME NEW o \in SysOut
    PROVE  SysOutName(o) \in NameType /\ SysOutComp(o) \in Nat
  BY DEF SysOut, SysOutName, NameType, SysOutComp, UintComp, FloatComp

\* What is claimed is one of the system outputs, or nothing.
LEMMA ClaimType ==
    ASSUME scan \in ScanType, NEW e, NEW claimed
    PROVE  Claim(e, claimed) \in 0 .. Len(scan.sysOut) /\ Len(scan.sysOut) \in 0 .. 4
  <1> DEFINE left == DOMAIN scan.sysOut \ claimed
             isUint == e.comp \in {UintComp, SintComp}
             alike == {j \in left : e.comp \notin {UintComp, SintComp, FloatComp}
                                    \/ isUint = (SysOutComp(scan.sysOut[j]) = UintComp)}
  <1>1. DOMAIN scan.sysOut = 1 .. Len(scan.sysOut) /\ Len(scan.sysOut) \in 0 .. 4
    <2>1. scan.sysOut \in Seq(SysOut) /\ Len(scan.sysOut) <= 4
      BY DEF ScanType
    <2>2. Len(scan.sysOut) \in Nat /\ DOMAIN scan.sysOut = 1 .. Len(scan.sysOut)
      BY <2>1, LenProperties
    <2>3. \A k \in Nat : k <= 4 => k \in 0 .. 4
      OBVIOUS
    <2>4. Len(scan.sysOut) \in 0 .. 4
      BY <2>1, <2>2, <2>3
    <2> QED
      BY <2>2, <2>4
  <1>2. Claim(e, claimed) = IF alike # {} THEN Min(alike) ELSE IF left # {} THEN Min(left) ELSE 0
    BY DEF Claim
  <1>3. left \in SUBSET Nat /\ left \subseteq 1 .. Len(scan.sysOut) /\ alike \subseteq left
    <2>1. left \subseteq 1 .. Len(scan.sysOut)
      BY <1>1
    <2>2. 1 .. Len(scan.sysOut) \subseteq Nat
      BY <1>1
    <2> HIDE DEF left
    <2> QED
      BY <2>1, <2>2
  <1> HIDE DEF left, alike
  <1>4. alike # {} => Min(alike) \in alike
    BY <1>3, MinOf
  <1>5. left # {} => Min(left) \in left
    BY <1>3, MinOf
  <1>6. Claim(e, claimed) \in (1 .. Len(scan.sysOut)) \union {0}
    BY <1>2, <1>3, <1>4, <1>5
  <1> HIDE DEF left
  <1> QED
    BY <1>1, <1>6

\* The type an entry gets.
LEMMA TypeOfType ==
    ASSUME NEW e \in EntryType
    PROVE  TypeOf(e) \in Nat
  <1>1. e.comp \in Nat /\ e.sysval \in Nat
    BY DEF EntryType
  <1> QED
    BY <1>1, PickNameType DEF TypeOf

\* An entry is resolved, whatever came before it.
LEMMA ResolvedType ==
    ASSUME scan \in ScanType, NEW cls,
           NEW acc \in [done: Seq(NamedType), claimed: SUBSET Nat], NEW e \in EntryType
    PROVE  \E x \in NamedType, cl \in SUBSET Nat :
              /\ Resolved(acc, e, cls) = [done |-> Append(acc.done, x), claimed |-> cl]
              /\ NamedFrom(x, e, cls)
  <1> DEFINE n == Named(cls, e)
             j == Claim(e, acc.claimed)
             plain == [n EXCEPT !.comp = TypeOf(e)]
             target == [n EXCEPT !.comp = TypeOf(e), !.semIdx = e.reg]
             sys == [n EXCEPT !.name = SysOutName(scan.sysOut[j]), !.comp = SysOutComp(scan.sysOut[j]),
                              !.mask = IF @ = {} THEN {0} ELSE @, !.semIdx = 0]
  <1>1. /\ e.sysval \in Nat /\ e.reg \in Nat /\ TypeOf(e) \in Nat
        /\ PickName(cls, e.sysval) \in NameType /\ SemSysValue(e.sysval) \in Nat
    BY TypeOfType, PickNameType DEF EntryType
  <1>2. acc = [done |-> acc.done, claimed |-> acc.claimed] /\ acc.claimed \in SUBSET Nat
    OBVIOUS
  <1>3. /\ n = [e EXCEPT !.name = PickName(cls, e.sysval),
                         !.dxSysValue = IF IsTarget(cls, e.sysval) THEN 0 ELSE SemSysValue(e.sysval)]
        /\ n \in EntryType /\ n.name = PickName(cls, e.sysval)
        /\ n.reg = e.reg /\ n.stream = e.stream /\ n.sysval = e.sysval /\ n.minPrec = e.minPrec
        /\ n.mask = e.mask /\ n.semIdx = e.semIdx
    BY <1>1 DEF Named, EntryType
  <1> HIDE DEF n
  <1>4. /\ plain \in NamedType
        /\ e.reg = NoReg \/ ~ IsTarget(cls, e.sysval) => NamedFrom(plain, e, cls)
    BY <1>1, <1>3 DEF NamedType, NamedFrom, SameElement, EntryType
  <1>5. /\ target \in NamedType
        /\ IsTarget(cls, e.sysval) => NamedFrom(target, e, cls)
    BY <1>1, <1>3 DEF NamedType, NamedFrom, SameElement, EntryType
  <1>6. ASSUME j # 0, e.reg = NoReg
        PROVE  sys \in NamedType /\ NamedFrom(sys, e, cls) /\ sys.semIdx = 0 /\ j \in Nat
    <2>1. j \in 1 .. Len(scan.sysOut)
      <3>1. j \in 0 .. Len(scan.sysOut) /\ Len(scan.sysOut) \in 0 .. 4
        BY ClaimType
      <3> HIDE DEF j
      <3> QED
        BY <1>6, <3>1
    <2>2. scan.sysOut[j] \in SysOut
      <3>1. scan.sysOut \in Seq(SysOut)
        BY DEF ScanType
      <3> HIDE DEF j
      <3> QED
        BY <2>1, <3>1, ElementOfSeq
    <2>3. SysOutName(scan.sysOut[j]) \in NameType /\ SysOutComp(scan.sysOut[j]) \in Nat
      BY <2>2, SysOutTypes
    <2>4. {0} \in SUBSET Component /\ j \in Nat
      <3>1. Len(scan.sysOut) \in Nat
        BY ClaimType
      <3> HIDE DEF j
      <3> QED
        BY <2>1, <3>1 DEF Component
    <2> HIDE DEF j
    <2> QED
      BY <1>3, <1>6, <2>3, <2>4 DEF NamedType, NamedFrom, SameElement, EntryType
  <1>7. CASE ~ IsTarget(cls, e.sysval) \/ (e.reg = NoReg /\ j = 0)
    <2>1. Resolved(acc, e, cls) = [acc EXCEPT !.done = Append(@, plain)]
      BY <1>7 DEF Resolved, n
    <2>2. Resolved(acc, e, cls) = [done |-> Append(acc.done, plain), claimed |-> acc.claimed]
      <3> HIDE DEF plain
      <3> QED
        BY <1>2, <2>1
    <2> HIDE DEF plain, j
    <2> QED
      BY <1>2, <1>4, <1>7, <2>2
  <1>8. CASE IsTarget(cls, e.sysval) /\ e.reg # NoReg
    <2>1. Resolved(acc, e, cls) = [acc EXCEPT !.done = Append(@, target)]
      BY <1>8 DEF Resolved, n
    <2>2. Resolved(acc, e, cls) = [done |-> Append(acc.done, target), claimed |-> acc.claimed]
      <3> HIDE DEF target
      <3> QED
        BY <1>2, <2>1
    <2> HIDE DEF target
    <2> QED
      BY <1>2, <1>5, <1>8, <2>2
  <1>9. CASE IsTarget(cls, e.sysval) /\ e.reg = NoReg /\ j # 0
    <2>1. Resolved(acc, e, cls) = [claimed |-> acc.claimed \union {j}, done |-> Append(acc.done, sys)]
      BY <1>9 DEF Resolved, n
    <2>2. acc.claimed \union {j} \in SUBSET Nat
      BY <1>2, <1>6, <1>9
    <2> HIDE DEF sys, j
    <2> QED
      BY <1>6, <1>9, <2>1, <2>2
  <1> QED
    BY <1>7, <1>8, <1>9

\* The first i entries are resolved.
NamedSoFar(done, es, cls, i) ==
    Len(done) = i /\ \A j \in 1 .. i : NamedFrom(done[j], es[j], cls)

\* f has the first i entries resolved.
ResolvedBy(f, es, cls) ==
    /\ f \in [0 .. Len(es) -> [done: Seq(NamedType), claimed: SUBSET Nat]] /\ f[0] = [done |-> << >>, claimed |-> {}]
    /\ \A i \in 1 .. Len(es) : f[i] = Resolved(f[i - 1], es[i], cls)
    /\ ResolvedAll(es, cls) = f[Len(es)]

\* One entry is resolved after the other.
LEMMA ResolvedSteps ==
    ASSUME scan \in ScanType, NEW es \in Seq(EntryType), NEW cls
    PROVE  \E f : ResolvedBy(f, es, cls)
  <1> DEFINE n == Len(es)
             A == [done: Seq(NamedType), claimed: SUBSET Nat]
             b == [done |-> << >>, claimed |-> {}]
             st == [i \in 1 .. n |-> [a \in A |-> Resolved(a, es[i], cls)]]
             F == CHOOSE f : f = [k \in 0 .. n |-> IF k = 0 THEN b ELSE Resolved(f[k - 1], es[k], cls)]
  <1>1. ResolvedAll(es, cls) = F[n]
    BY DEF ResolvedAll
  <1>2. n \in Nat /\ b \in A /\ \A i \in 1 .. n, a \in A : Resolved(a, es[i], cls) \in A
    <2>1. n \in Nat /\ \A i \in 1 .. n : es[i] \in EntryType
      BY LenProperties, ElementOfSeq
    <2>2. \A a \in A, e \in EntryType : Resolved(a, e, cls) \in A
      <3> SUFFICES ASSUME NEW a \in A, NEW e \in EntryType PROVE Resolved(a, e, cls) \in A
        OBVIOUS
      <3>1. PICK x \in NamedType, cl \in SUBSET Nat : Resolved(a, e, cls) = [done |-> Append(a.done, x), claimed |-> cl]
        BY ResolvedType
      <3>2. a.done \in Seq(NamedType)
        OBVIOUS
      <3>3. Append(a.done, x) \in Seq(NamedType)
        BY <3>2, AppendProperties
      <3> QED
        BY <3>1, <3>3
    <2>3. b \in A
      OBVIOUS
    <2>4. \A i \in 1 .. n, a \in A : Resolved(a, es[i], cls) \in A
      <3> HIDE DEF n, A
      <3> QED
        BY <2>1, <2>2
    <2> QED
      BY <2>1, <2>3, <2>4
  <1>3. \A i \in 1 .. n, a \in A : st[i][a] = Resolved(a, es[i], cls) /\ st[i][a] \in A
    BY <1>2
  <1> HIDE DEF n, A, b, st
  <1>4. PICK f : Computes(f, n, A, b, st)
    BY <1>2, <1>3, Recursion
  <1>5. f \in [0 .. n -> A] /\ f[0] = b /\ \A i \in 1 .. n : f[i] = Resolved(f[i - 1], es[i], cls)
    <2>1. f \in [0 .. n -> A] /\ f[0] = b /\ \A i \in 1 .. n : f[i] = st[i][f[i - 1]]
      BY <1>4 DEF Computes
    <2>2. \A i \in 1 .. n : f[i - 1] \in A
      <3>1. \A i \in 1 .. n : i - 1 \in 0 .. n
        BY <1>2
      <3> QED
        BY <2>1, <3>1
    <2> QED
      BY <1>3, <2>1, <2>2
  <1>6. f = [k \in 0 .. n |-> IF k = 0 THEN b ELSE Resolved(f[k - 1], es[k], cls)]
    BY <1>2, <1>5
  <1>7. F = [k \in 0 .. n |-> IF k = 0 THEN b ELSE Resolved(F[k - 1], es[k], cls)]
    BY <1>6
  <1> HIDE DEF F
  <1>8. F[0] = b /\ \A i \in 1 .. n : F[i] = Resolved(F[i - 1], es[i], cls)
    BY <1>2, <1>7
  <1> DEFINE S == {k \in 0 .. n : F[k] \in A}
  <1>9. 0 \in S /\ \A i \in 1 .. n : i - 1 \in S => i \in S
    BY <1>2, <1>8
  <1>10. \A i \in 0 .. n : i \in S
    <2> HIDE DEF S
    <2> QED
      BY <1>2, <1>9, Induct
  <1>11. F \in [0 .. n -> A]
    BY <1>7, <1>10
  <1>12. ResolvedBy(F, es, cls)
    BY <1>1, <1>8, <1>11 DEF ResolvedBy, n, A, b
  <1> QED
    BY <1>12

\* Every entry is resolved, in its place.
LEMMA ResolvedAllType ==
    ASSUME scan \in ScanType, NEW es \in EntryLists, NEW cls
    PROVE  ResolvedAll(es, cls).done \in NamedLists /\ NamedSoFar(ResolvedAll(es, cls).done, es, cls, Len(es))
  <1> DEFINE n == Len(es)
             A == [done: Seq(NamedType), claimed: SUBSET Nat]
  <1>1. es \in Seq(EntryType) /\ n \in Nat /\ n <= MaxSigEntries /\ \A i \in 1 .. n : es[i] \in EntryType
    BY LenProperties, ElementOfSeq DEF EntryLists
  <1>2. PICK f : ResolvedBy(f, es, cls)
    BY <1>1, ResolvedSteps
  <1>3. /\ f \in [0 .. n -> A] /\ f[0] = [done |-> << >>, claimed |-> {}] /\ ResolvedAll(es, cls) = f[n]
        /\ \A i \in 1 .. n : f[i] = Resolved(f[i - 1], es[i], cls)
    BY <1>2 DEF ResolvedBy
  <1> HIDE DEF n
  <1> DEFINE S == {i \in 0 .. n : NamedSoFar(f[i].done, es, cls, i)}
  <1>4. 0 \in S
    <2>1. NamedSoFar(f[0].done, es, cls, 0)
      BY <1>3 DEF NamedSoFar
    <2>2. 0 \in 0 .. n
      BY <1>1
    <2> QED
      BY <2>1, <2>2
  <1>5. ASSUME NEW i \in 1 .. n, i - 1 \in S PROVE i \in S
    <2>1. i - 1 \in 0 .. n /\ i \in 0 .. n
      BY <1>1
    <2>2. f[i - 1] \in A /\ es[i] \in EntryType /\ f[i] = Resolved(f[i - 1], es[i], cls)
      BY <1>1, <1>3, <2>1
    <2> DEFINE s == f[i - 1].done
    <2>3. NamedSoFar(s, es, cls, i - 1) /\ s \in Seq(NamedType)
      BY <1>5, <2>2
    <2>4. PICK x \in NamedType : f[i].done = Append(s, x) /\ NamedFrom(x, es[i], cls)
      <3>1. PICK x \in NamedType, cl \in SUBSET Nat :
               /\ Resolved(f[i - 1], es[i], cls) = [done |-> Append(s, x), claimed |-> cl]
               /\ NamedFrom(x, es[i], cls)
        BY <2>2, ResolvedType
      <3> QED
        BY <2>2, <3>1
    <2> HIDE DEF s
    <2>5. /\ Len(f[i].done) = Len(s) + 1 /\ f[i].done[Len(s) + 1] = x
          /\ \A j \in 1 .. Len(s) : f[i].done[j] = s[j]
      BY <2>3, <2>4, AppendProperties
    <2>6. Len(s) = i - 1 /\ Len(s) + 1 = i
      BY <1>1, <2>3 DEF NamedSoFar
    <2>7. \A j \in 1 .. i : j \in 1 .. i - 1 \/ j = i
      BY <1>1
    <2>8. NamedSoFar(f[i].done, es, cls, i)
      BY <2>3, <2>4, <2>5, <2>6, <2>7 DEF NamedSoFar
    <2> QED
      BY <2>1, <2>8
  <1>6. n \in S
    <2> HIDE DEF S
    <2> QED
      BY <1>1, <1>4, <1>5, Induct
  <1>7. f[n].done \in Seq(NamedType)
    <2>1. n \in 0 .. n
      BY <1>1
    <2>2. f[n] \in A
      BY <1>3, <2>1
    <2> QED
      BY <2>2
  <1>8. Len(f[n].done) = n /\ NamedSoFar(f[n].done, es, cls, n)
    BY <1>6 DEF NamedSoFar
  <1> QED
    BY <1>1, <1>3, <1>7, <1>8 DEF n, NamedLists

\* A list with further entries, which have no register.
Extends(x, s) ==
    /\ Len(s) <= Len(x)
    /\ \A i \in 1 .. Len(s) : x[i] = s[i]
    /\ \A i \in Len(s) + 1 .. Len(x) : x[i].reg = NoReg

\* A system output is added, if it is not claimed and fits.
LEMMA AddSysOutType ==
    ASSUME scan \in ScanType, NEW es \in NamedLists, NEW j \in 1 .. Len(scan.sysOut), NEW claimed
    PROVE  AddSysOut(es, j, claimed) \in NamedLists /\ Extends(AddSysOut(es, j, claimed), es)
  <1> DEFINE e == SysOutEntry(scan.sysOut[j])
  <1>1. /\ es \in Seq(NamedType) /\ Len(es) \in Nat /\ Len(es) <= MaxSigEntries /\ MaxSigEntries \in Nat
    BY LenProperties, ShaderTokensAssumption DEF NamedLists
  <1>2. e \in NamedType /\ e.reg = NoReg
    <2>1. scan.sysOut[j] \in SysOut
      <3>1. scan.sysOut \in Seq(SysOut)
        BY DEF ScanType
      <3> QED
        BY <3>1, ElementOfSeq
    <2>2. SysOutName(scan.sysOut[j]) \in NameType /\ SysOutComp(scan.sysOut[j]) \in Nat
      BY <2>1, SysOutTypes
    <2>3. {0} \in SUBSET Component /\ NoReg \in Nat
      BY ShaderTokensAssumption DEF Component
    <2> QED
      BY <2>2, <2>3 DEF SysOutEntry, NamedType, EntryType
  <1> HIDE DEF e
  <1>3. CASE j \in claimed \/ Len(es) >= MaxSigEntries
    <2>1. AddSysOut(es, j, claimed) = es
      BY <1>3 DEF AddSysOut
    <2> QED
      BY <1>1, <2>1 DEF Extends
  <1>4. CASE ~ (j \in claimed \/ Len(es) >= MaxSigEntries)
    <2>1. AddSysOut(es, j, claimed) = Append(es, e)
      BY <1>4 DEF AddSysOut, e
    <2>2. /\ Append(es, e) \in Seq(NamedType) /\ Len(Append(es, e)) = Len(es) + 1
          /\ Append(es, e)[Len(es) + 1] = e
          /\ \A i \in 1 .. Len(es) : Append(es, e)[i] = es[i]
      BY <1>1, <1>2, AppendProperties
    <2>3. \A i \in Len(es) + 1 .. Len(es) + 1 : i = Len(es) + 1
      BY <1>1
    <2>4. Len(es) <= Len(es) + 1 /\ Len(es) + 1 <= MaxSigEntries
      BY <1>1, <1>4
    <2> QED
      BY <1>2, <2>1, <2>2, <2>3, <2>4 DEF NamedLists, Extends
  <1> QED
    BY <1>3, <1>4

\* Of two extensions one after the other.
LEMMA ExtendsTransitive ==
    ASSUME NEW x \in NamedLists, NEW y \in NamedLists, NEW z \in NamedLists, Extends(x, y), Extends(y, z)
    PROVE  Extends(x, z)
  <1>1. Len(x) \in Nat /\ Len(y) \in Nat /\ Len(z) \in Nat
    BY LenProperties DEF NamedLists
  <1>2. Len(z) <= Len(y) /\ Len(y) <= Len(x)
    BY DEF Extends
  <1>3. \A i \in 1 .. Len(z) : i \in 1 .. Len(y) /\ x[i] = z[i]
    BY <1>1, <1>2 DEF Extends
  <1>4. \A i \in Len(z) + 1 .. Len(x) : x[i].reg = NoReg
    <2> SUFFICES ASSUME NEW i \in Len(z) + 1 .. Len(x) PROVE x[i].reg = NoReg
      OBVIOUS
    <2>1. CASE i <= Len(y)
      <3>1. i \in Len(z) + 1 .. Len(y) /\ i \in 1 .. Len(y)
        BY <1>1, <2>1
      <3> QED
        BY <3>1 DEF Extends
    <2>2. CASE i > Len(y)
      <3>1. i \in Len(y) + 1 .. Len(x)
        BY <1>1, <2>2
      <3> QED
        BY <3>1 DEF Extends
    <2> QED
      BY <1>1, <2>1, <2>2
  <1>5. Len(z) <= Len(x)
    BY <1>1, <1>2
  <1> QED
    BY <1>3, <1>4, <1>5 DEF Extends

\* f has the entries with those of the first i system outputs.
SysOutsBy(f, acc, cls) ==
    /\ f \in [0 .. Len(scan.sysOut) -> NamedLists] /\ f[0] = acc.done
    /\ \A i \in 1 .. Len(scan.sysOut) : f[i] = AddSysOut(f[i - 1], i, acc.claimed)
    /\ WithSysOuts(acc, cls) = f[Len(scan.sysOut)]

\* The system outputs are added one after the other.
LEMMA SysOutsSteps ==
    ASSUME scan \in ScanType, NEW acc, acc.done \in NamedLists, NEW cls, cls = "out", shader.stage = "PS"
    PROVE  \E f : SysOutsBy(f, acc, cls)
  <1> DEFINE n == Len(scan.sysOut)
             A == NamedLists
             b == acc.done
             st == [i \in 1 .. n |-> [a \in A |-> AddSysOut(a, i, acc.claimed)]]
             F == CHOOSE f : f = [k \in 0 .. n |-> IF k = 0 THEN b ELSE AddSysOut(f[k - 1], k, acc.claimed)]
  <1>1. WithSysOuts(acc, cls) = F[n]
    BY DEF WithSysOuts
  <1>2. n \in Nat /\ b \in A /\ \A i \in 1 .. n, a \in A : AddSysOut(a, i, acc.claimed) \in A
    <2>1. n \in Nat
      <3>1. scan.sysOut \in Seq(SysOut)
        BY DEF ScanType
      <3> QED
        BY <3>1, LenProperties
    <2> QED
      BY <2>1, AddSysOutType
  <1>3. \A i \in 1 .. n, a \in A : st[i][a] = AddSysOut(a, i, acc.claimed) /\ st[i][a] \in A
    BY <1>2
  <1> HIDE DEF n, A, b, st
  <1>4. PICK f : Computes(f, n, A, b, st)
    BY <1>2, <1>3, Recursion
  <1>5. f \in [0 .. n -> A] /\ f[0] = b /\ \A i \in 1 .. n : f[i] = AddSysOut(f[i - 1], i, acc.claimed)
    <2>1. f \in [0 .. n -> A] /\ f[0] = b /\ \A i \in 1 .. n : f[i] = st[i][f[i - 1]]
      BY <1>4 DEF Computes
    <2>2. \A i \in 1 .. n : f[i - 1] \in A
      <3>1. \A i \in 1 .. n : i - 1 \in 0 .. n
        BY <1>2
      <3> QED
        BY <2>1, <3>1
    <2> QED
      BY <1>3, <2>1, <2>2
  <1>6. f = [k \in 0 .. n |-> IF k = 0 THEN b ELSE AddSysOut(f[k - 1], k, acc.claimed)]
    BY <1>2, <1>5
  <1>7. F = [k \in 0 .. n |-> IF k = 0 THEN b ELSE AddSysOut(F[k - 1], k, acc.claimed)]
    BY <1>6
  <1> HIDE DEF F
  <1>8. F[0] = b /\ \A i \in 1 .. n : F[i] = AddSysOut(F[i - 1], i, acc.claimed)
    BY <1>2, <1>7
  <1> DEFINE S == {k \in 0 .. n : F[k] \in A}
  <1>9. 0 \in S /\ \A i \in 1 .. n : i - 1 \in S => i \in S
    BY <1>2, <1>8
  <1>10. \A i \in 0 .. n : i \in S
    <2> HIDE DEF S
    <2> QED
      BY <1>2, <1>9, Induct
  <1>11. F \in [0 .. n -> A]
    BY <1>7, <1>10
  <1>12. SysOutsBy(F, acc, cls)
    BY <1>1, <1>8, <1>11 DEF SysOutsBy, n, A, b
  <1> QED
    BY <1>12

\* What is added to the entries of a pixel shader's outputs comes behind them.
LEMMA WithSysOutsType ==
    ASSUME scan \in ScanType, NEW acc, acc.done \in NamedLists, NEW cls
    PROVE  WithSysOuts(acc, cls) \in NamedLists /\ Extends(WithSysOuts(acc, cls), acc.done)
  <1> DEFINE n == Len(scan.sysOut)
  <1>1. Extends(acc.done, acc.done)
    <2>1. Len(acc.done) \in Nat
      BY LenProperties DEF NamedLists
    <2> QED
      BY <2>1 DEF Extends
  <1>2. CASE cls = "out" /\ shader.stage = "PS"
    <2>1. PICK f : SysOutsBy(f, acc, cls)
      BY <1>2, SysOutsSteps
    <2>2. /\ f \in [0 .. n -> NamedLists] /\ f[0] = acc.done /\ WithSysOuts(acc, cls) = f[n]
          /\ \A i \in 1 .. n : f[i] = AddSysOut(f[i - 1], i, acc.claimed)
      BY <2>1 DEF SysOutsBy
    <2>3. n \in Nat
      <3>1. scan.sysOut \in Seq(SysOut)
        BY DEF ScanType
      <3> QED
        BY <3>1, LenProperties
    <2>4. \A i \in 1 .. n : Extends(f[i], f[i - 1])
      <3>1. \A i \in 1 .. n : i - 1 \in 0 .. n
        BY <2>3
      <3> QED
        BY <2>2, <3>1, AddSysOutType
    <2> HIDE DEF n
    <2> DEFINE S == {i \in 0 .. n : Extends(f[i], acc.done)}
    <2>5. 0 \in S
      <3>1. 0 \in 0 .. n
        BY <2>3
      <3> QED
        BY <1>1, <2>2, <3>1
    <2>6. ASSUME NEW i \in 1 .. n, i - 1 \in S PROVE i \in S
      <3>1. i - 1 \in 0 .. n /\ i \in 0 .. n
        BY <2>3
      <3>2. f[i] \in NamedLists /\ f[i - 1] \in NamedLists /\ Extends(f[i - 1], acc.done)
        BY <2>2, <2>6, <3>1
      <3>3. Extends(f[i], acc.done)
        BY <2>4, <3>2, ExtendsTransitive
      <3> QED
        BY <3>1, <3>3
    <2>7. n \in S
      <3> HIDE DEF S
      <3> QED
        BY <2>3, <2>5, <2>6, Induct
    <2>8. f[n] \in NamedLists
      BY <2>2, <2>3
    <2> QED
      BY <2>2, <2>7, <2>8
  <1>3. CASE ~ (cls = "out" /\ shader.stage = "PS")
    BY <1>1, <1>3 DEF WithSysOuts
  <1> QED
    BY <1>2, <1>3

\* Every entry of a list gets an index.
LEMMA SemIndexType ==
    ASSUME NEW es \in NamedLists, NEW i \in 1 .. Len(es)
    PROVE  SemIndex(es, i) \in Nat
  <1>1. Len(es) \in Nat /\ es[i] \in NamedType
    BY LenProperties, ElementOfSeq DEF NamedLists
  <1>2. es[i].semIdx \in Nat \union {Unset} /\ es[i].reg \in Nat /\ es[i].mask \in SUBSET Component
    BY <1>1 DEF NamedType, EntryType
  <1>3. es[i].reg * 4 + FirstComp(es[i].mask) \in Nat
    <2>1. FirstComp(es[i].mask) \in 0 .. 3
      BY <1>2, FirstCompType
    <2> DEFINE r == es[i].reg
               k == FirstComp(es[i].mask)
    <2>2. r \in Nat /\ k \in 0 .. 3
      BY <1>2, <2>1
    <2> HIDE DEF r, k
    <2>3. r * 4 + k \in Nat
      BY <2>2
    <2> QED
      BY <2>3 DEF r, k
  <1> DEFINE T == {j \in 1 .. i - 1 : es[j].stream = es[i].stream /\ es[j].name = es[i].name}
  <1>4. Cardinality(T) \in Nat
    <2>1. IsFiniteSet(1 .. i - 1)
      BY <1>1, FS_Interval
    <2>2. IsFiniteSet(T)
      BY <2>1, FS_Subset
    <2> QED
      BY <2>2, FS_CardinalityType
  <1> HIDE DEF T
  <1>5. SemIndex(es, i) = IF es[i].semIdx # Unset THEN es[i].semIdx
                          ELSE IF Located(es[i]) THEN es[i].reg * 4 + FirstComp(es[i].mask)
                          ELSE Cardinality(T)
    BY DEF SemIndex, T
  <1> QED
    BY <1>2, <1>3, <1>4, <1>5

\* The entries of a class, named and numbered: each is in its place, and what
\* is added comes behind them.
LEMMA AssignedType ==
    ASSUME scan \in ScanType, NEW es \in EntryLists, NEW cls
    PROVE  /\ Assigned(es, cls) \in ReadyLists
           /\ Len(es) \in Nat /\ Len(Assigned(es, cls)) \in Nat /\ Len(es) <= Len(Assigned(es, cls))
           /\ \A i \in 1 .. Len(es) : NumberedFrom(Assigned(es, cls)[i], es[i], cls)
           /\ \A i \in Len(es) + 1 .. Len(Assigned(es, cls)) : Assigned(es, cls)[i].reg = NoReg
  <1> DEFINE acc == ResolvedAll(es, cls)
             all == WithSysOuts(acc, cls)
             x == [i \in DOMAIN all |-> [all[i] EXCEPT !.semIdx = SemIndex(all, i)]]
  <1>1. acc.done \in NamedLists /\ NamedSoFar(acc.done, es, cls, Len(es))
    BY ResolvedAllType
  <1>2. all \in NamedLists /\ Extends(all, acc.done)
    <2> HIDE DEF acc
    <2> QED
      BY <1>1, WithSysOutsType
  <1>3. Assigned(es, cls) = x
    BY DEF Assigned
  <1> HIDE DEF acc, all
  <1>4. /\ Len(all) \in Nat /\ DOMAIN all = 1 .. Len(all) /\ Len(all) <= MaxSigEntries
        /\ \A i \in 1 .. Len(all) : all[i] \in NamedType /\ SemIndex(all, i) \in Nat
    BY <1>2, LenProperties, ElementOfSeq, SemIndexType DEF NamedLists
  <1>5. ASSUME NEW e \in NamedType, NEW k \in Nat
        PROVE  /\ [e EXCEPT !.semIdx = k] \in ReadyType
               /\ [e EXCEPT !.semIdx = k].reg = e.reg
               /\ [e EXCEPT !.semIdx = k].semIdx = k
               /\ \A d : SameElement(e, d, cls) => SameElement([e EXCEPT !.semIdx = k], d, cls)
    BY DEF ReadyType, NamedType, EntryType, SameElement
  <1>6. \A i \in 1 .. Len(all) : x[i] = [all[i] EXCEPT !.semIdx = SemIndex(all, i)]
    BY <1>4
  <1>7. x = [i \in 1 .. Len(all) |-> [all[i] EXCEPT !.semIdx = SemIndex(all, i)]]
    BY <1>4
  <1> HIDE DEF x
  <1>8. ASSUME NEW i \in 1 .. Len(all) PROVE x[i] \in ReadyType /\ x[i].reg = all[i].reg
    <2> DEFINE e == all[i]
               k == SemIndex(all, i)
    <2>1. e \in NamedType /\ k \in Nat /\ x[i] = [e EXCEPT !.semIdx = k]
      BY <1>4, <1>6
    <2> HIDE DEF e, k
    <2>2. x[i] \in ReadyType /\ x[i].reg = e.reg
      BY <1>5, <2>1
    <2> QED
      BY <2>2 DEF e
  <1>9. x \in Seq(ReadyType) /\ Len(x) = Len(all)
    <2>1. x \in [1 .. Len(all) -> ReadyType]
      BY <1>7, <1>8
    <2>2. x \in Seq(ReadyType)
      BY <1>4, <2>1, SeqDef
    <2> QED
      BY <1>4, <2>1, <2>2, LenProperties
  <1>10. x \in ReadyLists
    BY <1>4, <1>9 DEF ReadyLists
  <1>11. Len(es) \in Nat /\ Len(acc.done) = Len(es) /\ Len(es) <= Len(all)
    BY <1>1, <1>2, LenProperties DEF NamedSoFar, Extends, EntryLists
  <1>12. ASSUME NEW i \in 1 .. Len(es) PROVE NumberedFrom(x[i], es[i], cls)
    <2> DEFINE e == all[i]
               d == es[i]
               k == SemIndex(all, i)
    <2>1. i \in 1 .. Len(all)
      BY <1>4, <1>11
    <2>2. all[i] = acc.done[i] /\ NamedFrom(acc.done[i], es[i], cls)
      BY <1>1, <1>2, <1>11 DEF Extends, NamedSoFar
    <2>3. NamedFrom(e, d, cls) /\ e \in NamedType /\ k \in Nat
          /\ x[i] = [e EXCEPT !.semIdx = k]
      BY <1>4, <1>6, <2>1, <2>2
    <2>4. k = IF e.semIdx # Unset THEN e.semIdx
              ELSE IF Located(e) THEN e.reg * 4 + FirstComp(e.mask)
              ELSE Cardinality({j \in 1 .. i - 1 : all[j].stream = e.stream /\ all[j].name = e.name})
      BY DEF SemIndex
    <2>5. es \in Seq(EntryType) /\ d \in EntryType
      BY ElementOfSeq DEF EntryLists
    <2>6. d.reg \in Nat /\ Unset \notin Nat
      BY <2>5 DEF EntryType, Unset
    <2> HIDE DEF e, d, k
    <2>7. SameElement(e, d, cls) /\ SameElement(x[i], d, cls) /\ x[i].semIdx = k
      BY <1>5, <2>3 DEF NamedFrom
    <2>8. ASSUME d.reg # NoReg, d.semIdx = Unset, IsTarget(cls, d.sysval)
          PROVE  k = d.reg
      <3>1. e.semIdx = d.reg
        BY <2>3, <2>8 DEF NamedFrom
      <3>2. e.semIdx # Unset
        BY <2>6, <3>1
      <3> QED
        BY <2>4, <3>1, <3>2
    <2>9. ASSUME d.reg # NoReg, d.semIdx = Unset, PickName(cls, d.sysval) = "ATTRIB"
          PROVE  k = d.reg * 4 + FirstComp(d.mask)
      <3>1. ~ IsTarget(cls, d.sysval)
        BY <2>9 DEF PickName
      <3>2. e.semIdx = Unset
        BY <2>3, <2>9, <3>1 DEF NamedFrom
      <3>3. e.reg = d.reg /\ e.mask = d.mask /\ e.name = "ATTRIB"
        BY <2>7, <2>9 DEF SameElement
      <3>4. Located(e)
        BY <2>9, <3>3 DEF Located
      <3>5. k = e.reg * 4 + FirstComp(e.mask)
        BY <2>4, <3>2, <3>4
      <3> QED
        BY <3>3, <3>5
    <2>10. NumberedFrom(x[i], d, cls)
      BY <2>7, <2>8, <2>9 DEF NumberedFrom
    <2> QED
      BY <2>10 DEF d
  <1>13. ASSUME NEW i \in Len(es) + 1 .. Len(all) PROVE x[i].reg = NoReg
    <2>1. i \in 1 .. Len(all) /\ i \in Len(acc.done) + 1 .. Len(all)
      BY <1>4, <1>11
    <2>2. all[i].reg = NoReg
      BY <1>2, <2>1 DEF Extends
    <2> QED
      BY <1>8, <2>1, <2>2
  <1> QED
    BY <1>3, <1>4, <1>9, <1>10, <1>11, <1>12, <1>13

-----------------------------------------------------------------------------
\* Entries with a name and an index are entries.
LEMMA ReadyAreEntries == ReadyLists \subseteq EntryLists
  <1> SUFFICES ASSUME NEW es \in ReadyLists PROVE es \in EntryLists
    OBVIOUS
  <1>1. /\ Len(es) \in Nat /\ Len(es) <= MaxSigEntries
        /\ es \in [1 .. Len(es) -> ReadyType]
    BY LenProperties DEF ReadyLists
  <1>2. es \in [1 .. Len(es) -> EntryType]
    BY <1>1 DEF ReadyType, NamedType
  <1>3. es \in Seq(EntryType)
    BY <1>1, <1>2, SeqDef
  <1> QED
    BY <1>1, <1>3 DEF EntryLists

\* Entries without numbers are entries.
LEMMA RawAreEntries == Seq(RawType) \subseteq Seq(EntryType) /\ RawLists \subseteq EntryLists
  <1>1. ASSUME NEW es \in Seq(RawType) PROVE es \in Seq(EntryType)
    <2>1. Len(es) \in Nat /\ es \in [1 .. Len(es) -> RawType]
      BY LenProperties
    <2>2. es \in [1 .. Len(es) -> EntryType]
      BY <2>1 DEF RawType
    <2> QED
      BY <2>1, <2>2, SeqDef
  <1> QED
    BY <1>1 DEF RawLists, EntryLists

\* What is collected for a class is the completed entries in order, and fits in
\* the array.
LEMMA CollectedType ==
    ASSUME shader \in Shader, scan \in ScanType, NEW cls \in Class
    PROVE  /\ Sorted(Completed(cls)) \in RawLists
           /\ Completed(cls) \in RawLists
           /\ Len(Completed(cls)) \in Nat /\ Len(Sorted(Completed(cls))) = Len(Completed(cls))
           /\ Elements(Sorted(Completed(cls)), Len(Completed(cls))) = Elements(Completed(cls), Len(Completed(cls)))
  <1> DEFINE es == Completed(cls)
             s == Sorted(es)
  <1>1. es \in RawLists
    BY CompletedType
  <1> HIDE DEF es
  <1>2. /\ es \in Seq(RawType) /\ es \in Seq(EntryType) /\ Len(es) <= MaxSigEntries /\ Len(es) \in Nat
        /\ \A i \in 1 .. Len(es) : es[i] \in RawType
    BY <1>1, RawAreEntries, LenProperties, ElementOfSeq DEF RawLists
  <1>3. s \in Seq(EntryType) /\ Len(s) = Len(es) /\ Elements(s, Len(es)) = Elements(es, Len(es))
    BY <1>2, SortedProps
  <1> HIDE DEF s
  <1>4. \A i \in 1 .. Len(es) : s[i] \in RawType
    <2> SUFFICES ASSUME NEW i \in 1 .. Len(es) PROVE s[i] \in RawType
      OBVIOUS
    <2>1. s[i] \in Elements(s, Len(es))
      BY DEF Elements
    <2>2. s[i] \in Elements(es, Len(es))
      BY <1>3, <2>1
    <2> QED
      BY <1>2, <2>2 DEF Elements
  <1>5. s \in Seq(RawType)
    <2>1. s \in [1 .. Len(es) -> EntryType]
      BY <1>3, LenProperties
    <2>2. s \in [1 .. Len(es) -> RawType]
      BY <1>4, <2>1
    <2> QED
      BY <1>2, <2>2, SeqDef
  <1> QED
    BY <1>1, <1>2, <1>3, <1>5 DEF RawLists, es, s

\* An empty array.
LEMMA NoEntriesType == << >> \in EntryLists /\ << >> \in RawLists /\ NoEntries \in [Class -> EntryLists]
  <1>1. << >> \in Seq(EntryType) /\ << >> \in Seq(RawType) /\ Len(<< >>) = 0 /\ MaxSigEntries \in Nat
    BY ShaderTokensAssumption
  <1>2. << >> \in EntryLists /\ << >> \in RawLists
    BY <1>1 DEF EntryLists, RawLists
  <1> QED
    BY <1>2 DEF NoEntries

Phase == {"idle", "scan", "collected", "named", "built", "declared"}

\* The phases in which every entry has its name and index.
ReadyPhase == {"named", "built", "declared"}

\* What the scan and the entry sets hold.
SigTypes ==
    /\ scan \in ScanType /\ scanning \in BOOLEAN
    /\ phase \in Phase
    /\ entries \in [Class -> EntryLists]
    /\ phase = "collected" => entries \in [Class -> RawLists]
    /\ phase \in ReadyPhase => entries \in [Class -> ReadyLists]

LEMMA SigTypesInit == Init => SigTypes
  <1> SUFFICES ASSUME Init PROVE SigTypes
    OBVIOUS
  <1>1. scan = NewScan /\ scanning = FALSE /\ phase = "idle" /\ entries = NoEntries
    BY DEF Init
  <1>2. NewScan \in ScanType
    <2>1. << >> \in DeclLists /\ << >> \in {os \in Seq(SysOut) : Len(os) <= 4}
      <3>1. << >> \in Seq(DeclType) /\ << >> \in Seq(SysOut) /\ Len(<< >>) = 0 /\ MaxSigEntries \in Nat
        BY ShaderTokensAssumption
      <3> QED
        BY <3>1 DEF DeclLists
    <2> QED
      BY <2>1 DEF NewScan, ScanType
  <1> QED
    BY <1>1, <1>2, NoEntriesType DEF SigTypes, Phase, ReadyPhase

\* The entries and the phase change together; the scan does only in its phase.
LEMMA SigTypesKept == ScanInv /\ SigTypes /\ [Next]_vars => SigTypes'
  <1> SUFFICES ASSUME ScanInv, SigTypes, [Next]_vars PROVE SigTypes'
    OBVIOUS
  <1>0. shader \in Shader /\ scan \in ScanType /\ entries \in [Class -> EntryLists]
    BY DEF ScanInv, SigTypes
  <1>1. CASE CreateShader
    <2>1. scan' = NewScan /\ scanning' = TRUE /\ phase' = "scan" /\ entries' = NoEntries
      BY <1>1 DEF CreateShader, ScanBegins
    <2>2. NewScan \in ScanType
      <3>1. << >> \in DeclLists /\ << >> \in {os \in Seq(SysOut) : Len(os) <= 4}
        <4>1. << >> \in Seq(DeclType) /\ << >> \in Seq(SysOut) /\ Len(<< >>) = 0 /\ MaxSigEntries \in Nat
          BY ShaderTokensAssumption
        <4> QED
          BY <4>1 DEF DeclLists
      <3> QED
        BY <3>1 DEF NewScan, ScanType
    <2> QED
      BY <2>1, <2>2, NoEntriesType DEF SigTypes, Phase, ReadyPhase
  <1>2. CASE Scan
    <2>1. phase = "scan" /\ phase' = phase /\ entries' = entries
      BY <1>2 DEF Scan
    <2>2. scan' \in ScanType /\ scanning' \in BOOLEAN
      <3>1. CASE ScanNext
        <4> DEFINE n == InstructionLength(at)
        <4>1. scan' = Scanned(at, n) /\ scanning' = scanning /\ at < End /\ WellFormed(at)
          BY <3>1 DEF ScanNext
        <4>2. at \in Nat /\ 1 <= at
          BY WordTypes DEF ScanInv
        <4>3. n \in Nat /\ at + n <= End
          BY <1>0, <4>1, <4>2, LengthInside
        <4> HIDE DEF n
        <4> QED
          BY <1>0, <4>1, <4>2, <4>3, ScannedType DEF SigTypes
      <3>2. CASE ScanEnds
        BY <3>2 DEF ScanEnds, SigTypes
      <3> QED
        BY <1>2, <3>1, <3>2 DEF Scan
    <2> QED
      BY <1>0, <2>1, <2>2 DEF SigTypes, ReadyPhase
  <1>3. CASE Collect /\ Complete
    <2>1. /\ scan' = scan /\ scanning' = scanning /\ phase' = "collected"
          /\ entries' = [c \in Class |-> IF c \in Classes THEN Sorted(Completed(c)) ELSE << >>]
      BY <1>3 DEF Collect, tokenVars
    <2>2. entries' \in [Class -> RawLists]
      BY <1>0, <2>1, CollectedType, NoEntriesType
    <2>3. entries' \in [Class -> EntryLists]
      BY <2>2, RawAreEntries
    <2> QED
      BY <2>1, <2>2, <2>3 DEF SigTypes, Phase, ReadyPhase
  <1>4. CASE AssignSemantics /\ Complete
    <2>1. /\ scan' = scan /\ scanning' = scanning /\ phase' = "named"
          /\ entries' = [c \in Class |-> Assigned(entries[c], c)]
      BY <1>4 DEF AssignSemantics, tokenVars
    <2>2. entries' \in [Class -> ReadyLists]
      BY <1>0, <2>1, AssignedType
    <2>3. entries' \in [Class -> EntryLists]
      BY <2>2, ReadyAreEntries
    <2> QED
      BY <2>1, <2>2, <2>3 DEF SigTypes, Phase
  <1>5. ASSUME UNCHANGED tokenVars, entries' = entries,
               \/ phase' = "idle"
               \/ phase' \in Phase \ {"collected"} /\ phase \in ReadyPhase
               \/ phase' = phase
        PROVE  SigTypes'
    <2>1. scan' = scan /\ scanning' = scanning /\ entries' = entries
      BY <1>5 DEF tokenVars
    <2>2. CASE phase' = "idle"
      BY <2>1, <2>2 DEF SigTypes, Phase, ReadyPhase
    <2>3. CASE phase' \in Phase \ {"collected"} /\ phase \in ReadyPhase
      BY <2>1, <2>3 DEF SigTypes
    <2>4. CASE phase' = phase
      BY <2>1, <2>4 DEF SigTypes
    <2> QED
      BY <1>5, <2>2, <2>3, <2>4
  <1>6. CASE CreateShaderRejected
    BY <1>5, <1>6 DEF CreateShaderRejected, sigVars
  <1>7. CASE BuildDxbc
    BY <1>5, <1>7 DEF BuildDxbc, Phase, ReadyPhase
  <1>8. CASE BuildDxbcFails
    BY <1>5, <1>8 DEF BuildDxbcFails
  <1>9. CASE DeclareStreamOutput
    BY <1>5, <1>9 DEF DeclareStreamOutput, Phase, ReadyPhase
  <1>10. CASE CreateNative
    BY <1>5, <1>10 DEF CreateNative
  <1>11. CASE CreateNativeFails
    BY <1>5, <1>11 DEF CreateNativeFails
  <1>12. ASSUME NEW v \in DOMAIN created, NEW regs \in CreatedShader(v).layouts, ResolveElements(v, regs)
         PROVE  SigTypes'
    BY <1>5, <1>12 DEF ResolveElements, sigVars
  <1>13. CASE UNCHANGED vars
    BY <1>5, <1>13 DEF vars, sigVars
  <1> QED
    BY <1>1, <1>2, <1>3, <1>4, <1>6, <1>7, <1>8, <1>9, <1>10, <1>11, <1>12, <1>13 DEF Next, Complete

\* The scan and the entry sets hold what they are meant to hold, whatever the
\* program and whatever the runtime hands over.
THEOREM SignatureTypes == Spec => []SigTypes
  BY SigTypesInit, SigTypesKept, ScanInvariant, PTL DEF Spec

\* No array of the scratch memory overflows, and every entry has a number by
\* the time the container is written (tritonDxbc.c:622-665, 822-826, 868-870,
\* 979-994).
THEOREM TypesHold == Spec => []TypeOK
  <1>1. ScanInv /\ SigTypes => TypeOK
    <2> SUFFICES ASSUME ScanInv, SigTypes PROVE TypeOK
      OBVIOUS
    <2>1. shader \in Shader /\ at \in 1 .. End /\ highest \in Nat /\ scanning \in BOOLEAN
      BY DEF ScanInv, SigTypes
    <2>2. \A c \in Class : Len(scan[c]) <= MaxSigEntries
      BY DEF SigTypes, ScanType, DeclLists, Class
    <2>3. phase \in {"idle", "scan", "collected", "named", "built", "declared"}
      BY DEF SigTypes, Phase
    <2>4. ASSUME NEW c \in Class PROVE Len(entries[c]) <= MaxSigEntries
      BY DEF SigTypes, EntryLists
    <2>5. ASSUME NEW c \in Class, NEW i \in DOMAIN entries[c]
          PROVE  /\ entries[c][i].semIdx \in Nat \/ phase \notin {"named", "built", "declared"}
                 /\ entries[c][i].mask \subseteq Component
      <3>1. entries[c] \in Seq(EntryType)
        BY DEF SigTypes, EntryLists
      <3>2. entries[c][i] \in EntryType
        BY <3>1, LenProperties, ElementOfSeq
      <3>3. ASSUME phase \in ReadyPhase PROVE entries[c][i].semIdx \in Nat
        <4>1. entries[c] \in Seq(ReadyType)
          BY <3>3 DEF SigTypes, ReadyLists
        <4>2. entries[c][i] \in ReadyType
          BY <4>1, LenProperties, ElementOfSeq
        <4> QED
          BY <4>2 DEF ReadyType
      <3> QED
        BY <3>2, <3>3 DEF EntryType, ReadyPhase
    <2> QED
      BY <2>1, <2>2, <2>3, <2>4, <2>5 DEF TypeOK
  <1> QED
    BY ScanInvariant, SignatureTypes, <1>1, PTL

-----------------------------------------------------------------------------
\* A list whose entries have names.
HasNames(es) ==
    Len(es) \in Nat /\ DOMAIN es = 1 .. Len(es) /\ \A i \in 1 .. Len(es) : es[i].name \in NameType

\* How long a name is.
LEMMA NameBytesType ==
    ASSUME NEW name \in NameType
    PROVE  NameBytes(name) \in 7 .. 26
  BY DEF NameType, NameBytes

\* The entries of an element are of three sizes.
LEMMA ElementsBytes ==
    ASSUME NEW n \in Nat, NEW tag
    PROVE  /\ n * EntrySize(tag) \in Nat /\ n * EntrySize(tag) <= 32 * n
           /\ EntrySize(tag) \in Nat
           /\ tag = "ISGN" => n * EntrySize(tag) = 24 * n
  <1>1. EntrySize(tag) \in {24, 28, 32} /\ EntrySize("ISGN") = 24
    BY DEF EntrySize, HasMinPrec, HasStream
  <1>2. \A x \in {24, 28, 32} : n * x \in Nat /\ n * x <= 32 * n
    OBVIOUS
  <1> QED
    BY <1>1, <1>2

\* An offset is rounded up to a whole number of words.
LEMMA AlignedUp ==
    ASSUME NEW n \in Nat
    PROVE  Aligned(n) \in Nat /\ Aligned(n) % 4 = 0 /\ n <= Aligned(n) /\ Aligned(n) <= n + 3
  <1>1. /\ n % 4 \in 0 .. 3
        /\ n = 4 * (n \div 4) + (n % 4)
        /\ n \div 4 \in Nat
    OBVIOUS
  <1> DEFINE r == n % 4
             q == n \div 4
             up == (4 - r) % 4
  <1>2. r \in 0 .. 3 /\ q \in Nat /\ n = 4 * q + r
    BY <1>1
  <1>3. Aligned(n) = n + up
    BY DEF Aligned
  <1> HIDE DEF r, q
  <1>4. up = IF r = 0 THEN 0 ELSE 4 - r
    BY <1>2
  <1> HIDE DEF up
  <1>5. n + up = IF r = 0 THEN 4 * q ELSE 4 * (q + 1)
    BY <1>2, <1>4
  <1>6. \A k \in Nat : (4 * k) % 4 = 0
    OBVIOUS
  <1>7. n + up \in Nat /\ n <= n + up /\ n + up <= n + 3
    BY <1>2, <1>4
  <1>8. (n + up) % 4 = 0
    <2>1. q + 1 \in Nat
      BY <1>2
    <2> QED
      BY <1>2, <1>5, <1>6, <2>1
  <1> QED
    BY <1>3, <1>7, <1>8

\* f has where the names of the first i elements end.
NamesEndBy(f, es, tag) ==
    /\ f \in [0 .. Len(es) -> Nat] /\ f[0] = 8 + Len(es) * EntrySize(tag)
    /\ \A i \in 1 .. Len(es) : f[i] = f[i - 1] + (IF NewName(es, i) THEN NameBytes(es[i].name) ELSE 0)
    /\ \A k \in 0 .. Len(es) : NamesEnd(es, tag, k) = f[k]

\* The names are placed one after the other.
LEMMA NamesEndSteps ==
    ASSUME NEW es, HasNames(es), NEW tag
    PROVE  \E f : NamesEndBy(f, es, tag)
  <1> DEFINE n == Len(es)
             A == Nat
             b == 8 + Len(es) * EntrySize(tag)
             st == [i \in 1 .. n |-> [a \in A |-> a + (IF NewName(es, i) THEN NameBytes(es[i].name) ELSE 0)]]
             F == CHOOSE f : f = [k \in 0 .. n |-> IF k = 0 THEN b ELSE f[k - 1] + (IF NewName(es, k) THEN NameBytes(es[k].name) ELSE 0)]
  <1>1. \A k \in 0 .. n : NamesEnd(es, tag, k) = F[k]
    BY DEF NamesEnd
  <1>2. /\ n \in Nat /\ b \in A
        /\ \A i \in 1 .. n, a \in A : a + (IF NewName(es, i) THEN NameBytes(es[i].name) ELSE 0) \in A
    <2>1. n \in Nat /\ \A i \in 1 .. n : NameBytes(es[i].name) \in 7 .. 26
      BY NameBytesType DEF HasNames
    <2>2. b \in Nat
      BY <2>1, ElementsBytes
    <2>3. \A i \in 1 .. n : (IF NewName(es, i) THEN NameBytes(es[i].name) ELSE 0) \in Nat
      BY <2>1
    <2> HIDE DEF b
    <2> QED
      BY <2>1, <2>2, <2>3
  <1>3. \A i \in 1 .. n, a \in A : st[i][a] = a + (IF NewName(es, i) THEN NameBytes(es[i].name) ELSE 0) /\ st[i][a] \in A
    BY <1>2
  <1> HIDE DEF n, A, b, st
  <1>4. PICK f : Computes(f, n, A, b, st)
    BY <1>2, <1>3, Recursion
  <1>5. f \in [0 .. n -> A] /\ f[0] = b /\ \A i \in 1 .. n : f[i] = f[i - 1] + (IF NewName(es, i) THEN NameBytes(es[i].name) ELSE 0)
    <2>1. f \in [0 .. n -> A] /\ f[0] = b /\ \A i \in 1 .. n : f[i] = st[i][f[i - 1]]
      BY <1>4 DEF Computes
    <2>2. \A i \in 1 .. n : f[i - 1] \in A
      <3>1. \A i \in 1 .. n : i - 1 \in 0 .. n
        BY <1>2
      <3> QED
        BY <2>1, <3>1
    <2> QED
      BY <1>3, <2>1, <2>2
  <1>6. f = [k \in 0 .. n |-> IF k = 0 THEN b ELSE f[k - 1] + (IF NewName(es, k) THEN NameBytes(es[k].name) ELSE 0)]
    BY <1>2, <1>5
  <1>7. F = [k \in 0 .. n |-> IF k = 0 THEN b ELSE F[k - 1] + (IF NewName(es, k) THEN NameBytes(es[k].name) ELSE 0)]
    BY <1>6
  <1> HIDE DEF F
  <1>8. F[0] = b /\ \A i \in 1 .. n : F[i] = F[i - 1] + (IF NewName(es, i) THEN NameBytes(es[i].name) ELSE 0)
    BY <1>2, <1>7
  <1> DEFINE S == {k \in 0 .. n : F[k] \in A}
  <1>9. 0 \in S /\ \A i \in 1 .. n : i - 1 \in S => i \in S
    BY <1>2, <1>8
  <1>10. \A i \in 0 .. n : i \in S
    <2> HIDE DEF S
    <2> QED
      BY <1>2, <1>9, Induct
  <1>11. F \in [0 .. n -> A]
    BY <1>7, <1>10
  <1>12. NamesEndBy(F, es, tag)
    BY <1>1, <1>8, <1>11 DEF NamesEndBy, n, A, b
  <1> QED
    BY <1>12

\* The names lie behind the elements, in order, and take no more than their
\* lengths.
LEMMA NamesEndProps ==
    ASSUME NEW es, HasNames(es), NEW tag
    PROVE  /\ \A k \in 0 .. Len(es) : NamesEnd(es, tag, k) \in Nat
           /\ \A j \in 0 .. Len(es), k \in 0 .. Len(es) : j <= k => NamesEnd(es, tag, j) <= NamesEnd(es, tag, k)
           /\ NamesEnd(es, tag, 0) = 8 + Len(es) * EntrySize(tag)
           /\ NamesEnd(es, tag, Len(es)) <= 8 + Len(es) * EntrySize(tag) + 26 * Len(es)
           /\ \A k \in 1 .. Len(es) :
                 NewName(es, k) => NamesEnd(es, tag, k) = NamesEnd(es, tag, k - 1) + NameBytes(es[k].name)
  <1> DEFINE n == Len(es)
             base == 8 + n * EntrySize(tag)
             add == [i \in 1 .. n |-> IF NewName(es, i) THEN NameBytes(es[i].name) ELSE 0]
  <1>1. PICK f : NamesEndBy(f, es, tag)
    BY NamesEndSteps
  <1>2. /\ f \in [0 .. n -> Nat] /\ f[0] = base
        /\ \A i \in 1 .. n : f[i] = f[i - 1] + (IF NewName(es, i) THEN NameBytes(es[i].name) ELSE 0)
        /\ \A k \in 0 .. n : NamesEnd(es, tag, k) = f[k]
    BY <1>1 DEF NamesEndBy
  <1>3. /\ n \in Nat /\ base \in Nat
        /\ \A i \in 1 .. n : NameBytes(es[i].name) \in 7 .. 26
    <2>1. n \in Nat
      BY DEF HasNames
    <2>2. n * EntrySize(tag) \in Nat
      BY <2>1, ElementsBytes
    <2>3. base \in Nat
      <3> DEFINE w == n * EntrySize(tag)
      <3> HIDE DEF w
      <3>1. 8 + w \in Nat
        BY <2>2 DEF w
      <3> QED
        BY <3>1 DEF w
    <2>4. \A i \in 1 .. n : es[i].name \in NameType
      BY DEF HasNames
    <2> QED
      BY <2>1, <2>3, <2>4, NameBytesType
  <1>4. /\ \A i \in 1 .. n : add[i] \in 0 .. 26
        /\ \A i \in 1 .. n : NewName(es, i) => add[i] = NameBytes(es[i].name)
    BY <1>3
  <1>5. \A i \in 1 .. n : f[i] = f[i - 1] + add[i]
    BY <1>2
  <1> HIDE DEF n, base, add
  <1>6. \A i \in 1 .. n : i - 1 \in 0 .. n /\ i \in 0 .. n
    BY <1>3
  <1>7. \A k \in 0 .. n : f[k] <= base + 26 * k
    <2> DEFINE S == {k \in 0 .. n : f[k] <= base + 26 * k}
    <2>1. 0 \in S
      BY <1>2, <1>3
    <2>2. ASSUME NEW i \in 1 .. n, i - 1 \in S PROVE i \in S
      <3>1. f[i - 1] \in Nat /\ f[i - 1] <= base + 26 * (i - 1) /\ add[i] \in 0 .. 26
        BY <1>2, <1>4, <1>6, <2>2
      <3>2. f[i] <= base + 26 * i
        BY <1>3, <1>5, <3>1
      <3> QED
        BY <1>6, <3>2
    <2>3. \A k \in 0 .. n : k \in S
      <3> HIDE DEF S
      <3> QED
        BY <1>3, <2>1, <2>2, Induct
    <2> QED
      BY <2>3
  <1>8. ASSUME NEW j \in 0 .. n PROVE \A k \in 0 .. n : j <= k => f[j] <= f[k]
    <2> DEFINE S == {k \in 0 .. n : j <= k => f[j] <= f[k]}
    <2>1. f[j] \in Nat
      BY <1>2
    <2>2. 0 \in S
      <3>1. 0 \in 0 .. n /\ (j <= 0 => j = 0)
        BY <1>3
      <3> QED
        BY <2>1, <3>1
    <2>3. ASSUME NEW i \in 1 .. n, i - 1 \in S PROVE i \in S
      <3>1. f[i - 1] \in Nat /\ add[i] \in 0 .. 26 /\ f[i] = f[i - 1] + add[i]
        BY <1>2, <1>4, <1>5, <1>6
      <3>2. CASE j <= i - 1
        <4>1. f[j] <= f[i - 1]
          BY <2>3, <3>2
        <4>2. f[j] <= f[i]
          BY <2>1, <3>1, <4>1
        <4> QED
          BY <1>6, <4>2
      <3>3. CASE ~ (j <= i - 1)
        <4>1. j <= i => j = i
          BY <1>3, <3>3
        <4> QED
          BY <1>6, <2>1, <4>1
      <3> QED
        BY <3>2, <3>3
    <2>4. \A k \in 0 .. n : k \in S
      <3> HIDE DEF S
      <3> QED
        BY <1>3, <2>2, <2>3, Induct
    <2> QED
      BY <2>4
  <1>9. 0 \in 0 .. n /\ n \in 0 .. n
    BY <1>3
  <1>10. \A k \in 0 .. n : NamesEnd(es, tag, k) \in Nat
    BY <1>2
  <1>11. \A j \in 0 .. n, k \in 0 .. n : j <= k => NamesEnd(es, tag, j) <= NamesEnd(es, tag, k)
    BY <1>2, <1>8
  <1>12. NamesEnd(es, tag, 0) = base /\ NamesEnd(es, tag, n) <= base + 26 * n
    BY <1>2, <1>7, <1>9
  <1>13. \A k \in 1 .. n : NewName(es, k) => NamesEnd(es, tag, k) = NamesEnd(es, tag, k - 1) + NameBytes(es[k].name)
    BY <1>2, <1>4, <1>5, <1>6
  <1> QED
    BY <1>10, <1>11, <1>12, <1>13 DEF n, base

\* The first element of a name.
FirstNamed(es, name) == Min({i \in DOMAIN es : es[i].name = name})

LEMMA FirstNamedIs ==
    ASSUME NEW es, HasNames(es), NEW i \in 1 .. Len(es), NEW tag
    PROVE  /\ FirstNamed(es, es[i].name) \in 1 .. Len(es)
           /\ es[FirstNamed(es, es[i].name)].name = es[i].name
           /\ NewName(es, FirstNamed(es, es[i].name))
           /\ NameOffset(es, tag, es[i].name) = NamesEnd(es, tag, FirstNamed(es, es[i].name) - 1)
  <1> DEFINE name == es[i].name
             T == {j \in DOMAIN es : es[j].name = name}
  <1>1. Len(es) \in Nat /\ DOMAIN es = 1 .. Len(es)
    BY DEF HasNames
  <1>2. T \in SUBSET Nat /\ T # {} /\ T \subseteq 1 .. Len(es)
    BY <1>1
  <1>3. FirstNamed(es, name) = Min(T) /\ NameOffset(es, tag, name) = NamesEnd(es, tag, Min(T) - 1)
    BY DEF FirstNamed, NameOffset
  <1>4. \A j \in 1 .. Len(es) : j \in T <=> es[j].name = name
    BY <1>1
  <1> HIDE DEF T, name
  <1>5. Min(T) \in T /\ \A j \in T : Min(T) <= j
    BY <1>2, MinOf
  <1>6. NewName(es, Min(T))
    <2>1. ASSUME NEW j \in 1 .. Min(T) - 1 PROVE es[j].name # es[Min(T)].name
      <3>1. Min(T) \in 1 .. Len(es)
        BY <1>2, <1>5
      <3>2. j \in 1 .. Len(es) /\ ~ (Min(T) <= j)
        BY <1>1, <3>1
      <3> QED
        BY <1>4, <1>5, <3>1, <3>2
    <2> QED
      BY <2>1 DEF NewName
  <1> QED
    BY <1>2, <1>3, <1>4, <1>5, <1>6 DEF name

\* A name lies behind the elements and in front of the end.
LEMMA NamePlace ==
    ASSUME NEW es, HasNames(es), NEW tag, NEW i \in 1 .. Len(es)
    PROVE  /\ NameOffset(es, tag, es[i].name) \in Nat
           /\ NameOffset(es, tag, es[i].name) >= 8 + Len(es) * EntrySize(tag)
           /\ NameOffset(es, tag, es[i].name) + NameBytes(es[i].name) <= NamesEnd(es, tag, Len(es))
  <1> DEFINE k == FirstNamed(es, es[i].name)
  <1>1. /\ k \in 1 .. Len(es) /\ es[k].name = es[i].name /\ NewName(es, k)
        /\ NameOffset(es, tag, es[i].name) = NamesEnd(es, tag, k - 1)
    BY FirstNamedIs
  <1> HIDE DEF k
  <1>2. Len(es) \in Nat
    BY DEF HasNames
  <1>3. 0 \in 0 .. Len(es) /\ k - 1 \in 0 .. Len(es) /\ k \in 0 .. Len(es) /\ Len(es) \in 0 .. Len(es)
        /\ 0 <= k - 1 /\ k <= Len(es)
    BY <1>1, <1>2
  <1>4. /\ NamesEnd(es, tag, k - 1) \in Nat /\ NamesEnd(es, tag, 0) <= NamesEnd(es, tag, k - 1)
        /\ NamesEnd(es, tag, k) <= NamesEnd(es, tag, Len(es))
        /\ NamesEnd(es, tag, 0) = 8 + Len(es) * EntrySize(tag)
        /\ NamesEnd(es, tag, k) = NamesEnd(es, tag, k - 1) + NameBytes(es[k].name)
    BY <1>1, <1>3, NamesEndProps
  <1>5. 8 + Len(es) * EntrySize(tag) \in Nat
    BY <1>2, ElementsBytes
  <1> QED
    BY <1>1, <1>4, <1>5

\* Two names do not overlap.
LEMMA NamesApart ==
    ASSUME NEW es, HasNames(es), NEW tag, NEW i \in 1 .. Len(es), NEW j \in 1 .. Len(es),
           es[i].name # es[j].name
    PROVE  \/ NameOffset(es, tag, es[i].name) >= NameOffset(es, tag, es[j].name) + NameBytes(es[j].name)
           \/ NameOffset(es, tag, es[j].name) >= NameOffset(es, tag, es[i].name) + NameBytes(es[i].name)
  <1>1. ASSUME NEW x \in 1 .. Len(es), NEW y \in 1 .. Len(es),
               FirstNamed(es, es[x].name) < FirstNamed(es, es[y].name)
        PROVE  NameOffset(es, tag, es[y].name) >= NameOffset(es, tag, es[x].name) + NameBytes(es[x].name)
    <2> DEFINE k == FirstNamed(es, es[x].name)
               m == FirstNamed(es, es[y].name)
    <2>1. /\ k \in 1 .. Len(es) /\ es[k].name = es[x].name /\ NewName(es, k)
          /\ NameOffset(es, tag, es[x].name) = NamesEnd(es, tag, k - 1)
          /\ m \in 1 .. Len(es) /\ NameOffset(es, tag, es[y].name) = NamesEnd(es, tag, m - 1)
          /\ k < m
      BY <1>1, FirstNamedIs
    <2> HIDE DEF k, m
    <2>2. Len(es) \in Nat
      BY DEF HasNames
    <2>3. k \in 0 .. Len(es) /\ m - 1 \in 0 .. Len(es) /\ k <= m - 1
      BY <2>1, <2>2
    <2>4. /\ NamesEnd(es, tag, k) = NamesEnd(es, tag, k - 1) + NameBytes(es[k].name)
          /\ NamesEnd(es, tag, k) <= NamesEnd(es, tag, m - 1)
          /\ NamesEnd(es, tag, k) \in Nat /\ NamesEnd(es, tag, m - 1) \in Nat
      BY <2>1, <2>3, NamesEndProps
    <2> QED
      BY <2>1, <2>4
  <1>2. /\ FirstNamed(es, es[i].name) \in 1 .. Len(es) /\ FirstNamed(es, es[j].name) \in 1 .. Len(es)
        /\ FirstNamed(es, es[i].name) # FirstNamed(es, es[j].name)
    BY FirstNamedIs
  <1>3. Len(es) \in Nat
    BY DEF HasNames
  <1>4. FirstNamed(es, es[i].name) < FirstNamed(es, es[j].name) \/ FirstNamed(es, es[j].name) < FirstNamed(es, es[i].name)
    BY <1>2, <1>3
  <1> QED
    BY <1>1, <1>4

-----------------------------------------------------------------------------
\* A list of chunks of some lengths.
HasLengths(chunks) ==
    /\ Len(chunks) \in Nat /\ DOMAIN chunks = 1 .. Len(chunks)
    /\ \A i \in 1 .. Len(chunks) : chunks[i].len \in Nat

\* The chunks are placed one after the other.
LEMMA OffsetSteps ==
    ASSUME NEW chunks, HasLengths(chunks)
    PROVE  /\ Offset(chunks, 1) = HeaderBytes(Len(chunks))
           /\ \A i \in 1 .. Len(chunks) : Offset(chunks, i + 1) = Offset(chunks, i) + 8 + chunks[i].len
           /\ \A i \in 1 .. Len(chunks) + 1 : Offset(chunks, i) \in Nat
  <1> DEFINE n == Len(chunks)
             h == HeaderBytes(n)
             st == [i \in 1 .. n |-> [a \in Nat |-> a + 8 + chunks[i].len]]
             F == CHOOSE f : f = [k \in 1 .. n + 1 |-> IF k = 1 THEN h ELSE f[k - 1] + 8 + chunks[k - 1].len]
  <1>1. \A i : Offset(chunks, i) = F[i]
    BY DEF Offset
  <1>2. n \in Nat /\ h \in Nat /\ \A i \in 1 .. n : chunks[i].len \in Nat
    BY DEF HasLengths, HeaderBytes
  <1>3. \A i \in 1 .. n, a \in Nat : st[i][a] = a + 8 + chunks[i].len /\ st[i][a] \in Nat
    BY <1>2
  <1> HIDE DEF n, h, st
  <1>4. PICK g : Computes(g, n, Nat, h, st)
    BY <1>2, <1>3, Recursion
  <1>5. g \in [0 .. n -> Nat] /\ g[0] = h /\ \A i \in 1 .. n : g[i] = st[i][g[i - 1]]
    BY <1>4 DEF Computes
  <1>6. \A i \in 1 .. n : i - 1 \in 0 .. n /\ g[i - 1] \in Nat
    <2>1. \A i \in 1 .. n : i - 1 \in 0 .. n
      BY <1>2
    <2> QED
      BY <1>5, <2>1
  <1>7. \A i \in 1 .. n : g[i] = g[i - 1] + 8 + chunks[i].len
    BY <1>3, <1>5, <1>6
  <1> DEFINE f == [k \in 1 .. n + 1 |-> g[k - 1]]
  <1>8. f = [k \in 1 .. n + 1 |-> IF k = 1 THEN h ELSE f[k - 1] + 8 + chunks[k - 1].len]
    <2>1. \A k \in 1 .. n + 1 : f[k] = IF k = 1 THEN h ELSE f[k - 1] + 8 + chunks[k - 1].len
      <3> SUFFICES ASSUME NEW k \in 1 .. n + 1
                   PROVE  f[k] = IF k = 1 THEN h ELSE f[k - 1] + 8 + chunks[k - 1].len
        OBVIOUS
      <3>1. CASE k = 1
        BY <1>5, <3>1
      <3>2. CASE k # 1
        <4>1. k - 1 \in 1 .. n /\ k - 1 \in 1 .. n + 1
          BY <1>2, <3>2
        <4>2. f[k - 1] = g[(k - 1) - 1] /\ f[k] = g[k - 1]
          BY <4>1
        <4> QED
          BY <1>7, <3>2, <4>1, <4>2
      <3> QED
        BY <3>1, <3>2
    <2> QED
      BY <2>1
  <1> HIDE DEF f
  <1>9. F = [k \in 1 .. n + 1 |-> IF k = 1 THEN h ELSE F[k - 1] + 8 + chunks[k - 1].len]
    BY <1>8
  <1> HIDE DEF F
  <1>10. F[1] = h
    <2>1. 1 \in 1 .. n + 1
      BY <1>2
    <2> QED
      BY <1>9, <2>1
  <1>11. \A i \in 1 .. n : F[i + 1] = F[i] + 8 + chunks[i].len
    <2> SUFFICES ASSUME NEW i \in 1 .. n PROVE F[i + 1] = F[i] + 8 + chunks[i].len
      OBVIOUS
    <2>1. i + 1 \in 1 .. n + 1 /\ i + 1 # 1 /\ (i + 1) - 1 = i
      BY <1>2
    <2>2. F[i + 1] = F[(i + 1) - 1] + 8 + chunks[(i + 1) - 1].len
      BY <1>9, <2>1
    <2> QED
      BY <2>1, <2>2
  <1>12. \A i \in 1 .. n + 1 : F[i] \in Nat
    <2> DEFINE S == {k \in 0 .. n : F[k + 1] \in Nat}
    <2>1. 0 \in S
      BY <1>2, <1>10
    <2>2. ASSUME NEW i \in 1 .. n, i - 1 \in S PROVE i \in S
      <3>1. F[i] \in Nat
        <4>1. F[(i - 1) + 1] \in Nat /\ (i - 1) + 1 = i
          BY <1>2, <2>2
        <4> QED
          BY <4>1
      <3>2. i \in 0 .. n /\ F[i + 1] \in Nat
        BY <1>2, <1>11, <3>1
      <3> QED
        BY <3>2
    <2>3. \A k \in 0 .. n : k \in S
      <3> HIDE DEF S
      <3> QED
        BY <1>2, <2>1, <2>2, Induct
    <2> SUFFICES ASSUME NEW i \in 1 .. n + 1 PROVE F[i] \in Nat
      OBVIOUS
    <2>4. i - 1 \in 0 .. n /\ (i - 1) + 1 = i
      BY <1>2
    <2> QED
      BY <2>3, <2>4
  <1> QED
    BY <1>1, <1>10, <1>11, <1>12 DEF n, h

\* Chunks of whole words are aligned.
LEMMA OffsetAligned ==
    ASSUME NEW chunks, HasLengths(chunks), \A i \in 1 .. Len(chunks) : chunks[i].len % 4 = 0
    PROVE  \A i \in 1 .. Len(chunks) : Offset(chunks, i) % 4 = 0
  <1> DEFINE n == Len(chunks)
             S == {k \in 0 .. n : Offset(chunks, k + 1) % 4 = 0}
  <1>1. /\ n \in Nat /\ Offset(chunks, 1) = 32 + 4 * n
        /\ \A i \in 1 .. n : /\ Offset(chunks, i + 1) = Offset(chunks, i) + 8 + chunks[i].len
                             /\ chunks[i].len \in Nat /\ chunks[i].len % 4 = 0
        /\ \A i \in 1 .. n + 1 : Offset(chunks, i) \in Nat
    BY OffsetSteps DEF HasLengths, HeaderBytes
  <1> HIDE DEF n
  <1>2. \A x \in Nat, y \in Nat : x % 4 = 0 /\ y % 4 = 0 => (x + 8 + y) % 4 = 0
    OBVIOUS
  <1>3. 0 \in S
    <2>1. \A k \in Nat : (32 + 4 * k) % 4 = 0
      OBVIOUS
    <2>2. 0 \in 0 .. n /\ 0 + 1 = 1 /\ Offset(chunks, 1) % 4 = 0
      BY <1>1, <2>1
    <2> QED
      BY <2>2
  <1>4. ASSUME NEW i \in 1 .. n, i - 1 \in S PROVE i \in S
    <2>1. (i - 1) + 1 = i /\ i \in 0 .. n /\ i \in 1 .. n + 1
      BY <1>1
    <2>2. Offset(chunks, i) % 4 = 0
      BY <1>4, <2>1
    <2>3. Offset(chunks, i + 1) % 4 = 0
      <3> DEFINE x == Offset(chunks, i)
                 y == chunks[i].len
      <3>1. x \in Nat /\ y \in Nat /\ x % 4 = 0 /\ y % 4 = 0 /\ Offset(chunks, i + 1) = x + 8 + y
        BY <1>1, <2>1, <2>2
      <3> HIDE DEF x, y
      <3> QED
        BY <1>2, <3>1
    <2> QED
      BY <2>1, <2>3
  <1>5. \A k \in 0 .. n : k \in S
    <2> HIDE DEF S
    <2> QED
      BY <1>1, <1>3, <1>4, Induct
  <1> SUFFICES ASSUME NEW i \in 1 .. n PROVE Offset(chunks, i) % 4 = 0
    BY DEF n
  <1>6. i - 1 \in 0 .. n /\ (i - 1) + 1 = i
    BY <1>1
  <1> QED
    BY <1>5, <1>6

\* Every chunk ends where the next begins, or at the end of the container.
LEMMA OffsetInside ==
    ASSUME NEW chunks, HasLengths(chunks), NEW i \in 1 .. Len(chunks)
    PROVE  Offset(chunks, i) + 8 + chunks[i].len <= Offset(chunks, Len(chunks) + 1)
  <1> DEFINE n == Len(chunks)
             S == {k \in 0 .. n : k >= i => Offset(chunks, i + 1) <= Offset(chunks, k + 1)}
  <1>1. /\ n \in Nat /\ i \in 1 .. n
        /\ \A k \in 1 .. n : /\ Offset(chunks, k + 1) = Offset(chunks, k) + 8 + chunks[k].len
                             /\ chunks[k].len \in Nat
        /\ \A k \in 1 .. n + 1 : Offset(chunks, k) \in Nat
    BY OffsetSteps DEF HasLengths
  <1> HIDE DEF n
  <1>2. \A k \in 1 .. n : Offset(chunks, k) <= Offset(chunks, k + 1)
    <2> SUFFICES ASSUME NEW k \in 1 .. n PROVE Offset(chunks, k) <= Offset(chunks, k + 1)
      OBVIOUS
    <2> DEFINE x == Offset(chunks, k)
               y == chunks[k].len
    <2>1. k \in 1 .. n + 1
      BY <1>1
    <2>2. x \in Nat /\ y \in Nat /\ Offset(chunks, k + 1) = x + 8 + y
      BY <1>1, <2>1
    <2> HIDE DEF x, y
    <2>3. x <= x + 8 + y
      BY <2>2
    <2> QED
      BY <2>2, <2>3 DEF x
  <1>3. 0 \in S
    BY <1>1
  <1>4. ASSUME NEW k \in 1 .. n, k - 1 \in S PROVE k \in S
    <2>1. k \in 0 .. n /\ (k - 1) + 1 = k
      BY <1>1
    <2>2. CASE k < i
      BY <1>1, <2>1, <2>2
    <2>3. CASE k = i
      <3>1. i + 1 \in 1 .. n + 1 /\ Offset(chunks, i + 1) \in Nat
        BY <1>1
      <3>2. Offset(chunks, i + 1) <= Offset(chunks, k + 1)
        BY <2>3, <3>1
      <3> QED
        BY <2>1, <3>2
    <2>4. CASE k > i
      <3>1. Offset(chunks, i + 1) <= Offset(chunks, k)
        <4>1. k - 1 >= i
          BY <1>1, <2>4
        <4> QED
          BY <1>4, <2>1, <4>1
      <3>2. /\ Offset(chunks, k) <= Offset(chunks, k + 1)
            /\ Offset(chunks, i + 1) \in Nat /\ Offset(chunks, k) \in Nat /\ Offset(chunks, k + 1) \in Nat
        <4>1. i + 1 \in 1 .. n + 1 /\ k \in 1 .. n + 1 /\ k + 1 \in 1 .. n + 1
          BY <1>1
        <4> QED
          BY <1>1, <1>2, <4>1
      <3>3. Offset(chunks, i + 1) <= Offset(chunks, k + 1)
        <4> DEFINE x == Offset(chunks, i + 1)
                   y == Offset(chunks, k)
                   z == Offset(chunks, k + 1)
        <4>1. x \in Nat /\ y \in Nat /\ z \in Nat /\ x <= y /\ y <= z
          BY <3>1, <3>2
        <4> HIDE DEF x, y, z
        <4>2. x <= z
          BY <4>1
        <4> QED
          BY <4>2 DEF x, z
      <3> QED
        BY <2>1, <3>3
    <2> QED
      BY <1>1, <2>2, <2>3, <2>4
  <1>5. n \in S
    <2> HIDE DEF S
    <2> QED
      BY <1>1, <1>3, <1>4, Induct
  <1>6. Offset(chunks, i + 1) <= Offset(chunks, n + 1)
    BY <1>1, <1>5
  <1> QED
    BY <1>1, <1>6 DEF n

-----------------------------------------------------------------------------
\* A function on the first n numbers is a sequence.
LEMMA SeqOfLength ==
    ASSUME NEW n \in Nat, NEW f, f = [i \in 1 .. n |-> f[i]]
    PROVE  Len(f) = n /\ DOMAIN f = 1 .. n /\ f \in Seq({f[i] : i \in 1 .. n})
  <1> DEFINE S == {f[i] : i \in 1 .. n}
  <1>1. f \in [1 .. n -> S]
    <2>1. \A i \in 1 .. n : f[i] \in S
      OBVIOUS
    <2> HIDE DEF S
    <2> QED
      BY <2>1
  <1>2. f \in Seq(S)
    BY <1>1, SeqDef
  <1> HIDE DEF S
  <1>3. DOMAIN f = 1 .. n /\ DOMAIN f = 1 .. Len(f) /\ Len(f) \in Nat
    BY <1>1, <1>2, LenProperties
  <1>4. Len(f) = n
    BY <1>2, <1>3, LenProperties
  <1> QED
    BY <1>2, <1>3, <1>4 DEF S

\* The entries of a class once they have their names.
LEMMA ReadyNames ==
    ASSUME NEW es \in ReadyLists
    PROVE  /\ HasNames(es) /\ Len(es) \in Nat /\ DOMAIN es = 1 .. Len(es)
           /\ \A i \in 1 .. Len(es) : es[i] \in ReadyType /\ es[i].name \in NameType
  <1>1. Len(es) \in Nat /\ DOMAIN es = 1 .. Len(es) /\ \A i \in 1 .. Len(es) : es[i] \in ReadyType
    BY LenProperties, ElementOfSeq DEF ReadyLists
  <1> QED
    BY <1>1 DEF HasNames, ReadyType, NamedType

\* A chunk of whole words, with its names behind its elements and apart.
ChunkSound(c) ==
    /\ c.len \in Nat /\ c.len % 4 = 0
    /\ \A n \in DOMAIN c.names :
          /\ c.names[n] >= 8 + Len(c.elements) * EntrySize(c.tag)
          /\ c.names[n] + NameBytes(n) <= c.len
          /\ \A m \in DOMAIN c.names \ {n} :
                c.names[m] >= c.names[n] + NameBytes(n) \/ c.names[n] >= c.names[m] + NameBytes(m)

\* What a signature chunk is made of.
LEMMA SigChunkIs ==
    ASSUME NEW cls, entries[cls] \in ReadyLists
    PROVE  /\ SigChunk(cls).tag = Tag(cls)
           /\ SigChunk(cls).len = Aligned(NamesEnd(entries[cls], Tag(cls), Len(entries[cls])))
           /\ Len(SigChunk(cls).elements) = Len(entries[cls])
           /\ DOMAIN SigChunk(cls).elements = 1 .. Len(entries[cls])
           /\ \A i \in 1 .. Len(entries[cls]) :
                 /\ SigChunk(cls).elements[i] =
                      Element(entries[cls][i], cls, Tag(cls), NameOffset(entries[cls], Tag(cls), entries[cls][i].name))
                 /\ entries[cls][i].name \in DOMAIN SigChunk(cls).names
           /\ \A n \in DOMAIN SigChunk(cls).names :
                 /\ SigChunk(cls).names[n] = NameOffset(entries[cls], Tag(cls), n)
                 /\ \E i \in 1 .. Len(entries[cls]) : n = entries[cls][i].name
  <1> DEFINE es == entries[cls]
             els == [i \in DOMAIN es |-> Element(es[i], cls, Tag(cls), NameOffset(es, Tag(cls), es[i].name))]
             names == [n \in {es[i].name : i \in DOMAIN es} |-> NameOffset(es, Tag(cls), n)]
  <1>1. Len(es) \in Nat /\ DOMAIN es = 1 .. Len(es)
    BY ReadyNames
  <1>2. SigChunk(cls) = [tag |-> Tag(cls), len |-> Aligned(NamesEnd(es, Tag(cls), Len(es))),
                         elements |-> els, names |-> names]
    BY DEF SigChunk
  <1>3. \A i \in 1 .. Len(es) :
           /\ els[i] = Element(es[i], cls, Tag(cls), NameOffset(es, Tag(cls), es[i].name))
           /\ es[i].name \in DOMAIN names
    BY <1>1
  <1>4. \A n \in DOMAIN names : names[n] = NameOffset(es, Tag(cls), n) /\ \E i \in 1 .. Len(es) : n = es[i].name
    BY <1>1
  <1>5. Len(els) = Len(es) /\ DOMAIN els = 1 .. Len(es)
    <2>1. els = [i \in 1 .. Len(es) |-> els[i]]
      BY <1>1
    <2> HIDE DEF els
    <2> QED
      BY <1>1, <2>1, SeqOfLength
  <1> HIDE DEF els, names
  <1> QED
    BY <1>2, <1>3, <1>4, <1>5

\* A signature chunk is sound, and not longer than its elements and their names.
LEMMA SigChunkSound ==
    ASSUME NEW cls, entries[cls] \in ReadyLists
    PROVE  /\ ChunkSound(SigChunk(cls))
           /\ Len(entries[cls]) \in Nat /\ SigChunk(cls).len <= 11 + 58 * Len(entries[cls])
  <1> DEFINE es == entries[cls]
             tag == Tag(cls)
             c == SigChunk(cls)
             end == NamesEnd(es, tag, Len(es))
  <1>1. /\ c.tag = tag /\ c.len = Aligned(end) /\ Len(c.elements) = Len(es)
        /\ \A n \in DOMAIN c.names : c.names[n] = NameOffset(es, tag, n) /\ \E i \in 1 .. Len(es) : n = es[i].name
    BY SigChunkIs
  <1>2. HasNames(es) /\ Len(es) \in Nat
    BY ReadyNames
  <1>3. end \in Nat /\ end <= 8 + Len(es) * EntrySize(tag) + 26 * Len(es)
    <2>1. Len(es) \in 0 .. Len(es)
      BY <1>2
    <2> QED
      BY <1>2, <2>1, NamesEndProps
  <1>4. c.len \in Nat /\ c.len % 4 = 0 /\ end <= c.len /\ c.len <= end + 3
    <2> HIDE DEF end, c
    <2> QED
      BY <1>1, <1>3, AlignedUp
  <1>5. Len(es) * EntrySize(tag) \in Nat /\ Len(es) * EntrySize(tag) <= 32 * Len(es)
    BY <1>2, ElementsBytes
  <1>6. \A i \in 1 .. Len(es) :
           /\ NameOffset(es, tag, es[i].name) \in Nat
           /\ NameOffset(es, tag, es[i].name) >= 8 + Len(es) * EntrySize(tag)
           /\ NameOffset(es, tag, es[i].name) + NameBytes(es[i].name) <= end
           /\ es[i].name \in NameType
    BY <1>2, NamePlace DEF HasNames
  <1>7. \A i \in 1 .. Len(es), j \in 1 .. Len(es) : es[i].name # es[j].name =>
           \/ NameOffset(es, tag, es[i].name) >= NameOffset(es, tag, es[j].name) + NameBytes(es[j].name)
           \/ NameOffset(es, tag, es[j].name) >= NameOffset(es, tag, es[i].name) + NameBytes(es[i].name)
    BY <1>2, NamesApart
  <1> HIDE DEF end, c, tag, es
  <1>8. c.len <= 11 + 58 * Len(es)
    <2> DEFINE size == Len(es) * EntrySize(tag)
    <2>1. size \in Nat /\ size <= 32 * Len(es) /\ end <= 8 + size + 26 * Len(es)
      BY <1>3, <1>5
    <2> HIDE DEF size
    <2> QED
      BY <1>2, <1>3, <1>4, <2>1
  <1>9. ASSUME NEW n \in DOMAIN c.names
        PROVE  /\ c.names[n] >= 8 + Len(c.elements) * EntrySize(c.tag)
               /\ c.names[n] + NameBytes(n) <= c.len
               /\ \A m \in DOMAIN c.names \ {n} :
                     c.names[m] >= c.names[n] + NameBytes(n) \/ c.names[n] >= c.names[m] + NameBytes(m)
    <2>1. PICK i \in 1 .. Len(es) : n = es[i].name
      BY <1>1
    <2>2. /\ c.names[n] = NameOffset(es, tag, es[i].name) /\ c.names[n] \in Nat
          /\ c.names[n] >= 8 + Len(c.elements) * EntrySize(c.tag)
          /\ c.names[n] + NameBytes(n) <= end
      BY <1>1, <1>6, <2>1
    <2>3. c.names[n] + NameBytes(n) <= c.len
      <3>1. NameBytes(n) \in 7 .. 26
        BY <1>6, <2>1, NameBytesType
      <3> DEFINE x == c.names[n]
                 y == NameBytes(n)
                 z == c.len
      <3>2. x \in Nat /\ y \in 7 .. 26 /\ z \in Nat /\ x + y <= end /\ end <= z
        BY <1>4, <2>2, <3>1
      <3> HIDE DEF x, y, z
      <3>3. x + y <= z
        BY <1>3, <3>2
      <3> QED
        BY <3>3 DEF x, y, z
    <2>4. ASSUME NEW m \in DOMAIN c.names \ {n}
          PROVE  c.names[m] >= c.names[n] + NameBytes(n) \/ c.names[n] >= c.names[m] + NameBytes(m)
      <3>1. PICK j \in 1 .. Len(es) : m = es[j].name /\ c.names[m] = NameOffset(es, tag, es[j].name)
        BY <1>1
      <3>2. es[i].name # es[j].name
        BY <2>1, <3>1
      <3> QED
        BY <1>7, <2>1, <2>2, <3>1, <3>2
    <2> QED
      BY <2>2, <2>3, <2>4
  <1>10. ChunkSound(c)
    BY <1>4, <1>9 DEF ChunkSound
  <1> QED
    BY <1>2, <1>8, <1>10 DEF c, es

\* The chunk of the program.
LEMMA CodeChunkSound ==
    ASSUME shader \in Shader
    PROVE  ChunkSound(CodeChunk) /\ CodeBytes \in Nat /\ CodeChunk.len <= CodeBytes + 3
  <1>1. CodeBytes \in Nat
    <2>1. Len(Words) \in Nat
      <3>1. Words \in Seq(Word)
        BY WordTypes
      <3> QED
        BY <3>1, LenProperties
    <2> QED
      BY <2>1 DEF CodeBytes
  <1>2. /\ Aligned(CodeBytes) \in Nat /\ Aligned(CodeBytes) % 4 = 0
        /\ Aligned(CodeBytes) <= CodeBytes + 3
    BY <1>1, AlignedUp
  <1>3. CodeChunk.len = Aligned(CodeBytes) /\ CodeChunk.names = << >>
    BY DEF CodeChunk
  <1>4. DOMAIN << >> = {}
    OBVIOUS
  <1>5. \A n \in DOMAIN CodeChunk.names : FALSE
    BY <1>3, <1>4
  <1>6. ChunkSound(CodeChunk)
    BY <1>2, <1>3, <1>5 DEF ChunkSound
  <1> QED
    BY <1>1, <1>2, <1>3, <1>6

\* The chunks of a container.
LEMMA ChunksAre ==
    ASSUME shader \in Shader, \A c \in Class : entries[c] \in ReadyLists
    PROVE  /\ Len(Chunks) \in {3, 4} /\ DOMAIN Chunks = 1 .. Len(Chunks)
           /\ Chunks[1] = SigChunk("in") /\ Chunks[2] = SigChunk("out")
           /\ Chunks[Len(Chunks)] = CodeChunk
           /\ Len(Chunks) = 4 => Chunks[3] = SigChunk("patch")
  <1> DEFINE k == IF "patch" \in Classes THEN 3 ELSE 2
             sigs == [i \in DOMAIN ChunkClasses |-> SigChunk(ChunkClasses[i])]
             V == {SigChunk("in"), SigChunk("out"), SigChunk("patch"), CodeChunk}
  <1>1. /\ k \in {2, 3} /\ DOMAIN ChunkClasses = 1 .. k
        /\ ChunkClasses[1] = "in" /\ ChunkClasses[2] = "out" /\ (k = 3 => ChunkClasses[3] = "patch")
    <2>1. CASE "patch" \in Classes
      <3>1. ChunkClasses = <<"in", "out", "patch">> /\ k = 3
        BY <2>1 DEF ChunkClasses
      <3> HIDE DEF k
      <3> QED
        BY <3>1
    <2>2. CASE "patch" \notin Classes
      <3>1. ChunkClasses = <<"in", "out">> /\ k = 2
        BY <2>2 DEF ChunkClasses
      <3> HIDE DEF k
      <3> QED
        BY <3>1
    <2> QED
      BY <2>1, <2>2
  <1>2. Chunks = sigs \o <<CodeChunk>>
    BY DEF Chunks
  <1>3. /\ sigs = [i \in 1 .. k |-> SigChunk(ChunkClasses[i])]
        /\ sigs[1] = SigChunk("in") /\ sigs[2] = SigChunk("out") /\ (k = 3 => sigs[3] = SigChunk("patch"))
    BY <1>1
  <1>4. sigs \in Seq(V) /\ Len(sigs) = k
    <2>1. sigs \in [1 .. k -> V]
      <3>1. \A i \in 1 .. k : i \in {1, 2} \/ (i = 3 /\ k = 3)
        BY <1>1
      <3>2. \A i \in 1 .. k : sigs[i] \in V
        <4> HIDE DEF sigs
        <4> QED
          BY <1>3, <3>1
      <3> HIDE DEF V, k
      <3> QED
        BY <1>3, <3>2
    <2>2. sigs \in Seq(V)
      BY <1>1, <2>1, SeqDef
    <2> HIDE DEF sigs, V, k
    <2> QED
      BY <1>1, <2>1, <2>2, LenProperties
  <1> HIDE DEF k, sigs
  <1>5. <<CodeChunk>> \in Seq(V) /\ Len(<<CodeChunk>>) = 1 /\ <<CodeChunk>>[1] = CodeChunk
    OBVIOUS
  <1> HIDE DEF V
  <1>6. /\ Chunks \in Seq(V) /\ Len(Chunks) = k + 1
        /\ \A i \in 1 .. k + 1 : Chunks[i] = IF i <= k THEN sigs[i] ELSE <<CodeChunk>>[i - k]
    BY <1>2, <1>4, <1>5, ConcatProperties
  <1>7. DOMAIN Chunks = 1 .. Len(Chunks)
    BY <1>6, LenProperties
  <1>8. CASE k = 2
    BY <1>3, <1>5, <1>6, <1>7, <1>8
  <1>9. CASE k = 3
    BY <1>3, <1>5, <1>6, <1>7, <1>9
  <1> QED
    BY <1>1, <1>8, <1>9

\* The chunks of a container are aligned and hold their elements and names.
LEMMA ChunksSound ==
    ASSUME shader \in Shader, \A c \in Class : entries[c] \in ReadyLists
    PROVE  HasLengths(Chunks) /\ \A i \in 1 .. Len(Chunks) : ChunkSound(Chunks[i])
  <1>1. /\ ChunkSound(SigChunk("in")) /\ ChunkSound(SigChunk("out")) /\ ChunkSound(SigChunk("patch"))
        /\ ChunkSound(CodeChunk)
    BY SigChunkSound, CodeChunkSound DEF Class
  <1>2. /\ Len(Chunks) \in {3, 4} /\ DOMAIN Chunks = 1 .. Len(Chunks)
        /\ Chunks[1] = SigChunk("in") /\ Chunks[2] = SigChunk("out")
        /\ Chunks[Len(Chunks)] = CodeChunk
        /\ Len(Chunks) = 4 => Chunks[3] = SigChunk("patch")
    BY ChunksAre
  <1>3. \A n \in {3, 4} : \A i \in 1 .. n : i \in {1, 2} \/ i = n \/ (n = 4 /\ i = 3)
    OBVIOUS
  <1>4. \A i \in 1 .. Len(Chunks) : ChunkSound(Chunks[i])
    BY <1>1, <1>2, <1>3
  <1> QED
    BY <1>2, <1>4 DEF HasLengths, ChunkSound

\* What is reserved is enough.
LEMMA FitsBudget ==
    ASSUME shader \in Shader, \A c \in Class : entries[c] \in ReadyLists
    PROVE  Made(Chunks).total <= Budget /\ Made(Chunks).total \in Nat /\ Made(Chunks).total >= 32
  <1> DEFINE n == Len(Chunks)
             a == Len(entries.in)
             b == Len(entries.out)
             p == Len(entries.patch)
             code == CodeBytes
             la == SigChunk("in").len
             lb == SigChunk("out").len
             lp == SigChunk("patch").len
             lc == CodeChunk.len
             total == Made(Chunks).total
  <1>1. /\ n \in {3, 4} /\ Chunks[1] = SigChunk("in") /\ Chunks[2] = SigChunk("out")
        /\ Chunks[n] = CodeChunk /\ (n = 4 => Chunks[3] = SigChunk("patch"))
    BY ChunksAre
  <1>2. /\ a \in Nat /\ b \in Nat /\ p \in Nat /\ code \in Nat
        /\ la \in Nat /\ lb \in Nat /\ lp \in Nat /\ lc \in Nat
        /\ la <= 11 + 58 * a /\ lb <= 11 + 58 * b /\ lp <= 11 + 58 * p /\ lc <= code + 3
    BY SigChunkSound, CodeChunkSound DEF ChunkSound, Class
  <1>3. /\ Offset(Chunks, 1) = HeaderBytes(n)
        /\ \A i \in 1 .. n : Offset(Chunks, i + 1) = Offset(Chunks, i) + 8 + Chunks[i].len
    BY ChunksSound, OffsetSteps
  <1>4. total = Offset(Chunks, n + 1)
    BY DEF Made
  <1>5. Budget = HeaderBytes(n) + 20 * n + 8 + code + 4 + 64 * (a + b + p)
    BY DEF Budget
  <1>6. HeaderBytes(n) = 32 + 4 * n
    BY DEF HeaderBytes
  <1> HIDE DEF a, b, p, code, la, lb, lp, lc, n, total
  <1>7. CASE n = 3
    <2>1. /\ Offset(Chunks, 2) = HeaderBytes(n) + 8 + la
          /\ Offset(Chunks, 3) = Offset(Chunks, 2) + 8 + lb
          /\ Offset(Chunks, 4) = Offset(Chunks, 3) + 8 + lc
      BY <1>1, <1>3, <1>7 DEF la, lb, lc
    <2>2. total = 44 + 8 + la + 8 + lb + 8 + lc
      BY <1>2, <1>4, <1>6, <1>7, <2>1
    <2> QED
      BY <1>2, <1>5, <1>6, <1>7, <2>2 DEF total
  <1>8. CASE n = 4
    <2>1. /\ Offset(Chunks, 2) = HeaderBytes(n) + 8 + la
          /\ Offset(Chunks, 3) = Offset(Chunks, 2) + 8 + lb
          /\ Offset(Chunks, 4) = Offset(Chunks, 3) + 8 + lp
          /\ Offset(Chunks, 5) = Offset(Chunks, 4) + 8 + lc
      BY <1>1, <1>3, <1>8 DEF la, lb, lp, lc
    <2>2. total = 48 + 8 + la + 8 + lb + 8 + lp + 8 + lc
      BY <1>2, <1>4, <1>6, <1>8, <2>1
    <2> QED
      BY <1>2, <1>5, <1>6, <1>8, <2>2 DEF total
  <1> QED
    BY <1>1, <1>7, <1>8

-----------------------------------------------------------------------------
\* A block that is made of some lengths.
HasBytes(b) == Len(b) \in Nat /\ \A i \in 1 .. Len(b) : b[i].bytes \in Nat

\* f has the length of the first i segments.
BlockBytesBy(f, blk) ==
    /\ f \in [0 .. Len(blk) -> Nat] /\ f[0] = 0
    /\ \A i \in 1 .. Len(blk) : f[i] = f[i - 1] + blk[i].bytes
    /\ BlockBytes(blk) = f[Len(blk)]

\* The segments are added up.
LEMMA BlockBytesSteps ==
    ASSUME NEW blk, HasBytes(blk)
    PROVE  \E f : BlockBytesBy(f, blk)
  <1> DEFINE n == Len(blk)
             A == Nat
             b == 0
             st == [i \in 1 .. n |-> [a \in A |-> a + blk[i].bytes]]
             F == CHOOSE f : f = [k \in 0 .. n |-> IF k = 0 THEN b ELSE f[k - 1] + blk[k].bytes]
  <1>1. BlockBytes(blk) = F[n]
    BY DEF BlockBytes
  <1>2. n \in Nat /\ b \in A /\ \A i \in 1 .. n, a \in A : a + blk[i].bytes \in A
    <2>1. n \in Nat /\ \A i \in 1 .. n : blk[i].bytes \in Nat
      BY DEF HasBytes
    <2> QED
      BY <2>1
  <1>3. \A i \in 1 .. n, a \in A : st[i][a] = a + blk[i].bytes /\ st[i][a] \in A
    BY <1>2
  <1> HIDE DEF n, A, b, st
  <1>4. PICK f : Computes(f, n, A, b, st)
    BY <1>2, <1>3, Recursion
  <1>5. f \in [0 .. n -> A] /\ f[0] = b /\ \A i \in 1 .. n : f[i] = f[i - 1] + blk[i].bytes
    <2>1. f \in [0 .. n -> A] /\ f[0] = b /\ \A i \in 1 .. n : f[i] = st[i][f[i - 1]]
      BY <1>4 DEF Computes
    <2>2. \A i \in 1 .. n : f[i - 1] \in A
      <3>1. \A i \in 1 .. n : i - 1 \in 0 .. n
        BY <1>2
      <3> QED
        BY <2>1, <3>1
    <2> QED
      BY <1>3, <2>1, <2>2
  <1>6. f = [k \in 0 .. n |-> IF k = 0 THEN b ELSE f[k - 1] + blk[k].bytes]
    BY <1>2, <1>5
  <1>7. F = [k \in 0 .. n |-> IF k = 0 THEN b ELSE F[k - 1] + blk[k].bytes]
    BY <1>6
  <1> HIDE DEF F
  <1>8. F[0] = b /\ \A i \in 1 .. n : F[i] = F[i - 1] + blk[i].bytes
    BY <1>2, <1>7
  <1> DEFINE S == {k \in 0 .. n : F[k] \in A}
  <1>9. 0 \in S /\ \A i \in 1 .. n : i - 1 \in S => i \in S
    BY <1>2, <1>8
  <1>10. \A i \in 0 .. n : i \in S
    <2> HIDE DEF S
    <2> QED
      BY <1>2, <1>9, Induct
  <1>11. F \in [0 .. n -> A]
    BY <1>7, <1>10
  <1>12. BlockBytesBy(F, blk)
    BY <1>1, <1>8, <1>11 DEF BlockBytesBy, n, A, b
  <1> QED
    BY <1>12

\* What segments add up to.
LEMMA BlockBytesOfTwo ==
    ASSUME NEW b, Len(b) = 2, b[1].bytes \in Nat, b[2].bytes \in Nat
    PROVE  BlockBytes(b) = b[1].bytes + b[2].bytes
  <1>1. HasBytes(b)
    BY DEF HasBytes
  <1>2. PICK f : BlockBytesBy(f, b)
    BY <1>1, BlockBytesSteps
  <1>3. f[0] = 0 /\ BlockBytes(b) = f[2] /\ \A i \in 1 .. 2 : f[i] = f[i - 1] + b[i].bytes
    BY <1>2 DEF BlockBytesBy
  <1>4. f[1] = f[0] + b[1].bytes /\ f[2] = f[1] + b[2].bytes
    BY <1>3
  <1> QED
    BY <1>3, <1>4

LEMMA BlockBytesOfThree ==
    ASSUME NEW b, Len(b) = 3, b[1].bytes \in Nat, b[2].bytes \in Nat, b[3].bytes \in Nat
    PROVE  BlockBytes(b) = b[1].bytes + b[2].bytes + b[3].bytes
  <1>1. HasBytes(b)
    BY DEF HasBytes
  <1>2. PICK f : BlockBytesBy(f, b)
    BY <1>1, BlockBytesSteps
  <1>3. f[0] = 0 /\ BlockBytes(b) = f[3] /\ \A i \in 1 .. 3 : f[i] = f[i - 1] + b[i].bytes
    BY <1>2 DEF BlockBytesBy
  <1>4. f[1] = f[0] + b[1].bytes /\ f[2] = f[1] + b[2].bytes /\ f[3] = f[2] + b[3].bytes
    BY <1>3
  <1> QED
    BY <1>3, <1>4

LEMMA BlockBytesOfFour ==
    ASSUME NEW b, Len(b) = 4, b[1].bytes \in Nat, b[2].bytes \in Nat, b[3].bytes \in Nat, b[4].bytes \in Nat
    PROVE  BlockBytes(b) = b[1].bytes + b[2].bytes + b[3].bytes + b[4].bytes
  <1>1. HasBytes(b)
    BY DEF HasBytes
  <1>2. PICK f : BlockBytesBy(f, b)
    BY <1>1, BlockBytesSteps
  <1>3. f[0] = 0 /\ BlockBytes(b) = f[4] /\ \A i \in 1 .. 4 : f[i] = f[i - 1] + b[i].bytes
    BY <1>2 DEF BlockBytesBy
  <1>4. f[1] = f[0] + b[1].bytes /\ f[2] = f[1] + b[2].bytes /\ f[3] = f[2] + b[3].bytes /\ f[4] = f[3] + b[4].bytes
    BY <1>3
  <1> QED
    BY <1>3, <1>4

\* The hash takes whole blocks, and every byte of the rest is in one.
BlocksWhole(size) ==
    LET blocks == TrailerBlocks(size) IN
    /\ \A b \in DOMAIN blocks : BlockBytes(blocks[b]) = 64
    /\ \E b \in DOMAIN blocks : \E seg \in ToSet(blocks[b]) : seg = [from |-> "data", bytes |-> size % 64]

\* The blocks of the trailer are whole and hold the rest of the data.
LEMMA TrailerWhole ==
    ASSUME NEW size \in Nat
    PROVE  BlocksWhole(size)
  <1> DEFINE rest == size % 64
             data == [from |-> "data", bytes |-> rest]
             bits == [from |-> "bits", bytes |-> 4]
             tail == [from |-> "tail", bytes |-> 4]
             one == <<data, [from |-> "padding", bytes |-> 64 - rest]>>
             two == <<bits, [from |-> "zero", bytes |-> 56], tail>>
             only == <<bits, data, [from |-> "padding", bytes |-> 64 - rest - 8], tail>>
  <1>1. rest \in 0 .. 63
    OBVIOUS
  <1>2. CASE rest >= 56
    <2>1. TrailerBlocks(size) = <<one, two>>
      BY <1>2 DEF TrailerBlocks
    <2> HIDE DEF rest
    <2>2. BlockBytes(one) = 64
      <3>1. Len(one) = 2 /\ one[1].bytes = rest /\ one[2].bytes = 64 - rest
        OBVIOUS
      <3> HIDE DEF one
      <3> QED
        BY <1>1, <3>1, BlockBytesOfTwo
    <2>3. BlockBytes(two) = 64
      <3>1. Len(two) = 3 /\ two[1].bytes = 4 /\ two[2].bytes = 56 /\ two[3].bytes = 4
        OBVIOUS
      <3> HIDE DEF two
      <3> QED
        BY <3>1, BlockBytesOfThree
    <2>4. data \in ToSet(one)
      BY DEF ToSet
    <2> HIDE DEF one, two, data
    <2>5. /\ DOMAIN TrailerBlocks(size) = {1, 2} /\ TrailerBlocks(size)[1] = one
          /\ TrailerBlocks(size)[2] = two
      BY <2>1
    <2> QED
      BY <2>2, <2>3, <2>4, <2>5 DEF BlocksWhole, data, rest
  <1>3. CASE ~ (rest >= 56)
    <2>1. TrailerBlocks(size) = <<only>>
      BY <1>3 DEF TrailerBlocks
    <2> HIDE DEF rest
    <2>2. BlockBytes(only) = 64
      <3>1. Len(only) = 4 /\ only[1].bytes = 4 /\ only[2].bytes = rest /\ only[3].bytes = 64 - rest - 8
            /\ only[4].bytes = 4
        OBVIOUS
      <3>2. 64 - rest - 8 \in Nat
        BY <1>1, <1>3
      <3> HIDE DEF only
      <3> QED
        BY <1>1, <3>1, <3>2, BlockBytesOfFour
    <2>4. data \in ToSet(only)
      BY DEF ToSet
    <2> HIDE DEF only, data
    <2>5. DOMAIN TrailerBlocks(size) = {1} /\ TrailerBlocks(size)[1] = only
      BY <2>1
    <2> QED
      BY <2>2, <2>4, <2>5 DEF BlocksWhole, data, rest
  <1> QED
    BY <1>2, <1>3

-----------------------------------------------------------------------------
\* Where the fields of an element are that the parser reads.
LEMMA ElementFields ==
    ASSUME NEW e, NEW cls, NEW tag, NEW off
    PROVE  /\ ~ HasStream(tag) =>
                 /\ Element(e, cls, tag, off)[0] = off /\ Element(e, cls, tag, off)[4] = e.semIdx
                 /\ Element(e, cls, tag, off)[16] = e.reg /\ Element(e, cls, tag, off)[20] = e.mask
           /\ HasStream(tag) =>
                 /\ Element(e, cls, tag, off)[0] = e.stream /\ Element(e, cls, tag, off)[4] = off
                 /\ Element(e, cls, tag, off)[8] = e.semIdx
                 /\ Element(e, cls, tag, off)[20] = e.reg /\ Element(e, cls, tag, off)[24] = e.mask
  <1>1. /\ Field(e, cls, 0, off) = off /\ Field(e, cls, 4, off) = e.semIdx
        /\ Field(e, cls, 16, off) = e.reg /\ Field(e, cls, 20, off) = e.mask
        /\ Field(e, cls, -4, off) = e.stream
    BY DEF Field
  <1>2. CASE ~ HasStream(tag)
    <2>1. FieldBase(tag) = 0
      BY <1>2 DEF FieldBase
    <2>2. 0 \in Fields(tag) /\ 4 \in Fields(tag) /\ 16 \in Fields(tag) /\ 20 \in Fields(tag)
      BY <2>1 DEF Fields
    <2>3. \A k \in Fields(tag) : Element(e, cls, tag, off)[k] = Field(e, cls, k - 0, off)
      BY <2>1 DEF Element
    <2>4. 0 - 0 = 0 /\ 4 - 0 = 4 /\ 16 - 0 = 16 /\ 20 - 0 = 20
      OBVIOUS
    <2> QED
      BY <1>1, <1>2, <2>2, <2>3, <2>4
  <1>3. CASE HasStream(tag)
    <2>1. FieldBase(tag) = 4
      BY <1>3 DEF FieldBase
    <2>2. /\ 0 \in Fields(tag) /\ 4 \in Fields(tag) /\ 8 \in Fields(tag) /\ 20 \in Fields(tag)
          /\ 24 \in Fields(tag)
      BY <1>3, <2>1 DEF Fields
    <2>3. \A k \in Fields(tag) : Element(e, cls, tag, off)[k] = Field(e, cls, k - 4, off)
      BY <2>1 DEF Element
    <2>4. 0 - 4 = -4 /\ 4 - 4 = 0 /\ 8 - 4 = 4 /\ 20 - 4 = 16 /\ 24 - 4 = 20
      OBVIOUS
    <2> QED
      BY <1>1, <1>3, <2>2, <2>3, <2>4
  <1> QED
    BY <1>2, <1>3

\* The tags of the chunks tell them apart.
LEMMA TagsAre ==
    /\ Tag("in") \in {"ISGN", "ISG1"} /\ Tag("out") \in {"OSGN", "OSG1", "OSG5"}
    /\ Tag("patch") \in {"PCSG", "PSG1"} /\ CodeChunk.tag \in {"SHEX", "SHDR"}
  BY DEF Tag, CodeChunk

\* The parser finds the name that was written at an offset.
LEMMA NameAtIs ==
    ASSUME NEW cls, entries[cls] \in ReadyLists, NEW i \in 1 .. Len(entries[cls])
    PROVE  NameAt(SigChunk(cls), NameOffset(entries[cls], Tag(cls), entries[cls][i].name)) = entries[cls][i].name
  <1> DEFINE es == entries[cls]
             tag == Tag(cls)
             name == es[i].name
             c == SigChunk(cls)
  <1>1. HasNames(es) /\ \A j \in 1 .. Len(es) : es[j].name \in NameType
    BY ReadyNames
  <1>2. /\ name \in DOMAIN c.names
        /\ \A n \in DOMAIN c.names : c.names[n] = NameOffset(es, tag, n) /\ \E j \in 1 .. Len(es) : n = es[j].name
    BY SigChunkIs
  <1>3. ASSUME NEW n \in DOMAIN c.names, c.names[n] = NameOffset(es, tag, name) PROVE n = name
    <2>1. PICK j \in 1 .. Len(es) : n = es[j].name /\ c.names[n] = NameOffset(es, tag, es[j].name)
      BY <1>2
    <2>2. ASSUME es[j].name # es[i].name PROVE FALSE
      <3> DEFINE x == NameOffset(es, tag, es[i].name)
                 y == NameOffset(es, tag, es[j].name)
                 a == NameBytes(es[i].name)
                 b == NameBytes(es[j].name)
      <3>1. x \in Nat /\ y \in Nat /\ a \in 7 .. 26 /\ b \in 7 .. 26
        BY <1>1, NamePlace, NameBytesType
      <3>2. x >= y + b \/ y >= x + a
        BY <1>1, <2>2, NamesApart
      <3>3. x = y
        BY <1>3, <2>1
      <3> HIDE DEF x, y, a, b
      <3> QED
        BY <3>1, <3>2, <3>3
    <2> QED
      BY <2>1, <2>2
  <1>4. c.names[name] = NameOffset(es, tag, name)
    BY <1>2
  <1> HIDE DEF c, name, es, tag
  <1>5. NameAt(c, NameOffset(es, tag, name)) = name
    BY <1>2, <1>3, <1>4 DEF NameAt
  <1> QED
    BY <1>5 DEF c, name, es, tag

\* What a parser read says of every entry what the entry says.
Reads(sigs, es) ==
    /\ Len(es) \in Nat /\ Len(sigs) = Len(es) /\ DOMAIN sigs = 1 .. Len(es)
    /\ \A i \in 1 .. Len(es) :
          /\ sigs[i].name = es[i].name /\ sigs[i].semIdx = es[i].semIdx
          /\ sigs[i].reg = es[i].reg /\ sigs[i].mask = es[i].mask

\* Only some chunks tell the streams.
StreamsRead(sigs, es, tag) ==
    \A i \in 1 .. Len(es) : sigs[i].stream = IF HasStream(tag) THEN es[i].stream ELSE 0

\* A chunk is parsed as it was written.
LEMMA ParsedIs ==
    ASSUME NEW cls \in {"in", "out"}, entries[cls] \in ReadyLists, NEW i \in 1 .. Len(entries[cls])
    PROVE  /\ Parsed(SigChunk(cls), SigChunk(cls).elements[i]).name = entries[cls][i].name
           /\ Parsed(SigChunk(cls), SigChunk(cls).elements[i]).semIdx = entries[cls][i].semIdx
           /\ Parsed(SigChunk(cls), SigChunk(cls).elements[i]).reg = entries[cls][i].reg
           /\ Parsed(SigChunk(cls), SigChunk(cls).elements[i]).mask = entries[cls][i].mask
           /\ Parsed(SigChunk(cls), SigChunk(cls).elements[i]).stream =
                 (IF HasStream(Tag(cls)) THEN entries[cls][i].stream ELSE 0)
  <1> DEFINE e == entries[cls][i]
             c == SigChunk(cls)
             off == NameOffset(entries[cls], Tag(cls), e.name)
             x == c.elements[i]
  <1>1. c.tag = Tag(cls) /\ x = Element(e, cls, Tag(cls), off) /\ NameAt(c, off) = e.name
    BY SigChunkIs, NameAtIs
  <1>2. Tag(cls) \in {"ISGN", "ISG1", "OSGN", "OSG1", "OSG5"}
    BY TagsAre
  <1>3. CASE HasStream(Tag(cls))
    <2>1. c.tag \notin {"ISGN", "OSGN"}
      BY <1>1, <1>3 DEF HasStream
    <2>2. Parsed(c, x) = [stream |-> x[0], name |-> NameAt(c, x[4]), semIdx |-> x[8], reg |-> x[20], mask |-> x[24]]
      BY <2>1 DEF Parsed
    <2>3. /\ x[0] = e.stream /\ x[4] = off /\ x[8] = e.semIdx /\ x[20] = e.reg /\ x[24] = e.mask
      BY <1>1, <1>3, ElementFields
    <2> HIDE DEF x, c, off, e
    <2>4. Parsed(c, x) = [stream |-> e.stream, name |-> e.name, semIdx |-> e.semIdx, reg |-> e.reg, mask |-> e.mask]
      BY <1>1, <2>2, <2>3
    <2>5. /\ Parsed(c, x).name = e.name /\ Parsed(c, x).semIdx = e.semIdx /\ Parsed(c, x).reg = e.reg
          /\ Parsed(c, x).mask = e.mask /\ Parsed(c, x).stream = e.stream
      BY <2>4
    <2> QED
      BY <1>3, <2>5 DEF x, c, e
  <1>4. CASE ~ HasStream(Tag(cls))
    <2>1. c.tag \in {"ISGN", "OSGN"}
      BY <1>1, <1>2, <1>4 DEF HasStream
    <2>2. Parsed(c, x) = [stream |-> 0, name |-> NameAt(c, x[0]), semIdx |-> x[4], reg |-> x[16], mask |-> x[20]]
      BY <2>1 DEF Parsed
    <2>3. x[0] = off /\ x[4] = e.semIdx /\ x[16] = e.reg /\ x[20] = e.mask
      BY <1>1, <1>4, ElementFields
    <2> HIDE DEF x, c, off, e
    <2>4. Parsed(c, x) = [stream |-> 0, name |-> e.name, semIdx |-> e.semIdx, reg |-> e.reg, mask |-> e.mask]
      BY <1>1, <2>2, <2>3
    <2>5. /\ Parsed(c, x).name = e.name /\ Parsed(c, x).semIdx = e.semIdx /\ Parsed(c, x).reg = e.reg
          /\ Parsed(c, x).mask = e.mask /\ Parsed(c, x).stream = 0
      BY <2>4
    <2> QED
      BY <1>4, <2>5 DEF x, c, e
  <1> QED
    BY <1>3, <1>4

\* The least of a set of one.
LEMMA MinOfOne ==
    ASSUME NEW S, NEW k \in Nat, S = {k}
    PROVE  Min(S) = k
  <1>1. S \in SUBSET Nat /\ S # {}
    OBVIOUS
  <1>2. Min(S) \in S
    BY <1>1, MinOf
  <1> QED
    BY <1>2

\* The parser takes the chunk of the class it is asked for.
LEMMA ChosenIs ==
    ASSUME shader \in Shader, \A c \in Class : entries[c] \in ReadyLists
    PROVE  Chosen(Made(Chunks), TRUE) = 1 /\ Chosen(Made(Chunks), FALSE) = 2
  <1> DEFINE n == Len(Chunks)
             c == Made(Chunks)
  <1>1. /\ n \in {3, 4} /\ DOMAIN Chunks = 1 .. n /\ Chunks[1] = SigChunk("in") /\ Chunks[2] = SigChunk("out")
        /\ Chunks[n] = CodeChunk /\ (n = 4 => Chunks[3] = SigChunk("patch"))
    BY ChunksAre
  <1>2. c.chunks = Chunks /\ c.total = Offset(Chunks, n + 1)
    BY DEF Made
  <1>3. Readable(c) = 1 .. n
    <2>1. \A i \in 1 .. n : Offset(Chunks, i) + 8 + Chunks[i].len <= Offset(Chunks, n + 1)
      BY ChunksSound, OffsetInside
    <2> HIDE DEF c, n
    <2> QED
      BY <1>1, <1>2, <2>1 DEF Readable
  <1>4. /\ Chunks[1].tag = Tag("in") /\ Chunks[2].tag = Tag("out")
        /\ \A i \in 3 .. n : Chunks[i].tag \in {"PCSG", "PSG1", "SHEX", "SHDR"}
    <2>1. /\ SigChunk("in").tag = Tag("in") /\ SigChunk("out").tag = Tag("out")
          /\ SigChunk("patch").tag = Tag("patch")
      BY DEF SigChunk
    <2>2. \A i \in 3 .. n : i = n \/ (i = 3 /\ n = 4)
      <3> HIDE DEF n
      <3> QED
        BY <1>1
    <2> QED
      BY <1>1, <2>1, <2>2, TagsAre
  <1> HIDE DEF c, n
  <1>5. \A i \in 1 .. n : i = 1 \/ i = 2 \/ i \in 3 .. n
    BY <1>1
  <1>6. 1 \in 1 .. n /\ 2 \in 1 .. n
    BY <1>1
  <1>7. Chosen(c, TRUE) = 1
    <2> DEFINE newer == {i \in Readable(c) : c.chunks[i].tag \in Preferred(TRUE)}
               basic == {i \in Readable(c) : c.chunks[i].tag = Basic(TRUE)}
    <2>1. /\ newer = {i \in 1 .. n : Chunks[i].tag \in {"ISG1"}}
          /\ basic = {i \in 1 .. n : Chunks[i].tag = "ISGN"}
      BY <1>2, <1>3 DEF Preferred, Basic
    <2>2. Chosen(c, TRUE) = IF newer # {} THEN Min(newer) ELSE IF basic # {} THEN Min(basic) ELSE 0
      BY DEF Chosen
    <2> HIDE DEF newer, basic
    <2>3. CASE Tag("in") = "ISG1"
      <3>1. newer = {1}
        BY <1>4, <1>5, <1>6, <2>1, <2>3, TagsAre
      <3>2. Min(newer) = 1
        BY <3>1, MinOfOne
      <3> QED
        BY <2>2, <3>1, <3>2
    <2>4. CASE Tag("in") = "ISGN"
      <3>1. newer = {} /\ basic = {1}
        BY <1>4, <1>5, <1>6, <2>1, <2>4, TagsAre
      <3>2. Min(basic) = 1
        BY <3>1, MinOfOne
      <3> QED
        BY <2>2, <3>1, <3>2
    <2> QED
      BY <2>3, <2>4, TagsAre
  <1>8. Chosen(c, FALSE) = 2
    <2> DEFINE newer == {i \in Readable(c) : c.chunks[i].tag \in Preferred(FALSE)}
               basic == {i \in Readable(c) : c.chunks[i].tag = Basic(FALSE)}
    <2>1. /\ newer = {i \in 1 .. n : Chunks[i].tag \in {"OSG1", "OSG5"}}
          /\ basic = {i \in 1 .. n : Chunks[i].tag = "OSGN"}
      BY <1>2, <1>3 DEF Preferred, Basic
    <2>2. Chosen(c, FALSE) = IF newer # {} THEN Min(newer) ELSE IF basic # {} THEN Min(basic) ELSE 0
      BY DEF Chosen
    <2> HIDE DEF newer, basic
    <2>3. CASE Tag("out") \in {"OSG1", "OSG5"}
      <3>1. newer = {2}
        BY <1>4, <1>5, <1>6, <2>1, <2>3, TagsAre
      <3>2. Min(newer) = 2
        BY <3>1, MinOfOne
      <3> QED
        BY <2>2, <3>1, <3>2
    <2>4. CASE Tag("out") = "OSGN"
      <3>1. newer = {} /\ basic = {2}
        BY <1>4, <1>5, <1>6, <2>1, <2>4, TagsAre
      <3>2. Min(basic) = 2
        BY <3>1, MinOfOne
      <3> QED
        BY <2>2, <3>1, <3>2
    <2> QED
      BY <2>3, <2>4, TagsAre
  <1> QED
    BY <1>7, <1>8 DEF c

\* A container is read as its entries are.
LEMMA ContainerReads ==
    ASSUME shader \in Shader, \A c \in Class : entries[c] \in ReadyLists
    PROVE  /\ Reads(ParseSig(Made(Chunks), TRUE), entries.in)
           /\ Reads(ParseSig(Made(Chunks), FALSE), entries.out)
           /\ StreamsRead(ParseSig(Made(Chunks), FALSE), entries.out, Tag("out"))
  <1>1. Made(Chunks).chunks = Chunks /\ Chunks[1] = SigChunk("in") /\ Chunks[2] = SigChunk("out")
    BY ChunksAre DEF Made
  <1>2. ASSUME NEW cls \in {"in", "out"}, NEW input, Chosen(Made(Chunks), input) # 0,
               Chunks[Chosen(Made(Chunks), input)] = SigChunk(cls)
        PROVE  /\ Reads(ParseSig(Made(Chunks), input), entries[cls])
               /\ StreamsRead(ParseSig(Made(Chunks), input), entries[cls], Tag(cls))
    <2> DEFINE n == Len(entries[cls])
               c == SigChunk(cls)
               sigs == ParseSig(Made(Chunks), input)
    <2>1. entries[cls] \in ReadyLists
      BY DEF Class
    <2>2. n \in Nat /\ DOMAIN c.elements = 1 .. n
      BY <2>1, SigChunkIs, ReadyNames
    <2>3. sigs = [k \in DOMAIN c.elements |-> Parsed(c, c.elements[k])]
      <3>1. Made(Chunks).chunks[Chosen(Made(Chunks), input)] = c
        BY <1>1, <1>2
      <3> HIDE DEF c
      <3> QED
        BY <1>2, <3>1 DEF ParseSig
    <2>4. \A i \in 1 .. n :
             /\ Parsed(c, c.elements[i]).name = entries[cls][i].name
             /\ Parsed(c, c.elements[i]).semIdx = entries[cls][i].semIdx
             /\ Parsed(c, c.elements[i]).reg = entries[cls][i].reg
             /\ Parsed(c, c.elements[i]).mask = entries[cls][i].mask
             /\ Parsed(c, c.elements[i]).stream = IF HasStream(Tag(cls)) THEN entries[cls][i].stream ELSE 0
      BY <2>1, ParsedIs
    <2> HIDE DEF c, sigs
    <2>5. \A i \in 1 .. n : sigs[i] = Parsed(c, c.elements[i])
      BY <2>2, <2>3
    <2>6. Len(sigs) = n /\ DOMAIN sigs = 1 .. n
      <3>1. sigs = [i \in 1 .. n |-> sigs[i]]
        BY <2>2, <2>3
      <3> HIDE DEF n
      <3> QED
        BY <2>2, <3>1, SeqOfLength
    <2> QED
      BY <2>2, <2>4, <2>5, <2>6 DEF Reads, StreamsRead, sigs
  <1>3. Chosen(Made(Chunks), TRUE) = 1 /\ Chosen(Made(Chunks), FALSE) = 2
    BY ChosenIs
  <1>4. /\ Chosen(Made(Chunks), TRUE) # 0 /\ Chunks[Chosen(Made(Chunks), TRUE)] = SigChunk("in")
        /\ Chosen(Made(Chunks), FALSE) # 0 /\ Chunks[Chosen(Made(Chunks), FALSE)] = SigChunk("out")
    <2>1. \A k : k = 1 \/ k = 2 => k # 0
      OBVIOUS
    <2>2. \A k : (k = 1 => Chunks[k] = SigChunk("in")) /\ (k = 2 => Chunks[k] = SigChunk("out"))
      BY <1>1
    <2> QED
      BY <1>3, <2>1, <2>2, Zenon
  <1>5. Reads(ParseSig(Made(Chunks), TRUE), entries["in"])
    BY <1>2, <1>4, Zenon
  <1>6. Reads(ParseSig(Made(Chunks), FALSE), entries["out"])
        /\ StreamsRead(ParseSig(Made(Chunks), FALSE), entries["out"], Tag("out"))
    BY <1>2, <1>4, Zenon
  <1> QED
    BY <1>5, <1>6

-----------------------------------------------------------------------------
\* A sequence, whatever it is of.
IsSequence(s) == Len(s) \in Nat /\ s = [i \in 1 .. Len(s) |-> s[i]]

LEMMA AppendIs ==
    ASSUME NEW s, IsSequence(s), NEW x
    PROVE  /\ IsSequence(Append(s, x)) /\ Len(Append(s, x)) = Len(s) + 1
           /\ DOMAIN Append(s, x) = 1 .. Len(s) + 1
           /\ Append(s, x)[Len(s) + 1] = x
           /\ \A i \in 1 .. Len(s) : Append(s, x)[i] = s[i]
  <1> DEFINE S == {s[i] : i \in 1 .. Len(s)}
             T == S \union {x}
  <1>1. Len(s) \in Nat /\ DOMAIN s = 1 .. Len(s) /\ s \in Seq(S)
    BY SeqOfLength DEF IsSequence
  <1>2. S \subseteq T /\ x \in T
    OBVIOUS
  <1> HIDE DEF S, T
  <1>3. s \in Seq(T)
    <2>1. s \in [1 .. Len(s) -> S]
      BY <1>1, LenProperties
    <2>2. s \in [1 .. Len(s) -> T]
      BY <1>2, <2>1
    <2> QED
      BY <1>1, <2>2, SeqDef
  <1>4. /\ Append(s, x) \in Seq(T) /\ Len(Append(s, x)) = Len(s) + 1
        /\ \A i \in 1 .. Len(s) : Append(s, x)[i] = s[i]
        /\ Append(s, x)[Len(s) + 1] = x
    BY <1>2, <1>3, AppendProperties
  <1>5. Append(s, x) \in [1 .. Len(s) + 1 -> T] /\ DOMAIN Append(s, x) = 1 .. Len(s) + 1
    BY <1>4, LenProperties
  <1>6. Append(s, x) = [i \in 1 .. Len(s) + 1 |-> Append(s, x)[i]]
    BY <1>5
  <1>7. Len(s) + 1 \in Nat
    BY <1>1
  <1>8. IsSequence(Append(s, x))
    BY <1>4, <1>6, <1>7 DEF IsSequence
  <1> QED
    BY <1>4, <1>5, <1>8

\* An element without a system value is named and numbered by its place alone.
NamedByPlace(es, cls, stage) ==
    \A i \in 1 .. Len(es) :
        es[i].reg # NoReg /\ es[i].sysval = 0 =>
            IF cls = "out" /\ stage = "PS"
            THEN es[i].name = "SV_Target" /\ es[i].semIdx = es[i].reg
            ELSE es[i].name = "ATTRIB" /\ es[i].semIdx = es[i].reg * 4 + FirstComp(es[i].mask)

\* What is known of a shader that was created.
CreatedSound(r) ==
    /\ r.shader \in Shader
    /\ \A c \in Class : r.entries[c] \in ReadyLists /\ NamedByPlace(r.entries[c], c, r.shader.stage)
    /\ Reads(ParseSig(r.container, TRUE), r.entries.in)

\* The signature of an input layout has the names of the vertex shader's.
LayoutNames(elements, es) ==
    /\ HasNames(elements)
    /\ \A i \in 1 .. Len(elements) :
          \E k \in 1 .. Len(es) :
             es[k].reg = elements[i].reg /\ es[k].name = elements[i].name /\ es[k].semIdx = elements[i].semIdx

\* What holds of the containers and of what is made of them.
ContainerInv ==
    /\ phase \in ReadyPhase => \A c \in Class : NamedByPlace(entries[c], c, shader.stage)
    /\ phase \in {"built", "declared"} => container = Made(Chunks)
    /\ phase = "declared" =>
          WithSo(shader) /\ soDecl = [i \in DOMAIN SoSource |-> SoEntry(ParseSig(container, FALSE), SoSource[i])]
    /\ IsSequence(created) /\ \A v \in DOMAIN created : CreatedSound(created[v])
    /\ layoutSig # Nothing =>
          layoutSig.vs \in DOMAIN created /\ LayoutNames(layoutSig.elements, created[layoutSig.vs].entries.in)

\* Once they are numbered, the entries of a class are named by place.
LEMMA AssignedNames ==
    ASSUME shader \in Shader, scan \in ScanType, NEW cls, NEW es \in RawLists
    PROVE  NamedByPlace(Assigned(es, cls), cls, shader.stage)
  <1> DEFINE x == Assigned(es, cls)
  <1>1. es \in EntryLists /\ es \in Seq(RawType)
    BY RawAreEntries DEF RawLists
  <1>2. /\ Len(es) \in Nat /\ Len(x) \in Nat /\ Len(es) <= Len(x)
        /\ \A i \in 1 .. Len(es) : NumberedFrom(x[i], es[i], cls)
        /\ \A i \in Len(es) + 1 .. Len(x) : x[i].reg = NoReg
    BY <1>1, AssignedType
  <1>3. \A i \in 1 .. Len(es) : es[i].semIdx = Unset
    BY <1>1, ElementOfSeq DEF RawType
  <1> HIDE DEF x
  <1> SUFFICES ASSUME NEW i \in 1 .. Len(x), x[i].reg # NoReg, x[i].sysval = 0
               PROVE  IF cls = "out" /\ shader.stage = "PS"
                      THEN x[i].name = "SV_Target" /\ x[i].semIdx = x[i].reg
                      ELSE x[i].name = "ATTRIB" /\ x[i].semIdx = x[i].reg * 4 + FirstComp(x[i].mask)
    BY DEF NamedByPlace, x
  <1>4. i \in 1 .. Len(es)
    BY <1>2
  <1> DEFINE y == x[i]
             e == es[i]
  <1>5. NumberedFrom(y, e, cls) /\ e.semIdx = Unset /\ y.reg # NoReg /\ y.sysval = 0
    BY <1>2, <1>3, <1>4
  <1> HIDE DEF y, e
  <1>6. /\ SameElement(y, e, cls) /\ e.reg = y.reg /\ e.sysval = 0 /\ e.reg # NoReg
        /\ y.mask = e.mask /\ y.name = PickName(cls, 0)
    BY <1>5 DEF NumberedFrom, SameElement
  <1>7. CASE cls = "out" /\ shader.stage = "PS"
    <2>1. IsTarget(cls, 0) /\ PickName(cls, 0) = "SV_Target"
      BY <1>7 DEF IsTarget, PickName
    <2>2. y.semIdx = e.reg
      BY <1>5, <1>6, <2>1 DEF NumberedFrom
    <2> QED
      BY <1>6, <1>7, <2>1, <2>2 DEF y
  <1>8. CASE ~ (cls = "out" /\ shader.stage = "PS")
    <2>1. PickName(cls, 0) = "ATTRIB"
      BY <1>8 DEF IsTarget, PickName, SemName
    <2>2. y.semIdx = e.reg * 4 + FirstComp(e.mask)
      BY <1>5, <1>6, <2>1 DEF NumberedFrom
    <2> QED
      BY <1>6, <1>8, <2>1, <2>2 DEF y
  <1> QED
    BY <1>7, <1>8

\* The first element of a register, if the register has one.
LEMMA FirstOfIs ==
    ASSUME NEW sigs, NEW n \in Nat, Len(sigs) = n, DOMAIN sigs = 1 .. n, NEW reg
    PROVE  /\ FirstOf(sigs, reg) \in 1 .. n + 1
           /\ FirstOf(sigs, reg) <= n => sigs[FirstOf(sigs, reg)].reg = reg
  <1> DEFINE S == {i \in DOMAIN sigs : sigs[i].reg = reg}
             T == S \union {Len(sigs) + 1}
  <1>1. T \in SUBSET Nat /\ T # {} /\ T \subseteq 1 .. n + 1
    OBVIOUS
  <1>2. FirstOf(sigs, reg) = Min(T)
    BY DEF FirstOf
  <1>3. \A i \in T : i <= n => sigs[i].reg = reg
    OBVIOUS
  <1> HIDE DEF S, T
  <1>4. Min(T) \in T
    BY <1>1, MinOf
  <1> QED
    BY <1>1, <1>2, <1>3, <1>4

\* Registers that have an element.
FoundLists(sigs) ==
    {rs \in Seq(Nat) : \A i \in 1 .. Len(rs) : ~ (FirstOf(sigs, rs[i]) > Len(sigs))}

\* f has the registers among the first i that have an element.
MatchedBy(f, sigs, regs) ==
    /\ f \in [0 .. Len(regs) -> FoundLists(sigs)] /\ f[0] = << >>
    /\ \A i \in 1 .. Len(regs) : f[i] = AddMatch(f[i - 1], sigs, regs[i])
    /\ Matched(sigs, regs) = f[Len(regs)]

\* The registers are matched one after the other.
LEMMA MatchedSteps ==
    ASSUME NEW sigs, NEW regs \in Seq(Nat)
    PROVE  \E f : MatchedBy(f, sigs, regs)
  <1> DEFINE n == Len(regs)
             A == FoundLists(sigs)
             b == << >>
             st == [i \in 1 .. n |-> [a \in A |-> AddMatch(a, sigs, regs[i])]]
             F == CHOOSE f : f = [k \in 0 .. n |-> IF k = 0 THEN b ELSE AddMatch(f[k - 1], sigs, regs[k])]
  <1>1. Matched(sigs, regs) = F[n]
    BY DEF Matched
  <1>2. /\ n \in Nat /\ b \in A
        /\ \A i \in 1 .. n, a \in A : AddMatch(a, sigs, regs[i]) \in A
    <2>1. n \in Nat /\ \A i \in 1 .. n : regs[i] \in Nat
      BY LenProperties, ElementOfSeq
    <2>2. b \in A
      <3>1. << >> \in Seq(Nat) /\ Len(<< >>) = 0
        OBVIOUS
      <3> QED
        BY <3>1 DEF FoundLists
    <2>3. ASSUME NEW a \in A, NEW r \in Nat PROVE AddMatch(a, sigs, r) \in A
      <3>1. a \in Seq(Nat) /\ Len(a) \in Nat /\ \A i \in 1 .. Len(a) : ~ (FirstOf(sigs, a[i]) > Len(sigs))
        BY LenProperties DEF FoundLists
      <3>2. /\ Append(a, r) \in Seq(Nat) /\ Len(Append(a, r)) = Len(a) + 1 /\ Append(a, r)[Len(a) + 1] = r
            /\ \A i \in 1 .. Len(a) : Append(a, r)[i] = a[i]
        BY <3>1, AppendProperties
      <3>3. \A i \in 1 .. Len(a) + 1 : i \in 1 .. Len(a) \/ i = Len(a) + 1
        BY <3>1
      <3>4. CASE FirstOf(sigs, r) > Len(sigs)
        BY <3>4 DEF AddMatch
      <3>5. CASE ~ (FirstOf(sigs, r) > Len(sigs))
        <4>1. AddMatch(a, sigs, r) = Append(a, r)
          BY <3>5 DEF AddMatch
        <4> QED
          BY <3>1, <3>2, <3>3, <3>5, <4>1 DEF FoundLists
      <3> QED
        BY <3>4, <3>5
    <2>4. \A i \in 1 .. n, a \in A : AddMatch(a, sigs, regs[i]) \in A
      <3> HIDE DEF n, A
      <3> QED
        BY <2>1, <2>3
    <2> QED
      BY <2>1, <2>2, <2>4
  <1>3. \A i \in 1 .. n, a \in A : st[i][a] = AddMatch(a, sigs, regs[i]) /\ st[i][a] \in A
    BY <1>2
  <1> HIDE DEF n, A, b, st
  <1>4. PICK f : Computes(f, n, A, b, st)
    BY <1>2, <1>3, Recursion
  <1>5. f \in [0 .. n -> A] /\ f[0] = b /\ \A i \in 1 .. n : f[i] = AddMatch(f[i - 1], sigs, regs[i])
    <2>1. f \in [0 .. n -> A] /\ f[0] = b /\ \A i \in 1 .. n : f[i] = st[i][f[i - 1]]
      BY <1>4 DEF Computes
    <2>2. \A i \in 1 .. n : f[i - 1] \in A
      <3>1. \A i \in 1 .. n : i - 1 \in 0 .. n
        BY <1>2
      <3> QED
        BY <2>1, <3>1
    <2> QED
      BY <1>3, <2>1, <2>2
  <1>6. f = [k \in 0 .. n |-> IF k = 0 THEN b ELSE AddMatch(f[k - 1], sigs, regs[k])]
    BY <1>2, <1>5
  <1>7. F = [k \in 0 .. n |-> IF k = 0 THEN b ELSE AddMatch(F[k - 1], sigs, regs[k])]
    BY <1>6
  <1> HIDE DEF F
  <1>8. F[0] = b /\ \A i \in 1 .. n : F[i] = AddMatch(F[i - 1], sigs, regs[i])
    BY <1>2, <1>7
  <1> DEFINE S == {k \in 0 .. n : F[k] \in A}
  <1>9. 0 \in S /\ \A i \in 1 .. n : i - 1 \in S => i \in S
    BY <1>2, <1>8
  <1>10. \A i \in 0 .. n : i \in S
    <2> HIDE DEF S
    <2> QED
      BY <1>2, <1>9, Induct
  <1>11. F \in [0 .. n -> A]
    BY <1>7, <1>10
  <1>12. MatchedBy(F, sigs, regs)
    BY <1>1, <1>8, <1>11 DEF MatchedBy, n, A, b
  <1> QED
    BY <1>12

\* Whatever is matched has an element.
LEMMA MatchedType ==
    ASSUME NEW sigs, NEW regs \in Seq(Nat)
    PROVE  Matched(sigs, regs) \in FoundLists(sigs)
  <1>1. PICK f : MatchedBy(f, sigs, regs)
    BY MatchedSteps
  <1>2. Len(regs) \in Nat
    BY LenProperties
  <1> QED
    BY <1>1, <1>2 DEF MatchedBy

\* The elements of a layout are named as the entries are.
LEMMA LayoutNamed ==
    ASSUME NEW es \in ReadyLists, NEW sigs, Reads(sigs, es), NEW found \in FoundLists(sigs)
    PROVE  LayoutNames([i \in DOMAIN found |->
                           [reg |-> found[i], name |-> sigs[FirstOf(sigs, found[i])].name,
                            semIdx |-> sigs[FirstOf(sigs, found[i])].semIdx]], es)
  <1> DEFINE k(i) == FirstOf(sigs, found[i])
             x == [i \in DOMAIN found |-> [reg |-> found[i], name |-> sigs[k(i)].name, semIdx |-> sigs[k(i)].semIdx]]
             n == Len(found)
  <1>1. n \in Nat /\ DOMAIN found = 1 .. n /\ \A i \in 1 .. n : ~ (k(i) > Len(sigs))
    BY LenProperties DEF FoundLists
  <1>2. /\ Len(es) \in Nat /\ Len(sigs) = Len(es) /\ DOMAIN sigs = 1 .. Len(es)
        /\ \A i \in 1 .. Len(es) : /\ sigs[i].name = es[i].name /\ sigs[i].semIdx = es[i].semIdx
                                   /\ sigs[i].reg = es[i].reg
        /\ \A i \in 1 .. Len(es) : es[i].name \in NameType
    BY ReadyNames DEF Reads
  <1>3. ASSUME NEW i \in 1 .. n PROVE k(i) \in 1 .. Len(es) /\ sigs[k(i)].reg = found[i]
    <2>1. k(i) \in 1 .. Len(es) + 1 /\ (k(i) <= Len(es) => sigs[k(i)].reg = found[i])
      BY <1>2, FirstOfIs
    <2>2. ~ (k(i) > Len(es))
      BY <1>1, <1>2
    <2> HIDE DEF k
    <2> QED
      BY <1>2, <2>1, <2>2
  <1>4. x = [i \in 1 .. n |-> [reg |-> found[i], name |-> sigs[k(i)].name, semIdx |-> sigs[k(i)].semIdx]]
    BY <1>1
  <1> HIDE DEF k, n
  <1>5. \A i \in 1 .. n : x[i].reg = found[i] /\ x[i].name = sigs[k(i)].name /\ x[i].semIdx = sigs[k(i)].semIdx
    BY <1>4
  <1>6. Len(x) = n /\ DOMAIN x = 1 .. n
    <2>1. x = [i \in 1 .. n |-> x[i]]
      BY <1>4
    <2> HIDE DEF x
    <2> QED
      BY <1>1, <2>1, SeqOfLength
  <1> HIDE DEF x
  <1>7. HasNames(x)
    <2>1. ASSUME NEW i \in 1 .. n PROVE x[i].name \in NameType
      BY <1>2, <1>3, <1>5
    <2> QED
      BY <1>1, <1>6, <2>1 DEF HasNames
  <1>8. ASSUME NEW i \in 1 .. n
        PROVE  \E j \in 1 .. Len(es) :
                  es[j].reg = x[i].reg /\ es[j].name = x[i].name /\ es[j].semIdx = x[i].semIdx
    BY <1>2, <1>3, <1>5
  <1>9. LayoutNames(x, es)
    BY <1>6, <1>7, <1>8 DEF LayoutNames
  <1> QED
    BY <1>9 DEF x, k

-----------------------------------------------------------------------------
LEMMA ContainerInvInit == Init => ContainerInv
  <1> SUFFICES ASSUME Init PROVE ContainerInv
    OBVIOUS
  <1>1. phase = "idle" /\ layoutSig = Nothing /\ created = << >>
    BY DEF Init
  <1>2. IsSequence(<< >>) /\ DOMAIN << >> = {}
    <2>1. Len(<< >>) = 0 /\ << >> = [i \in 1 .. 0 |-> << >>[i]]
      OBVIOUS
    <2> QED
      BY <2>1 DEF IsSequence
  <1> QED
    BY <1>1, <1>2 DEF ContainerInv, ReadyPhase

\* The container is a function of the shader, its scan and its entries.
LEMMA SameContainer ==
    ASSUME UNCHANGED tokenVars, entries' = entries
    PROVE  Chunks' = Chunks /\ Made(Chunks)' = Made(Chunks)
  <1>1. shader' = shader
    BY DEF tokenVars
  <1>2. AnyMinPrec' = AnyMinPrec /\ Words' = Words /\ Classes' = Classes
    BY <1>1 DEF AnyMinPrec, Words, Classes
  <1>3. \A cls : Tag(cls)' = Tag(cls)
    BY <1>1, <1>2 DEF Tag
  <1>4. CodeChunk' = CodeChunk
    BY <1>1, <1>2 DEF CodeChunk, CodeBytes
  <1>5. ChunkClasses' = ChunkClasses
    BY <1>2 DEF ChunkClasses
  <1>6. \A cls, mask : UsedMask(cls, mask)' = UsedMask(cls, mask)
    BY <1>1 DEF UsedMask
  <1>7. \A e, cls, k, off : Field(e, cls, k, off)' = Field(e, cls, k, off)
    BY <1>6 DEF Field
  <1>8. \A e, cls, tag, off : Element(e, cls, tag, off)' = Element(e, cls, tag, off)
    BY <1>7 DEF Element
  <1>9. \A cls : SigChunk(cls)' = SigChunk(cls)
    BY <1>3, <1>8 DEF SigChunk
  <1>10. Chunks' = Chunks
    BY <1>4, <1>5, <1>9 DEF Chunks
  <1> QED
    BY <1>10

\* Every step keeps the containers sound.
LEMMA ContainerInvKept == ScanInv /\ SigTypes /\ ContainerInv /\ [Next]_vars => ContainerInv'
  <1> SUFFICES ASSUME ScanInv, SigTypes, ContainerInv, [Next]_vars PROVE ContainerInv'
    OBVIOUS
  <1> DEFINE Layout == layoutSig # Nothing =>
                          /\ layoutSig.vs \in DOMAIN created
                          /\ LayoutNames(layoutSig.elements, created[layoutSig.vs].entries.in)
             Exist == IsSequence(created) /\ \A v \in DOMAIN created : CreatedSound(created[v])
  <1>0. shader \in Shader /\ scan \in ScanType /\ Layout /\ Exist
    BY DEF ScanInv, SigTypes, ContainerInv
  <1>1. ASSUME created' = created, layoutSig' = layoutSig PROVE Layout' /\ Exist'
    BY <1>0, <1>1 DEF CreatedSound, ContainerInv
  <1>2. ASSUME phase' \notin ReadyPhase, Layout', Exist' PROVE ContainerInv'
    BY <1>2 DEF ContainerInv, ReadyPhase
  <1>3. CASE CreateShader
    <2>1. phase' \notin ReadyPhase
      BY <1>3 DEF CreateShader, ReadyPhase
    <2> HIDE DEF Layout, Exist
    <2> QED
      BY <1>1, <1>2, <1>3, <2>1 DEF CreateShader
  <1>4. CASE Scan
    <2>1. phase' \notin ReadyPhase
      BY <1>4 DEF Scan, ReadyPhase
    <2> HIDE DEF Layout, Exist
    <2> QED
      BY <1>1, <1>2, <1>4, <2>1 DEF Scan
  <1>5. CASE Collect /\ Complete
    <2>1. phase' \notin ReadyPhase
      BY <1>5 DEF Collect, ReadyPhase
    <2> HIDE DEF Layout, Exist
    <2> QED
      BY <1>1, <1>2, <1>5, <2>1 DEF Complete
  <1>6. CASE AssignSemantics /\ Complete
    <2>1. /\ phase = "collected" /\ phase' = "named" /\ shader' = shader
          /\ entries' = [c \in Class |-> Assigned(entries[c], c)]
      BY <1>6 DEF AssignSemantics, tokenVars
    <2>2. \A c \in Class : entries[c] \in RawLists
      BY <2>1 DEF SigTypes
    <2>3. ASSUME NEW c \in Class PROVE NamedByPlace(entries'[c], c, shader'.stage)
      BY <1>0, <2>1, <2>2, AssignedNames
    <2>4. Layout' /\ Exist'
      <3> HIDE DEF Layout, Exist
      <3> QED
        BY <1>1, <1>6 DEF Complete
    <2> QED
      BY <2>1, <2>3, <2>4 DEF ContainerInv, ReadyPhase
  <1>7. ASSUME phase \in ReadyPhase, UNCHANGED tokenVars, entries' = entries
        PROVE  /\ \A c \in Class : entries[c] \in ReadyLists
               /\ \A c \in Class : NamedByPlace(entries'[c], c, shader'.stage)
               /\ shader' = shader /\ Made(Chunks)' = Made(Chunks)
    BY <1>7, SameContainer DEF SigTypes, ContainerInv, tokenVars
  <1>8. CASE BuildDxbc
    <2>1. /\ phase = "named" /\ phase' = "built" /\ container' = Made(Chunks)
          /\ UNCHANGED tokenVars /\ entries' = entries /\ created' = created /\ layoutSig' = layoutSig
      BY <1>8 DEF BuildDxbc
    <2>2. container' = Made(Chunks)' /\ \A c \in Class : NamedByPlace(entries'[c], c, shader'.stage)
      BY <1>7, <2>1 DEF ReadyPhase
    <2>3. Layout' /\ Exist'
      <3> HIDE DEF Layout, Exist
      <3> QED
        BY <1>1, <2>1
    <2> QED
      BY <2>1, <2>2, <2>3 DEF ContainerInv
  <1>9. CASE BuildDxbcFails
    <2>1. phase' \notin ReadyPhase
      BY <1>9 DEF BuildDxbcFails, ReadyPhase
    <2> HIDE DEF Layout, Exist
    <2> QED
      BY <1>1, <1>2, <1>9, <2>1 DEF BuildDxbcFails
  <1>10. CASE DeclareStreamOutput
    <2>1. /\ phase = "built" /\ phase' = "declared" /\ container' = container /\ WithSo(shader)
          /\ soDecl' = [i \in DOMAIN SoSource |-> SoEntry(ParseSig(container, FALSE), SoSource[i])]
          /\ UNCHANGED tokenVars /\ entries' = entries /\ created' = created /\ layoutSig' = layoutSig
      BY <1>10 DEF DeclareStreamOutput
    <2>2. /\ container' = Made(Chunks)' /\ \A c \in Class : NamedByPlace(entries'[c], c, shader'.stage)
          /\ shader' = shader
      BY <1>7, <2>1 DEF ReadyPhase, ContainerInv
    <2>3. WithSo(shader)' /\ SoSource' = SoSource
      BY <2>1, <2>2 DEF WithSo, SoSource
    <2>4. soDecl' = [i \in DOMAIN SoSource' |-> SoEntry(ParseSig(container', FALSE), SoSource'[i])]
      BY <2>1, <2>3
    <2>5. Layout' /\ Exist'
      <3> HIDE DEF Layout, Exist
      <3> QED
        BY <1>1, <2>1
    <2> QED
      BY <2>1, <2>2, <2>3, <2>4, <2>5 DEF ContainerInv
  <1>11. CASE CreateNative
    <2> DEFINE r == [shader |-> shader, entries |-> entries, container |-> container]
               n == Len(created)
    <2>1. /\ phase \in {"built", "declared"} /\ phase' = "idle" /\ created' = Append(created, r)
          /\ layoutSig' = layoutSig
      BY <1>11 DEF CreateNative
    <2>2. container = Made(Chunks) /\ \A c \in Class : entries[c] \in ReadyLists /\ NamedByPlace(entries[c], c, shader.stage)
      BY <2>1 DEF ContainerInv, SigTypes, ReadyPhase
    <2>3. CreatedSound(r)
      <3>1. Reads(ParseSig(container, TRUE), entries.in)
        BY <1>0, <2>2, ContainerReads
      <3> QED
        BY <1>0, <2>2, <3>1 DEF CreatedSound
    <2>4. n \in Nat /\ DOMAIN created = 1 .. n
      BY <1>0 DEF IsSequence
    <2> HIDE DEF r
    <2>5. /\ IsSequence(created') /\ DOMAIN created' = 1 .. n + 1 /\ created'[n + 1] = r
          /\ \A i \in 1 .. n : created'[i] = created[i]
      BY <1>0, <2>1, AppendIs
    <2> HIDE DEF n
    <2>6. \A v \in 1 .. n + 1 : v \in 1 .. n \/ v = n + 1
      BY <2>4
    <2>7. \A v \in DOMAIN created' : CreatedSound(created'[v])
      BY <1>0, <2>3, <2>4, <2>5, <2>6
    <2>8. \A v \in DOMAIN created : v \in DOMAIN created' /\ created'[v] = created[v]
      BY <2>4, <2>5
    <2>9. phase' \notin ReadyPhase
      BY <2>1 DEF ReadyPhase
    <2>10. Layout' /\ Exist'
      BY <1>0, <2>1, <2>5, <2>7, <2>8 DEF CreatedSound
    <2> HIDE DEF Layout, Exist
    <2> QED
      BY <1>2, <2>9, <2>10
  <1>12. CASE CreateNativeFails
    <2>1. phase' \notin ReadyPhase
      BY <1>12 DEF CreateNativeFails, ReadyPhase
    <2> HIDE DEF Layout, Exist
    <2> QED
      BY <1>1, <1>2, <1>12, <2>1 DEF CreateNativeFails
  <1>13. CASE CreateShaderRejected
    <2>1. phase' = "idle"
      BY <1>13 DEF CreateShaderRejected, sigVars
    <2>2. phase' \notin ReadyPhase
      BY <2>1 DEF ReadyPhase
    <2> HIDE DEF Layout, Exist
    <2> QED
      BY <1>1, <1>2, <1>13, <2>2 DEF CreateShaderRejected
  <1>14. ASSUME NEW v \in DOMAIN created, NEW regs \in CreatedShader(v).layouts, ResolveElements(v, regs)
         PROVE  ContainerInv'
    <2> DEFINE sigs == ParseSig(created[v].container, TRUE)
               found == Matched(sigs, regs)
               es == created[v].entries.in
               elements == [i \in DOMAIN found |->
                               [reg |-> found[i], name |-> sigs[FirstOf(sigs, found[i])].name,
                                semIdx |-> sigs[FirstOf(sigs, found[i])].semIdx]]
    <2>1. /\ phase = "idle" /\ phase' = phase /\ created' = created
          /\ layoutSig' = [vs |-> v, elements |-> elements]
      BY <1>14 DEF ResolveElements, sigVars
    <2>2. created[v].shader \in Shader /\ es \in ReadyLists /\ Reads(sigs, es)
      BY <1>0 DEF CreatedSound, Class
    <2>3. regs \in Seq(Nat)
      BY <2>2, ShaderContainerAssumption DEF CreatedShader
    <2>4. found \in FoundLists(sigs)
      BY <2>3, MatchedType
    <2> HIDE DEF sigs, found, es
    <2>5. LayoutNames(elements, es)
      BY <2>2, <2>4, LayoutNamed
    <2> HIDE DEF elements
    <2>6. layoutSig'.vs = v /\ layoutSig'.elements = elements
      BY <2>1
    <2>7. phase' \notin ReadyPhase
      BY <2>1 DEF ReadyPhase
    <2>8. Layout' /\ Exist'
      BY <1>0, <2>1, <2>5, <2>6 DEF es, CreatedSound
    <2> HIDE DEF Layout, Exist
    <2> QED
      BY <1>2, <2>7, <2>8
  <1>15. CASE UNCHANGED vars
    <2>1. /\ UNCHANGED tokenVars /\ entries' = entries /\ phase' = phase /\ container' = container
          /\ soDecl' = soDecl /\ created' = created /\ layoutSig' = layoutSig
      BY <1>15 DEF vars, sigVars
    <2>2. Layout' /\ Exist'
      <3> HIDE DEF Layout, Exist
      <3> QED
        BY <1>1, <2>1
    <2>3. CASE phase \notin ReadyPhase
      <3> HIDE DEF Layout, Exist
      <3> QED
        BY <1>2, <2>1, <2>2, <2>3
    <2>4. CASE phase \in ReadyPhase
      <3>1. /\ \A c \in Class : NamedByPlace(entries'[c], c, shader'.stage)
            /\ shader' = shader /\ Made(Chunks)' = Made(Chunks)
        BY <1>7, <2>1, <2>4
      <3>2. WithSo(shader)' = WithSo(shader) /\ SoSource' = SoSource
        BY <3>1 DEF WithSo, SoSource
      <3>3. phase' \in {"built", "declared"} => container' = Made(Chunks)'
        BY <2>1, <3>1 DEF ContainerInv
      <3>4. phase' = "declared" =>
               /\ WithSo(shader)'
               /\ soDecl' = [i \in DOMAIN SoSource' |-> SoEntry(ParseSig(container', FALSE), SoSource'[i])]
        BY <2>1, <3>2 DEF ContainerInv
      <3> QED
        BY <2>2, <3>1, <3>3, <3>4 DEF ContainerInv
    <2> QED
      BY <2>3, <2>4
  <1> QED
    BY <1>3, <1>4, <1>5, <1>6, <1>8, <1>9, <1>10, <1>11, <1>12, <1>13, <1>14, <1>15 DEF Next, Complete

\* Whatever was created, its container can be read again and its entries have
\* their names by place; whatever an input layout was given is named as the
\* vertex shader's inputs are.
THEOREM ContainerInvariant == Spec => []ContainerInv
  BY ContainerInvInit, ContainerInvKept, ScanInvariant, SignatureTypes, PTL DEF Spec

\* A container always fits what was reserved for it, its chunks are aligned and
\* hold their elements and names without overlap, and the hash is taken over
\* whole blocks with every byte of the rest in them (tritonDxbc.c:215-262,
\* 1054-1149, 1325-1337, 1418-1424).
THEOREM ContainersSound == Spec => []ContainerSound
  <1>1. ScanInv /\ SigTypes /\ ContainerInv => ContainerSound
    <2> SUFFICES ASSUME ScanInv, SigTypes, ContainerInv PROVE ContainerSound
      OBVIOUS
    <2>0. shader \in Shader /\ \A c \in Class : phase \in ReadyPhase => entries[c] \in ReadyLists
      BY DEF ScanInv, SigTypes
    <2>1. phase = "named" => Made(Chunks).total <= Budget
      BY <2>0, FitsBudget DEF ReadyPhase
    <2>2. ASSUME layoutSig # Nothing
          PROVE  LayoutBytes(layoutSig.elements) <= LayoutBudget(layoutSig.elements)
      <3> DEFINE es == layoutSig.elements
                 n == Len(es)
                 end == NamesEnd(es, "ISGN", n)
      <3>1. HasNames(es)
        BY <2>2 DEF ContainerInv, LayoutNames
      <3>2. n \in Nat
        BY <3>1 DEF HasNames
      <3>3. end \in Nat /\ end <= 8 + n * EntrySize("ISGN") + 26 * n
        BY <3>1, <3>2, NamesEndProps
      <3>4. EntrySize("ISGN") = 24
        BY DEF EntrySize, HasStream, HasMinPrec
      <3>5. LayoutBytes(es) = HeaderBytes(1) + 8 + Aligned(end)
        BY DEF LayoutBytes
      <3>6. LayoutBudget(es) = HeaderBytes(1) + 16 + n * (24 + 32) + 16
        BY <3>4 DEF LayoutBudget
      <3>7. Aligned(end) \in Nat /\ Aligned(end) <= end + 3
        BY <3>3, AlignedUp
      <3> DEFINE a == Aligned(end)
                 h == HeaderBytes(1)
      <3>8. h \in Nat
        BY DEF HeaderBytes
      <3> HIDE DEF n, end, a, h
      <3>9. h + 8 + a <= h + 16 + n * (24 + 32) + 16
        BY <3>2, <3>3, <3>4, <3>7, <3>8 DEF a
      <3> QED
        BY <3>5, <3>6, <3>9 DEF a, h
    <2>3. ASSUME phase \in {"built", "declared"}
          PROVE  /\ \A i \in DOMAIN container.chunks :
                       LET c == container.chunks[i] IN
                       /\ Offset(container.chunks, i) % 4 = 0 /\ c.len % 4 = 0
                       /\ \A n \in DOMAIN c.names :
                             /\ c.names[n] >= 8 + Len(c.elements) * EntrySize(c.tag)
                             /\ c.names[n] + NameBytes(n) <= c.len
                             /\ \A m \in DOMAIN c.names \ {n} :
                                   \/ c.names[m] >= c.names[n] + NameBytes(n)
                                   \/ c.names[n] >= c.names[m] + NameBytes(m)
                 /\ BlocksWhole(container.total - 20)
      <3>1. container = Made(Chunks) /\ \A c \in Class : entries[c] \in ReadyLists
        BY <2>0, <2>3 DEF ContainerInv, ReadyPhase
      <3>2. container.chunks = Chunks /\ container.total = Made(Chunks).total
        BY <3>1 DEF Made
      <3>3. HasLengths(Chunks) /\ \A i \in 1 .. Len(Chunks) : ChunkSound(Chunks[i])
        BY <2>0, <3>1, ChunksSound
      <3>4. DOMAIN Chunks = 1 .. Len(Chunks)
        BY <3>3 DEF HasLengths
      <3>5. \A i \in 1 .. Len(Chunks) : Chunks[i].len % 4 = 0
        BY <3>3 DEF ChunkSound
      <3>6. \A i \in 1 .. Len(Chunks) : Offset(Chunks, i) % 4 = 0
        BY <3>3, <3>5, OffsetAligned
      <3>7. container.total - 20 \in Nat
        BY <2>0, <3>1, <3>2, FitsBudget
      <3>8. BlocksWhole(container.total - 20)
        BY <3>7, TrailerWhole
      <3> QED
        BY <3>2, <3>3, <3>4, <3>6, <3>8 DEF ChunkSound
    <2> QED
      BY <2>1, <2>2, <2>3 DEF ContainerSound, BlocksWhole
  <1> QED
    BY ScanInvariant, SignatureTypes, ContainerInvariant, <1>1, PTL

-----------------------------------------------------------------------------
\* Two entries that do not claim the same component of a register.
Apart(x, y) == x.reg # NoReg => ~ (SamePlace(x, y) /\ Overlap(x.mask, y.mask))

NoTwice(s) == \A i, j \in 1 .. Len(s) : i # j => Apart(s[i], s[j])

\* An entry is one of the first m that the runtime reports, in a stream that
\* declares its register.
FromReport(x, cls, m) ==
    \E k \in 1 .. m :
        /\ x = Entry(Ddi(cls)[k], IF Streams(cls) > 1 THEN Ddi(cls)[k].stream ELSE 0,
                     Ddi(cls)[k].comp, Ddi(cls)[k].minPrec)
        /\ Streams(cls) > 1 => \E i \in 1 .. Len(Decls(cls)) : SamePlace(Decls(cls)[i], x)

\* An entry is made of a declaration.
FromScan(x, cls) == \E k \in 1 .. Len(Decls(cls)) : x = Synthesised(cls, Decls(cls)[k])

\* With one stream nothing is dropped, so what is reported has to be distinct.
DistinctReport(cls) ==
    \/ Streams(cls) > 1
    \/ \A i, j \in 1 .. Len(Ddi(cls)) : i # j /\ Ddi(cls)[i].reg # NoReg => ~ Collide(Ddi(cls)[i], Ddi(cls)[j])

LEMMA ApartSymmetric ==
    ASSUME NEW x, NEW y, Apart(x, y)
    PROVE  Apart(y, x)
  BY DEF Apart, SamePlace, Overlap

\* A list with one more entry, that is apart from all others.
LEMMA NoTwiceAppend ==
    ASSUME NEW T, NEW s \in Seq(T), NEW e \in T, NoTwice(s), \A i \in 1 .. Len(s) : Apart(s[i], e)
    PROVE  NoTwice(Append(s, e))
  <1> DEFINE x == Append(s, e)
             n == Len(s)
  <1>1. /\ n \in Nat /\ Len(x) = n + 1 /\ x[n + 1] = e
        /\ \A i \in 1 .. n : x[i] = s[i]
    BY LenProperties, AppendProperties
  <1>2. \A i \in 1 .. n : Apart(s[i], e) /\ Apart(e, s[i])
    BY ApartSymmetric
  <1>3. \A i, j \in 1 .. n : i # j => Apart(s[i], s[j])
    BY DEF NoTwice
  <1> HIDE DEF x, n
  <1>4. \A i \in 1 .. n + 1 : i \in 1 .. n \/ i = n + 1
    BY <1>1
  <1>5. ASSUME NEW i \in 1 .. n + 1, NEW j \in 1 .. n + 1, i # j PROVE Apart(x[i], x[j])
    BY <1>1, <1>2, <1>3, <1>4, <1>5
  <1> QED
    BY <1>1, <1>5 DEF NoTwice, x

\* What is reported as one of the first is one of the first of more.
LEMMA FromReportMore ==
    ASSUME NEW x, NEW cls, NEW m \in Nat, FromReport(x, cls, m)
    PROVE  FromReport(x, cls, m + 1)
  <1>1. \A k \in 1 .. m : k \in 1 .. m + 1
    OBVIOUS
  <1> QED
    BY <1>1 DEF FromReport

\* What has been kept of the first m reported entries.
ReportKept(kept, cls, m) ==
    /\ \A j \in 1 .. Len(kept) : FromReport(kept[j], cls, m)
    /\ DistinctReport(cls) => NoTwice(kept)

LEMMA AttributeKeeps ==
    ASSUME shader \in Shader, scan \in ScanType, NEW cls \in Class, NEW m \in Nat, m + 1 \in 1 .. Len(Ddi(cls)),
           NEW kept \in Seq(RawType), ReportKept(kept, cls, m)
    PROVE  ReportKept(Attribute(kept, Ddi(cls)[m + 1], cls), cls, m + 1)
  <1> DEFINE d == Ddi(cls)[m + 1]
             stream == IF Streams(cls) > 1 THEN d.stream ELSE 0
             e == Entry(d, stream, d.comp, d.minPrec)
  <1>1. /\ d \in DdiEntry /\ Len(Ddi(cls)) \in Nat /\ Len(kept) \in Nat /\ DOMAIN kept = 1 .. Len(kept)
        /\ DOMAIN Decls(cls) = 1 .. Len(Decls(cls))
    BY DdiType, DeclsType, LenProperties
  <1>2. e \in RawType
    <2>1. stream \in Nat /\ d.comp \in Nat /\ d.minPrec \in Nat /\ d.sysval \in Nat /\ d.reg \in Nat
          /\ d.mask \in SUBSET Component
      BY <1>1 DEF DdiEntry
    <2> HIDE DEF stream, d
    <2> QED
      BY <2>1, EntryIsEntry
  <1>3. \A j \in 1 .. Len(kept) : FromReport(kept[j], cls, m + 1)
    BY FromReportMore DEF ReportKept
  <1>4. CASE ~ Believed(kept, d, cls)
    <2>1. Attribute(kept, d, cls) = kept
      BY <1>4 DEF Attribute
    <2> QED
      BY <1>3, <2>1 DEF ReportKept
  <1>5. CASE Believed(kept, d, cls)
    <2>1. Attribute(kept, d, cls) = Append(kept, e)
      BY <1>5 DEF Attribute
    <2>2. e.reg = d.reg /\ e.mask = d.mask /\ e.stream = stream
      BY DEF Entry
    <2>3. FromReport(e, cls, m + 1)
      <3>1. Streams(cls) > 1 => \E i \in 1 .. Len(Decls(cls)) : SamePlace(Decls(cls)[i], e)
        BY <1>1, <1>5, <2>2 DEF Believed, SamePlace
      <3>2. m + 1 \in 1 .. m + 1
        OBVIOUS
      <3> QED
        BY <3>1, <3>2 DEF FromReport
    <2>4. ASSUME DistinctReport(cls), NEW i \in 1 .. Len(kept) PROVE Apart(kept[i], e)
      <3>1. CASE Streams(cls) > 1
        <4>1. ~ (SamePlace(kept[i], d) /\ Overlap(kept[i].mask, d.mask))
          BY <1>1, <1>5, <3>1 DEF Believed
        <4>2. stream = d.stream
          BY <3>1
        <4> QED
          BY <2>2, <4>1, <4>2 DEF Apart, SamePlace
      <3>2. CASE ~ (Streams(cls) > 1)
        <4>1. PICK k \in 1 .. m :
                 kept[i] = Entry(Ddi(cls)[k], IF Streams(cls) > 1 THEN Ddi(cls)[k].stream ELSE 0,
                                 Ddi(cls)[k].comp, Ddi(cls)[k].minPrec)
          BY DEF ReportKept, FromReport
        <4>2. kept[i].reg = Ddi(cls)[k].reg /\ kept[i].mask = Ddi(cls)[k].mask
          BY <4>1 DEF Entry
        <4>3. k \in 1 .. Len(Ddi(cls)) /\ k # m + 1
          BY <1>1
        <4>4. Ddi(cls)[k].reg # NoReg => ~ Collide(Ddi(cls)[k], d)
          BY <2>4, <3>2, <4>3 DEF DistinctReport
        <4> QED
          BY <2>2, <4>2, <4>4 DEF Apart, SamePlace, Collide
      <3> QED
        BY <3>1, <3>2
    <2> HIDE DEF e, d, stream
    <2>5. DistinctReport(cls) => NoTwice(Append(kept, e))
      BY <1>2, <2>4, NoTwiceAppend DEF ReportKept
    <2>6. /\ Len(Append(kept, e)) = Len(kept) + 1 /\ Append(kept, e)[Len(kept) + 1] = e
          /\ \A i \in 1 .. Len(kept) : Append(kept, e)[i] = kept[i]
      BY <1>2, AppendProperties
    <2>7. \A j \in 1 .. Len(kept) + 1 : j \in 1 .. Len(kept) \/ j = Len(kept) + 1
      BY <1>1
    <2>8. \A j \in 1 .. Len(Append(kept, e)) : FromReport(Append(kept, e)[j], cls, m + 1)
      BY <1>3, <2>3, <2>6, <2>7
    <2>9. ReportKept(Append(kept, e), cls, m + 1)
      BY <2>5, <2>8 DEF ReportKept
    <2> QED
      BY <2>1, <2>9 DEF d
  <1> QED
    BY <1>4, <1>5

\* What is kept of the report comes of it, and collides only if the report does.
LEMMA AttributedKept ==
    ASSUME shader \in Shader, scan \in ScanType, NEW cls \in Class
    PROVE  ReportKept(Attributed(cls), cls, Len(Ddi(cls)))
  <1> DEFINE n == Len(Ddi(cls))
  <1>1. PICK f : AttributedBy(f, cls)
    BY AttributedSteps
  <1>2. n \in Nat
    BY DdiType
  <1>3. /\ f \in [0 .. n -> Seq(RawType)] /\ f[0] = << >> /\ Attributed(cls) = f[n]
        /\ \A i \in 1 .. n : f[i] = Attribute(f[i - 1], Ddi(cls)[i], cls)
    BY <1>1 DEF AttributedBy
  <1> DEFINE S == {i \in 0 .. n : ReportKept(f[i], cls, i)}
  <1>4. 0 \in S
    <2>1. Len(f[0]) = 0 /\ \A j : ~ (j \in 1 .. 0)
      BY <1>3
    <2>2. ReportKept(f[0], cls, 0)
      BY <2>1 DEF ReportKept, NoTwice
    <2> QED
      BY <1>2, <2>2
  <1>5. ASSUME NEW i \in 1 .. n, i - 1 \in S PROVE i \in S
    <2> DEFINE m == i - 1
    <2>1. m \in Nat /\ m \in 0 .. n /\ m + 1 = i
      BY <1>2
    <2>2. f[m] \in Seq(RawType) /\ ReportKept(f[m], cls, m)
      BY <1>3, <1>5, <2>1
    <2>3. f[i] = Attribute(f[m], Ddi(cls)[i], cls)
      BY <1>3
    <2> HIDE DEF m
    <2>4. ReportKept(Attribute(f[m], Ddi(cls)[m + 1], cls), cls, m + 1)
      BY <2>1, <2>2, AttributeKeeps
    <2>5. ReportKept(f[i], cls, i)
      BY <2>1, <2>3, <2>4
    <2> QED
      BY <1>2, <2>5
  <1> HIDE DEF n
  <1>6. n \in S
    <2> HIDE DEF S
    <2> QED
      BY <1>2, <1>4, <1>5, Induct
  <1> QED
    BY <1>3, <1>6 DEF n

\* The entries of a class, when they have been completed for m declarations.
CompletedFor(es, cls, m) ==
    /\ \A j \in 1 .. Len(es) : FromReport(es[j], cls, Len(Ddi(cls))) \/ FromScan(es[j], cls)
    /\ DistinctReport(cls) => NoTwice(es)
    /\ Len(es) < MaxSigEntries => \A i \in 1 .. m : Present(es, Decls(cls)[i])

\* What is present stays so.
LEMMA PresentKept ==
    ASSUME NEW T, NEW s \in Seq(T), NEW x \in Seq(T), Len(s) <= Len(x), \A i \in 1 .. Len(s) : x[i] = s[i],
           NEW decl, Present(s, decl)
    PROVE  Present(x, decl)
  <1>1. /\ Len(s) \in Nat /\ Len(x) \in Nat /\ DOMAIN s = 1 .. Len(s) /\ DOMAIN x = 1 .. Len(x)
    BY LenProperties
  <1>2. \A i \in 1 .. Len(s) : i \in 1 .. Len(x)
    BY <1>1
  <1> QED
    BY <1>1, <1>2 DEF Present

LEMMA SynthesiseKeeps ==
    ASSUME shader \in Shader, scan \in ScanType, NEW cls \in Class, NEW m \in Nat,
           m + 1 \in 1 .. Len(Decls(cls)), NEW es \in RawLists, CompletedFor(es, cls, m)
    PROVE  CompletedFor(Synthesise(es, Decls(cls)[m + 1], cls), cls, m + 1)
  <1> DEFINE d == Decls(cls)[m + 1]
             e == Synthesised(cls, d)
  <1>1. /\ d \in DeclType /\ es \in Seq(RawType) /\ Len(es) \in Nat /\ DOMAIN es = 1 .. Len(es)
        /\ e \in RawType /\ MaxSigEntries \in Nat
    BY DeclsType, SynthesisedType, LenProperties, ShaderTokensAssumption DEF RawLists
  <1>2. \A i \in 1 .. m + 1 : i \in 1 .. m \/ i = m + 1
    OBVIOUS
  <1>3. e.reg = d.reg /\ e.mask = d.mask /\ e.stream = d.stream
    BY DEF Synthesised, Entry
  <1>4. CASE Present(es, d) \/ Len(es) >= MaxSigEntries
    <2>1. Synthesise(es, d, cls) = es
      BY <1>4 DEF Synthesise
    <2>2. Len(es) < MaxSigEntries => \A i \in 1 .. m + 1 : Present(es, Decls(cls)[i])
      BY <1>1, <1>2, <1>4 DEF CompletedFor
    <2> QED
      BY <2>1, <2>2 DEF CompletedFor
  <1>5. CASE ~ (Present(es, d) \/ Len(es) >= MaxSigEntries)
    <2>1. Synthesise(es, d, cls) = Append(es, e)
      BY <1>5 DEF Synthesise
    <2>2. ASSUME NEW i \in 1 .. Len(es) PROVE Apart(es[i], e)
      <3>1. ~ (SamePlace(es[i], d) /\ MayOverlap(es[i].mask, d.mask))
        BY <1>1, <1>5 DEF Present
      <3> QED
        BY <1>3, <3>1 DEF Apart, SamePlace, MayOverlap
    <2>3. FromScan(e, cls)
      BY DEF FromScan
    <2>4. SamePlace(e, d) /\ MayOverlap(e.mask, d.mask)
      BY <1>3 DEF SamePlace, MayOverlap, Overlap
    <2> DEFINE x == Append(es, e)
    <2> HIDE DEF e
    <2>5. /\ x \in Seq(RawType) /\ Len(x) = Len(es) + 1 /\ x[Len(es) + 1] = e
          /\ \A i \in 1 .. Len(es) : x[i] = es[i]
      BY <1>1, AppendProperties
    <2>6. DistinctReport(cls) => NoTwice(x)
      BY <1>1, <2>2, NoTwiceAppend DEF CompletedFor
    <2> HIDE DEF x
    <2>7. \A j \in 1 .. Len(es) + 1 : j \in 1 .. Len(es) \/ j = Len(es) + 1
      BY <1>1
    <2>8. \A j \in 1 .. Len(x) : FromReport(x[j], cls, Len(Ddi(cls))) \/ FromScan(x[j], cls)
      BY <2>3, <2>5, <2>7 DEF CompletedFor
    <2>9. Present(x, d)
      <3>1. Len(es) + 1 \in DOMAIN x
        BY <1>1, <2>5, LenProperties
      <3> QED
        BY <2>4, <2>5, <3>1 DEF Present
    <2>10. ASSUME NEW i \in 1 .. m PROVE Present(x, Decls(cls)[i])
      <3>1. Present(es, Decls(cls)[i])
        BY <1>1, <1>5 DEF CompletedFor
      <3>2. Len(es) <= Len(x)
        BY <1>1, <2>5
      <3> QED
        BY <1>1, <2>5, <3>1, <3>2, PresentKept
    <2>11. CompletedFor(x, cls, m + 1)
      BY <1>2, <2>6, <2>8, <2>9, <2>10 DEF CompletedFor
    <2> QED
      BY <2>1, <2>11 DEF x
  <1> QED
    BY <1>4, <1>5

\* Every entry comes of the report or of the scan, every declaration has one
\* while there is room, and the entries collide only if the report does.
LEMMA CompletedIs ==
    ASSUME shader \in Shader, scan \in ScanType, NEW cls \in Class
    PROVE  CompletedFor(Completed(cls), cls, Len(Decls(cls)))
  <1> DEFINE n == Len(Decls(cls))
  <1>1. PICK f : CompletedBy(f, cls)
    BY CompletedSteps
  <1>2. n \in Nat
    BY DeclsType
  <1>3. /\ f \in [0 .. n -> RawLists] /\ f[0] = Attributed(cls) /\ Completed(cls) = f[n]
        /\ \A i \in 1 .. n : f[i] = Synthesise(f[i - 1], Decls(cls)[i], cls)
    BY <1>1 DEF CompletedBy
  <1> DEFINE S == {i \in 0 .. n : CompletedFor(f[i], cls, i)}
  <1>4. 0 \in S
    <2>1. \A j : ~ (j \in 1 .. 0)
      OBVIOUS
    <2>2. CompletedFor(f[0], cls, 0)
      BY <1>3, <2>1, AttributedKept DEF CompletedFor, ReportKept
    <2> QED
      BY <1>2, <2>2
  <1>5. ASSUME NEW i \in 1 .. n, i - 1 \in S PROVE i \in S
    <2> DEFINE m == i - 1
    <2>1. m \in Nat /\ m \in 0 .. n /\ m + 1 = i
      BY <1>2
    <2>2. f[m] \in RawLists /\ CompletedFor(f[m], cls, m)
      BY <1>3, <1>5, <2>1
    <2>3. f[i] = Synthesise(f[m], Decls(cls)[i], cls)
      BY <1>3
    <2> HIDE DEF m
    <2>4. CompletedFor(Synthesise(f[m], Decls(cls)[m + 1], cls), cls, m + 1)
      BY <2>1, <2>2, SynthesiseKeeps
    <2>5. CompletedFor(f[i], cls, i)
      BY <2>1, <2>3, <2>4
    <2> QED
      BY <1>2, <2>5
  <1> HIDE DEF n
  <1>6. n \in S
    <2> HIDE DEF S
    <2> QED
      BY <1>2, <1>4, <1>5, Induct
  <1> QED
    BY <1>3, <1>6 DEF n

-----------------------------------------------------------------------------
\* An entry that collides with none may be inserted anywhere.
LEMMA InsertedNoTwice ==
    ASSUME NEW s \in Seq(EntryType), NEW e \in EntryType, NoTwice(s), \A i \in 1 .. Len(s) : Apart(s[i], e)
    PROVE  NoTwice(Inserted(s, e))
  <1> DEFINE x == Inserted(s, e)
             p == InsertPlace(s, e)
             n == Len(s)
  <1>1. /\ n \in Nat /\ p \in 0 .. n /\ Len(x) = n + 1
        /\ \A i \in 1 .. n + 1 : x[i] = IF i <= p THEN s[i] ELSE IF i = p + 1 THEN e ELSE s[i - 1]
    BY InsertedIs, LenProperties DEF Around
  <1>2. \A i \in 1 .. n : Apart(s[i], e) /\ Apart(e, s[i])
    BY ApartSymmetric
  <1>3. \A i, j \in 1 .. n : i # j => Apart(s[i], s[j])
    BY DEF NoTwice
  <1> HIDE DEF x, p, n
  <1> DEFINE old(i) == IF i <= p THEN i ELSE i - 1
  <1>4. ASSUME NEW i \in 1 .. n + 1, i # p + 1 PROVE old(i) \in 1 .. n /\ x[i] = s[old(i)]
    BY <1>1, <1>4
  <1>5. ASSUME NEW i \in 1 .. n + 1, NEW j \in 1 .. n + 1, i # p + 1, j # p + 1, i # j PROVE old(i) # old(j)
    BY <1>1, <1>5
  <1>6. x[p + 1] = e
    BY <1>1
  <1> HIDE DEF old
  <1>7. ASSUME NEW i \in 1 .. n + 1, NEW j \in 1 .. n + 1, i # j PROVE Apart(x[i], x[j])
    <2>1. CASE i = p + 1
      BY <1>2, <1>4, <1>6, <1>7, <2>1
    <2>2. CASE j = p + 1
      BY <1>2, <1>4, <1>6, <1>7, <2>2
    <2>3. CASE i # p + 1 /\ j # p + 1
      BY <1>3, <1>4, <1>5, <1>7, <2>3
    <2> QED
      BY <2>1, <2>2, <2>3
  <1> QED
    BY <1>1, <1>7 DEF NoTwice, x

\* Sorting lets no entry appear twice.
LEMMA SortedNoTwice ==
    ASSUME NEW es \in Seq(EntryType), NoTwice(es)
    PROVE  NoTwice(Sorted(es))
  <1> DEFINE n == Len(es)
  <1>1. PICK f : SortedBy(f, es)
    BY SortedSteps
  <1>2. n \in Nat /\ \A i \in 1 .. n : es[i] \in EntryType
    BY LenProperties, ElementOfSeq
  <1>3. /\ f \in [0 .. n -> Seq(EntryType)] /\ f[0] = << >> /\ Sorted(es) = f[n]
        /\ \A i \in 1 .. n : f[i] = Inserted(f[i - 1], es[i])
    BY <1>1 DEF SortedBy
  <1>4. \A i, j \in 1 .. n : i # j => Apart(es[i], es[j])
    BY DEF NoTwice
  <1> HIDE DEF n
  <1> DEFINE S == {i \in 0 .. n : Len(f[i]) = i /\ Elements(f[i], i) = Elements(es, i) /\ NoTwice(f[i])}
  <1>5. 0 \in S
    <2>1. Len(f[0]) = 0 /\ Elements(f[0], 0) = Elements(es, 0)
      BY <1>3 DEF Elements
    <2>2. NoTwice(f[0])
      BY <2>1 DEF NoTwice
    <2> QED
      BY <1>2, <2>1, <2>2
  <1>6. ASSUME NEW i \in 1 .. n, i - 1 \in S PROVE i \in S
    <2> DEFINE m == i - 1
               s == f[m]
               e == es[i]
    <2>1. m \in 0 .. n /\ m \in Nat /\ m + 1 = i
      BY <1>2
    <2>2. s \in Seq(EntryType) /\ e \in EntryType /\ f[i] = Inserted(s, e)
      BY <1>2, <1>3, <2>1
    <2>3. Len(s) = m /\ Elements(s, m) = Elements(es, m) /\ NoTwice(s)
      BY <1>6
    <2>4. \A k \in 1 .. m : Apart(es[k], e)
      <3>1. \A k \in 1 .. m : k \in 1 .. n /\ k # i
        BY <1>2, <2>1
      <3> QED
        BY <1>4, <3>1
    <2> HIDE DEF s, e, m
    <2>5. ASSUME NEW j \in 1 .. Len(s) PROVE Apart(s[j], e)
      <3>1. s[j] \in Elements(es, m)
        BY <2>3 DEF Elements
      <3> QED
        BY <2>4, <3>1 DEF Elements
    <2>6. NoTwice(f[i])
      BY <2>2, <2>3, <2>5, InsertedNoTwice
    <2>7. Len(f[i]) = i
      BY <2>1, <2>2, <2>3, InsertedIs
    <2>8. Elements(f[i], i) = Elements(es, i)
      <3>1. Elements(f[i], i) = Elements(es, m) \union {e}
        BY <2>1, <2>2, <2>3, InsertedElements
      <3>2. \A k : k \in 1 .. i <=> k \in 1 .. m \/ k = i
        BY <1>2, <2>1
      <3> QED
        BY <3>1, <3>2 DEF Elements, e
    <2> QED
      BY <1>2, <2>6, <2>7, <2>8
  <1>7. n \in S
    <2> HIDE DEF S
    <2> QED
      BY <1>2, <1>5, <1>6, Induct
  <1> QED
    BY <1>3, <1>7

\* The entries of a class as they are collected.
LEMMA CollectedIs ==
    ASSUME shader \in Shader, scan \in ScanType, NEW cls \in Class
    PROVE  CompletedFor(Sorted(Completed(cls)), cls, Len(Decls(cls)))
  <1> DEFINE es == Completed(cls)
             s == Sorted(es)
             n == Len(es)
             m == Len(Decls(cls))
  <1>1. CompletedFor(es, cls, m)
    BY CompletedIs
  <1>2. /\ es \in RawLists /\ s \in RawLists /\ n \in Nat /\ Len(s) = n
        /\ Elements(s, n) = Elements(es, n)
    BY CollectedType
  <1>3. es \in Seq(EntryType) /\ DOMAIN es = 1 .. n /\ DOMAIN s = 1 .. n
    BY <1>2, RawAreEntries, LenProperties DEF RawLists
  <1>4. DistinctReport(cls) => NoTwice(s)
    BY <1>1, <1>3, SortedNoTwice DEF CompletedFor
  <1> HIDE DEF es, s, n, m
  <1>5. ASSUME NEW j \in 1 .. n PROVE FromReport(s[j], cls, Len(Ddi(cls))) \/ FromScan(s[j], cls)
    <2>1. s[j] \in Elements(es, n)
      BY <1>2 DEF Elements
    <2>2. PICK i \in 1 .. n : s[j] = es[i]
      BY <2>1 DEF Elements
    <2> QED
      BY <1>1, <2>2 DEF CompletedFor, n
  <1>6. ASSUME NEW i \in 1 .. m, Present(es, Decls(cls)[i]) PROVE Present(s, Decls(cls)[i])
    <2> DEFINE d == Decls(cls)[i]
    <2>1. PICK j \in 1 .. n : SamePlace(es[j], d) /\ MayOverlap(es[j].mask, d.mask)
      BY <1>3, <1>6 DEF Present
    <2>2. es[j] \in Elements(s, n)
      BY <1>2 DEF Elements
    <2>3. PICK k \in 1 .. n : s[k] = es[j]
      BY <2>2 DEF Elements
    <2> QED
      BY <1>3, <2>1, <2>3 DEF Present
  <1>7. CompletedFor(s, cls, m)
    BY <1>1, <1>2, <1>4, <1>5, <1>6 DEF CompletedFor, n
  <1> QED
    BY <1>7 DEF es, s, m

-----------------------------------------------------------------------------
\* Where an entry with a register comes from.
From(x, cls) ==
    x.reg # NoReg =>
        \E e \in EntryType :
            /\ FromReport(e, cls, Len(Ddi(cls))) \/ FromScan(e, cls)
            /\ SameElement(x, e, cls)

\* The entries of a class once they are named and numbered.
EntriesFromScan(es, cls) ==
    /\ \A j \in 1 .. Len(es) : From(es[j], cls)
    /\ DistinctReport(cls) => NoTwice(es)
    /\ Len(es) < MaxSigEntries =>
          \A i \in 1 .. Len(Decls(cls)) : Decls(cls)[i].reg # NoReg => Present(es, Decls(cls)[i])

\* To name and number them changes neither.
LEMMA AssignedIs ==
    ASSUME scan \in ScanType, NEW cls \in Class, NEW es \in RawLists, CompletedFor(es, cls, Len(Decls(cls)))
    PROVE  EntriesFromScan(Assigned(es, cls), cls)
  <1> DEFINE x == Assigned(es, cls)
             n == Len(es)
  <1>1. es \in EntryLists /\ es \in Seq(EntryType) /\ DOMAIN es = 1 .. n
    BY RawAreEntries, LenProperties DEF RawLists
  <1>2. /\ n \in Nat /\ Len(x) \in Nat /\ n <= Len(x) /\ x \in ReadyLists
        /\ \A i \in 1 .. n : NumberedFrom(x[i], es[i], cls)
        /\ \A i \in n + 1 .. Len(x) : x[i].reg = NoReg
    BY <1>1, AssignedType
  <1>3. \A i \in 1 .. n : es[i] \in EntryType
    BY <1>1, ElementOfSeq
  <1>4. DOMAIN x = 1 .. Len(x) /\ Len(x) <= MaxSigEntries /\ MaxSigEntries \in Nat
    BY <1>2, LenProperties, ShaderTokensAssumption DEF ReadyLists
  <1> HIDE DEF x, n
  <1>5. \A i \in 1 .. Len(x) : i \in 1 .. n \/ x[i].reg = NoReg
    <2>1. \A i \in 1 .. Len(x) : i \in 1 .. n \/ i \in n + 1 .. Len(x)
      BY <1>2
    <2> QED
      BY <1>2, <2>1
  <1>6. ASSUME NEW i \in 1 .. n
        PROVE  /\ SameElement(x[i], es[i], cls) /\ x[i].reg = es[i].reg /\ x[i].stream = es[i].stream
               /\ es[i].reg # NoReg => x[i].mask = es[i].mask
    BY <1>2 DEF NumberedFrom, SameElement
  <1>7. ASSUME NEW i \in 1 .. Len(x) PROVE From(x[i], cls)
    <2>1. CASE i \in 1 .. n
      <3>1. FromReport(es[i], cls, Len(Ddi(cls))) \/ FromScan(es[i], cls)
        BY <2>1 DEF CompletedFor, n
      <3> QED
        BY <1>3, <1>6, <2>1, <3>1 DEF From
    <2>2. CASE x[i].reg = NoReg
      BY <2>2 DEF From
    <2> QED
      BY <1>5, <2>1, <2>2
  <1>8. ASSUME DistinctReport(cls), NEW i \in 1 .. Len(x), NEW j \in 1 .. Len(x), i # j
        PROVE  Apart(x[i], x[j])
    <2> SUFFICES ASSUME x[i].reg # NoReg, SamePlace(x[i], x[j]), Overlap(x[i].mask, x[j].mask) PROVE FALSE
      BY DEF Apart
    <2>1. i \in 1 .. n /\ j \in 1 .. n
      BY <1>5 DEF SamePlace
    <2>2. Apart(es[i], es[j])
      BY <1>8, <2>1 DEF CompletedFor, NoTwice, n
    <2> QED
      BY <1>6, <2>1, <2>2 DEF Apart, SamePlace
  <1>9. ASSUME Len(x) < MaxSigEntries, NEW i \in 1 .. Len(Decls(cls)), Decls(cls)[i].reg # NoReg
        PROVE  Present(x, Decls(cls)[i])
    <2> DEFINE d == Decls(cls)[i]
    <2>1. n < MaxSigEntries
      BY <1>2, <1>4, <1>9
    <2>2. Present(es, d)
      BY <2>1 DEF CompletedFor, n
    <2>3. PICK j \in 1 .. n : SamePlace(es[j], d) /\ MayOverlap(es[j].mask, d.mask)
      BY <1>1, <2>2 DEF Present
    <2>4. SamePlace(x[j], d) /\ x[j].mask = es[j].mask
      BY <1>6, <1>9, <2>3 DEF SamePlace
    <2>5. j \in 1 .. Len(x)
      BY <1>2
    <2> QED
      BY <1>4, <2>3, <2>4, <2>5 DEF Present
  <1>10. EntriesFromScan(x, cls)
    BY <1>7, <1>8, <1>9 DEF EntriesFromScan, NoTwice
  <1> QED
    BY <1>10 DEF x

\* Without entries there is nothing to name.
LEMMA AssignedNone ==
    ASSUME scan \in ScanType, NEW cls, cls # "out"
    PROVE  Assigned(<< >>, cls) = << >>
  <1> DEFINE x == Assigned(<< >>, cls)
             acc == ResolvedAll(<< >>, cls)
             all == WithSysOuts(acc, cls)
  <1>1. << >> \in EntryLists /\ Len(<< >>) = 0
    BY NoEntriesType
  <1>2. acc.done \in NamedLists /\ Len(acc.done) = 0
    BY <1>1, ResolvedAllType DEF NamedSoFar
  <1>3. all = acc.done
    BY DEF WithSysOuts
  <1>4. x = [i \in DOMAIN all |-> [all[i] EXCEPT !.semIdx = SemIndex(all, i)]]
    BY DEF Assigned
  <1>5. DOMAIN all = {}
    <2>1. all \in Seq(NamedType) /\ Len(all) = 0
      BY <1>2, <1>3 DEF NamedLists
    <2> HIDE DEF all
    <2>2. DOMAIN all = 1 .. 0
      BY <2>1, LenProperties
    <2> QED
      BY <2>2
  <1> HIDE DEF all, acc
  <1>6. x \in ReadyLists /\ DOMAIN x = {}
    BY <1>1, <1>4, <1>5, AssignedType
  <1> HIDE DEF x
  <1>7. Len(x) = 0
    <2>1. Len(x) \in Nat /\ DOMAIN x = 1 .. Len(x) /\ x \in Seq(ReadyType)
      BY <1>6, LenProperties DEF ReadyLists
    <2> QED
      BY <1>6, <2>1
  <1>8. x = << >>
    BY <1>6, <1>7, EmptySeq DEF ReadyLists
  <1> QED
    BY <1>8 DEF x

\* What holds of the entries: they come of the report and of the scan.
EntriesInv ==
    /\ phase = "collected" => \A cls \in Classes : CompletedFor(entries[cls], cls, Len(Decls(cls)))
    /\ phase \in ReadyPhase => \A cls \in Classes : EntriesFromScan(entries[cls], cls)
    /\ phase \in {"collected"} \union ReadyPhase => \A cls \in Class \ Classes : entries[cls] = << >>

\* The sources of the entries are the shader and its scan.
LEMMA SameSources ==
    ASSUME UNCHANGED tokenVars
    PROVE  /\ Classes' = Classes /\ \A cls : Decls(cls)' = Decls(cls)
           /\ \A es, cls, m : CompletedFor(es, cls, m)' = CompletedFor(es, cls, m)
           /\ \A es, cls : EntriesFromScan(es, cls)' = EntriesFromScan(es, cls)
  <1>1. shader' = shader /\ scan' = scan
    BY DEF tokenVars
  <1>2. \A cls : Ddi(cls)' = Ddi(cls) /\ Decls(cls)' = Decls(cls) /\ Streams(cls)' = Streams(cls)
    BY <1>1 DEF Ddi, Read, Stride, Decls, Streams
  <1>3. \A cls, v : PickName(cls, v)' = PickName(cls, v)
    BY <1>1 DEF PickName, IsTarget
  <1>4. \A cls, d : Synthesised(cls, d)' = Synthesised(cls, d)
    BY <1>2 DEF Synthesised, TypedBy
  <1>5. \A x, cls, m : FromReport(x, cls, m)' = FromReport(x, cls, m)
    BY <1>2 DEF FromReport
  <1>6. \A x, cls : FromScan(x, cls)' = FromScan(x, cls)
    BY <1>2, <1>4 DEF FromScan
  <1>7. \A cls : DistinctReport(cls)' = DistinctReport(cls)
    BY <1>2 DEF DistinctReport
  <1>8. \A x, e, cls : SameElement(x, e, cls)' = SameElement(x, e, cls)
    BY <1>3 DEF SameElement
  <1>9. \A es, cls, m : CompletedFor(es, cls, m)' = CompletedFor(es, cls, m)
    BY <1>2, <1>5, <1>6, <1>7 DEF CompletedFor
  <1>10. \A x, cls : From(x, cls)' = From(x, cls)
    BY <1>2, <1>5, <1>6, <1>8 DEF From
  <1>11. \A es, cls : EntriesFromScan(es, cls)' = EntriesFromScan(es, cls)
    BY <1>2, <1>7, <1>10 DEF EntriesFromScan
  <1>12. Classes' = Classes
    BY <1>1 DEF Classes
  <1> QED
    BY <1>2, <1>9, <1>11, <1>12

\* Every step keeps the entries in line with the report and the scan.
LEMMA EntriesInvKept == ScanInv /\ SigTypes /\ EntriesInv /\ [Next]_vars => EntriesInv'
  <1> SUFFICES ASSUME ScanInv, SigTypes, EntriesInv, [Next]_vars PROVE EntriesInv'
    OBVIOUS
  <1>0. shader \in Shader /\ scan \in ScanType
    BY DEF ScanInv, SigTypes
  <1>1. ASSUME phase' \in {"idle", "scan"} PROVE EntriesInv'
    BY <1>1 DEF EntriesInv, ReadyPhase
  <1>2. ASSUME UNCHANGED tokenVars, entries' = entries,
               phase' = phase \/ (phase' \in ReadyPhase /\ phase \in ReadyPhase)
        PROVE  EntriesInv'
    <2>1. phase' = "collected" => phase = "collected"
      BY <1>2 DEF ReadyPhase
    <2>2. phase' \in ReadyPhase => phase \in ReadyPhase
      BY <1>2
    <2> QED
      BY <1>2, <2>1, <2>2, SameSources DEF EntriesInv
  <1>3. CASE CreateShader
    BY <1>1, <1>3 DEF CreateShader
  <1>4. CASE Scan
    BY <1>1, <1>4 DEF Scan
  <1>5. CASE Collect
    <2>1. /\ UNCHANGED tokenVars /\ phase' = "collected"
          /\ entries' = [c \in Class |-> IF c \in Classes THEN Sorted(Completed(c)) ELSE << >>]
      BY <1>5 DEF Collect
    <2>2. Classes \subseteq Class
      BY DEF Classes, Class
    <2>3. ASSUME NEW cls \in Classes PROVE CompletedFor(entries'[cls], cls, Len(Decls(cls)))
      <3>1. entries'[cls] = Sorted(Completed(cls))
        BY <2>1, <2>2
      <3> QED
        BY <1>0, <2>2, <3>1, CollectedIs
    <2>4. ASSUME NEW cls \in Class \ Classes PROVE entries'[cls] = << >>
      BY <2>1, <2>4
    <2>5. /\ Classes' = Classes /\ \A cls : Decls(cls)' = Decls(cls)
          /\ \A es, cls, m : CompletedFor(es, cls, m)' = CompletedFor(es, cls, m)
      BY <2>1, SameSources
    <2>6. \A cls \in Classes' : CompletedFor(entries, cls, Len(Decls(cls)))' = CompletedFor(entries', cls, Len(Decls(cls)))
      BY <2>5
    <2>7. \A cls \in Classes' : CompletedFor(entries[cls], cls, Len(Decls(cls)))'
      BY <2>3, <2>5
    <2> QED
      BY <2>1, <2>4, <2>5, <2>7 DEF EntriesInv, ReadyPhase
  <1>6. CASE AssignSemantics
    <2>1. /\ UNCHANGED tokenVars /\ phase = "collected" /\ phase' = "named"
          /\ entries' = [c \in Class |-> Assigned(entries[c], c)]
      BY <1>6 DEF AssignSemantics
    <2>2. Classes \subseteq Class /\ \A c \in Class : entries[c] \in RawLists
      BY <2>1 DEF Classes, Class, SigTypes
    <2>3. ASSUME NEW cls \in Classes PROVE EntriesFromScan(entries'[cls], cls)
      <3>1. CompletedFor(entries[cls], cls, Len(Decls(cls)))
        BY <2>1 DEF EntriesInv
      <3>2. entries'[cls] = Assigned(entries[cls], cls)
        BY <2>1, <2>2
      <3> QED
        BY <1>0, <2>2, <3>1, <3>2, AssignedIs
    <2>4. ASSUME NEW cls \in Class \ Classes PROVE entries'[cls] = << >>
      <3>1. entries[cls] = << >> /\ entries'[cls] = Assigned(entries[cls], cls)
        BY <2>1 DEF EntriesInv
      <3>2. ~ (cls = "out")
        BY DEF Classes, Class
      <3> QED
        BY <1>0, <2>2, <3>1, <3>2, AssignedNone
    <2>5. /\ Classes' = Classes
          /\ \A es, cls : EntriesFromScan(es, cls)' = EntriesFromScan(es, cls)
      BY <2>1, SameSources
    <2>6. \A cls \in Classes' : EntriesFromScan(entries[cls], cls)'
      BY <2>3, <2>5
    <2> QED
      BY <2>1, <2>4, <2>5, <2>6 DEF EntriesInv
  <1>7. CASE BuildDxbc
    BY <1>2, <1>7 DEF BuildDxbc, ReadyPhase
  <1>8. CASE BuildDxbcFails
    BY <1>1, <1>8 DEF BuildDxbcFails
  <1>9. CASE DeclareStreamOutput
    BY <1>2, <1>9 DEF DeclareStreamOutput, ReadyPhase
  <1>10. CASE CreateNative
    BY <1>1, <1>10 DEF CreateNative
  <1>11. CASE CreateNativeFails
    BY <1>1, <1>11 DEF CreateNativeFails
  <1>12. CASE CreateShaderRejected
    BY <1>2, <1>12 DEF CreateShaderRejected, sigVars
  <1>13. ASSUME NEW v \in DOMAIN created, NEW regs \in CreatedShader(v).layouts, ResolveElements(v, regs)
         PROVE  EntriesInv'
    BY <1>2, <1>13 DEF ResolveElements, sigVars
  <1>14. CASE UNCHANGED vars
    BY <1>2, <1>14 DEF vars, sigVars
  <1> QED
    BY <1>3, <1>4, <1>5, <1>6, <1>7, <1>8, <1>9, <1>10, <1>11, <1>12, <1>13, <1>14 DEF Next, Complete

\* The entries come of the report and of the scan: no reported entry is put in
\* a stream that does not declare its register, every declared register has an
\* entry while there is room, and no component of a register is in two entries
\* unless a report of a single stream has it twice (tritonDxbc.c:792-890).
THEOREM EntriesFollow == Spec => []EntriesInv
  <1>1. Init => EntriesInv
    BY DEF Init, EntriesInv, ReadyPhase
  <1> QED
    BY <1>1, EntriesInvKept, ScanInvariant, SignatureTypes, PTL DEF Spec

-----------------------------------------------------------------------------
\* Every stream that is declared for an output, and the current one, is counted.
StreamsCounted(s) == s.stream < s.cStream /\ \A i \in 1 .. Len(s.out) : s.out[i].stream < s.cStream

LEMMA DeclAddStreams ==
    ASSUME NEW ds \in DeclLists, NEW reg \in Nat, NEW mask \in SUBSET Component,
           NEW sysval \in Nat, NEW stream \in 0 .. 3, NEW k \in Nat, stream < k,
           \A i \in 1 .. Len(ds) : ds[i].stream < k
    PROVE  \A i \in 1 .. Len(DeclAdd(ds, reg, mask, sysval, stream)) :
              DeclAdd(ds, reg, mask, sysval, stream)[i].stream < k
  <1> DEFINE same == {i \in DOMAIN ds : Merges(ds[i], reg, mask, stream)}
             new == [reg |-> reg, mask |-> mask, sysval |-> sysval, stream |-> stream]
             x == DeclAdd(ds, reg, mask, sysval, stream)
  <1>1. /\ ds \in Seq(DeclType) /\ Len(ds) \in Nat
        /\ DOMAIN ds = 1 .. Len(ds) /\ \A i \in 1 .. Len(ds) : ds[i] \in DeclType
    BY LenProperties, ElementOfSeq DEF DeclLists
  <1>2. new \in DeclType /\ new.stream = stream
    BY DEF DeclType
  <1>3. CASE same # {}
    <2> DEFINE m == Min(same)
               merged == [reg |-> ds[m].reg, mask |-> ds[m].mask \union mask,
                          sysval |-> IF sysval # 0 /\ ds[m].sysval = 0 THEN sysval ELSE ds[m].sysval,
                          stream |-> ds[m].stream]
    <2>1. m \in same
      <3>1. same \in SUBSET Nat
        BY <1>1
      <3> HIDE DEF same
      <3> QED
        BY <1>3, <3>1, MinOf
    <2>2. m \in 1 .. Len(ds) /\ ds[m] \in DeclType
      BY <1>1, <2>1
    <2>3. DeclAdd(ds, reg, mask, sysval, stream) = [ds EXCEPT ![m] = merged]
      <3>1. DeclAdd(ds, reg, mask, sysval, stream)
              = [ds EXCEPT ![m].mask = @ \union mask,
                           ![m].sysval = IF sysval # 0 /\ @ = 0 THEN sysval ELSE @]
        BY <1>3 DEF DeclAdd
      <3> HIDE DEF same
      <3> QED
        BY <1>1, <2>2, <3>1 DEF DeclType
    <2>4. merged.stream < k /\ merged \in DeclType
      <3> HIDE DEF same
      <3> QED
        BY <2>2 DEF DeclType
    <2> HIDE DEF m, merged, same
    <2>5. Len(x) = Len(ds)
      BY <1>1, <2>2, <2>3, <2>4, ExceptSeq
    <2>6. ASSUME NEW i \in 1 .. Len(ds) PROVE x[i].stream < k
      <3>1. CASE i = m
        BY <1>1, <2>3, <2>4, <3>1
      <3>2. CASE i # m
        BY <1>1, <2>3, <3>2
      <3> QED
        BY <3>1, <3>2
    <2> QED
      BY <2>5, <2>6 DEF x
  <1>4. CASE same = {} /\ Len(ds) < MaxSigEntries
    <2>1. x = Append(ds, new)
      BY <1>4 DEF DeclAdd
    <2> HIDE DEF x, new, same
    <2>2. /\ Len(x) = Len(ds) + 1 /\ x[Len(ds) + 1] = new
          /\ \A i \in 1 .. Len(ds) : x[i] = ds[i]
      BY <1>1, <1>2, <2>1, AppendProperties
    <2>3. \A i \in 1 .. Len(ds) + 1 : i \in 1 .. Len(ds) \/ i = Len(ds) + 1
      BY <1>1
    <2>4. \A i \in 1 .. Len(x) : x[i].stream < k
      BY <1>2, <2>2, <2>3
    <2> QED
      BY <2>4 DEF x
  <1>5. CASE same = {} /\ ~ (Len(ds) < MaxSigEntries)
    BY <1>5 DEF DeclAdd
  <1> QED
    BY <1>3, <1>4, <1>5

\* An instruction keeps them counted.
LEMMA ScannedStreams ==
    ASSUME shader \in Shader, scan \in ScanType, StreamsCounted(scan),
           NEW p \in Nat, 1 <= p, NEW n \in Nat, p + n <= End
    PROVE  StreamsCounted(Scanned(p, n))
  <1> DEFINE op == Words[p].op
             end == p + n
             type == Words[p + 1].type
             mask == Words[p + 1].mask
             reg == OperandReg(p + 1, end)
             nameAt == p + 1 + OperandLength(p + 1, end)
             sysval == IF op \in NamedDcl /\ nameAt < end THEN WordValue(nameAt) % 65536 ELSE 0
  <1>1. ASSUME Decodable(p + 1, end)
        PROVE  reg \in Nat /\ mask \in SUBSET Component /\ sysval \in Nat
    <2>1. p + 1 < end /\ p + 1 \in Nat /\ end \in Nat /\ end <= End
      BY <1>1 DEF Decodable
    <2>2. Words[p + 1] \in Word
      BY <2>1, WordTypes
    <2>3. reg \in Nat
      <3> HIDE DEF end
      <3> QED
        BY <2>1, <2>2, OperandRegType
    <2>4. mask \in SUBSET Component
      BY <2>2 DEF Word
    <2>5. sysval \in Nat
      <3>1. \A k \in DOMAIN Words : Words[k].val \in Nat
        BY WordTypes DEF Word
      <3>2. WordValue(nameAt) \in Nat
        BY <3>1 DEF WordValue
      <3> HIDE DEF nameAt, op, end
      <3> QED
        BY <3>2
    <2> QED
      BY <2>3, <2>4, <2>5
  <1>2. ASSUME NEW s, s.out = scan.out, s.stream = scan.stream, s.cStream = scan.cStream
        PROVE  StreamsCounted(s)
    BY <1>2 DEF StreamsCounted
  <1>3. CASE op = "hs_control_point_phase"
    <2>1. Scanned(p, n) = [scan EXCEPT !.patchPhase = FALSE]
      BY <1>3 DEF Scanned, InputDcl, OutputDcl, HsPhase
    <2> QED
      BY <1>2, <2>1 DEF ScanType
  <1>4. CASE op \in {"hs_fork_phase", "hs_join_phase"}
    <2>1. Scanned(p, n) = [scan EXCEPT !.patchPhase = TRUE]
      BY <1>4 DEF Scanned, InputDcl, OutputDcl, HsPhase
    <2> QED
      BY <1>2, <2>1 DEF ScanType
  <1>5. CASE op = "dcl_stream" /\ Decodable(p + 1, end)
    <2>1. Scanned(p, n) = WithStream(scan, type, reg)
      BY <1>5 DEF Scanned, InputDcl, OutputDcl, HsPhase
    <2>2. reg \in Nat
      BY <1>1, <1>5
    <2> HIDE DEF reg, type
    <2>3. CASE type = "stream" /\ reg < 4
      <3> DEFINE U == {scan.cStream, reg + 1}
                 h == Highest(U)
                 s == [scan EXCEPT !.stream = reg, !.cStream = h]
      <3>1. U \in SUBSET (0 .. 4) /\ 4 \in Nat /\ scan.cStream \in U /\ reg + 1 \in U
        BY <2>2, <2>3 DEF ScanType
      <3>2. Scanned(p, n) = s
        BY <2>1, <2>3 DEF WithStream
      <3> HIDE DEF U
      <3>3. h \in 0 .. 4 /\ scan.cStream <= h /\ reg + 1 <= h
        BY <3>1, HighestOf
      <3>4. s.out = scan.out /\ s.stream = reg /\ s.cStream = h
        BY DEF ScanType
      <3>5. scan.cStream \in Nat /\ \A i \in 1 .. Len(scan.out) : scan.out[i].stream \in Nat
        <4>1. scan.out \in Seq(DeclType) /\ scan.cStream \in Nat
          BY DEF ScanType, DeclLists
        <4>2. ASSUME NEW i \in 1 .. Len(scan.out) PROVE scan.out[i].stream \in Nat
          <5>1. scan.out[i] \in DeclType
            BY <4>1, ElementOfSeq
          <5>2. scan.out[i].stream \in 0 .. 3
            BY <5>1 DEF DeclType
          <5> QED
            BY <5>2
        <4> QED
          BY <4>1, <4>2
      <3> HIDE DEF h, s
      <3>6. reg < h /\ \A i \in 1 .. Len(scan.out) : scan.out[i].stream < h
        BY <2>2, <3>3, <3>5 DEF StreamsCounted
      <3>7. StreamsCounted(s)
        BY <3>4, <3>6 DEF StreamsCounted
      <3> QED
        BY <3>2, <3>7
    <2>4. CASE ~ (type = "stream" /\ reg < 4)
      BY <2>1, <2>4 DEF WithStream
    <2> QED
      BY <2>3, <2>4
  <1>6. CASE op \in InputDcl /\ Decodable(p + 1, end)
    <2>1. Scanned(p, n) = WithInput(scan, type, reg, mask, sysval)
      BY <1>6 DEF Scanned, InputDcl, OutputDcl, HsPhase
    <2> HIDE DEF reg, type, mask, sysval
    <2>2. \/ WithInput(scan, type, reg, mask, sysval) = scan
          \/ \E d : WithInput(scan, type, reg, mask, sysval) \in {[scan EXCEPT !.in = d], [scan EXCEPT !.patch = d]}
      BY DEF WithInput
    <2> QED
      BY <1>2, <2>1, <2>2 DEF ScanType
  <1>7. CASE op \in OutputDcl /\ Decodable(p + 1, end)
    <2>1. Scanned(p, n) = WithOutput(scan, type, reg, mask, sysval)
      BY <1>7 DEF Scanned, InputDcl, OutputDcl, HsPhase
    <2>2. reg \in Nat /\ mask \in SUBSET Component /\ sysval \in Nat
      BY <1>1, <1>7
    <2> HIDE DEF reg, type, mask, sysval
    <2>3. CASE type = "output" /\ ~ scan.patchPhase
      <3> DEFINE stream == IF shader.stage = "GS" THEN scan.stream ELSE 0
                 ds == DeclAdd(scan.out, reg, mask, sysval, stream)
                 s == [scan EXCEPT !.out = ds]
      <3>1. Scanned(p, n) = s
        BY <2>1, <2>3 DEF WithOutput, SysOut
      <3>2. scan.out \in DeclLists /\ stream \in 0 .. 3 /\ scan.cStream \in Nat /\ stream < scan.cStream
        BY DEF ScanType, StreamsCounted
      <3> HIDE DEF stream
      <3>3. \A i \in 1 .. Len(ds) : ds[i].stream < scan.cStream
        BY <2>2, <3>2, DeclAddStreams DEF StreamsCounted
      <3>4. s.out = ds /\ s.stream = scan.stream /\ s.cStream = scan.cStream
        BY DEF ScanType
      <3> HIDE DEF ds, s
      <3>5. StreamsCounted(s)
        BY <3>3, <3>4 DEF StreamsCounted
      <3> QED
        BY <3>1, <3>5
    <2>4. CASE ~ (type = "output" /\ ~ scan.patchPhase)
      <3>1. CASE type = "output"
        <4>1. WithOutput(scan, type, reg, mask, sysval) = [scan EXCEPT !.patch = DeclAdd(scan.patch, reg, mask, sysval, 0)]
          BY <2>4, <3>1 DEF WithOutput, SysOut
        <4> QED
          BY <1>2, <2>1, <4>1 DEF ScanType
      <3>2. CASE type # "output"
        <4>1. CASE type \in SysOut /\ shader.stage = "PS" /\ Len(scan.sysOut) < 4
          <5>1. WithOutput(scan, type, reg, mask, sysval) = [scan EXCEPT !.sysOut = Append(scan.sysOut, type)]
            BY <3>2, <4>1 DEF WithOutput
          <5> QED
            BY <1>2, <2>1, <5>1 DEF ScanType
        <4>2. CASE ~ (type \in SysOut /\ shader.stage = "PS" /\ Len(scan.sysOut) < 4)
          <5>1. WithOutput(scan, type, reg, mask, sysval) = scan
            BY <3>2, <4>2 DEF WithOutput
          <5> QED
            BY <1>2, <2>1, <5>1
        <4> QED
          BY <4>1, <4>2
      <3> QED
        BY <3>1, <3>2
    <2> QED
      BY <2>3, <2>4
  <1>8. CASE /\ op \notin HsPhase
             /\ op \notin {"dcl_stream"} \union InputDcl \union OutputDcl \/ ~ Decodable(p + 1, end)
    <2>1. Scanned(p, n) = scan
      BY <1>8 DEF Scanned, InputDcl, OutputDcl, HsPhase
    <2> QED
      BY <2>1
  <1> QED
    BY <1>3, <1>4, <1>5, <1>6, <1>7, <1>8 DEF HsPhase

\* Every step keeps the streams counted.
LEMMA StreamsCountedKept == ScanInv /\ SigTypes /\ StreamsCounted(scan) /\ [Next]_vars => StreamsCounted(scan)'
  <1> SUFFICES ASSUME ScanInv, SigTypes, StreamsCounted(scan), [Next]_vars PROVE StreamsCounted(scan')
    OBVIOUS
  <1>1. CASE scan' = scan
    BY <1>1
  <1>2. CASE scan' = NewScan
    <2>1. NewScan.stream = 0 /\ NewScan.cStream = 1 /\ Len(NewScan.out) = 0
      BY DEF NewScan
    <2> QED
      BY <1>2, <2>1 DEF StreamsCounted
  <1>3. CASE ScanNext
    <2> DEFINE n == InstructionLength(at)
    <2>1. scan' = Scanned(at, n) /\ at < End /\ WellFormed(at)
      BY <1>3 DEF ScanNext
    <2>2. at \in Nat /\ 1 <= at /\ shader \in Shader
      BY WordTypes DEF ScanInv
    <2>3. n \in Nat /\ at + n <= End
      BY <2>1, <2>2, LengthInside
    <2> HIDE DEF n
    <2> QED
      BY <2>1, <2>2, <2>3, ScannedStreams DEF SigTypes
  <1>4. scan' = scan \/ scan' = NewScan \/ ScanNext
    BY DEF Next, CreateShader, ScanBegins, CreateShaderRejected, Scan, ScanEnds, Complete, Collect,
           AssignSemantics, BuildDxbc, BuildDxbcFails, DeclareStreamOutput, CreateNative, CreateNativeFails,
           ResolveElements, vars, sigVars, tokenVars
  <1> QED
    BY <1>1, <1>2, <1>3, <1>4

\* Every stream of a scanned output is counted: a signature with a single
\* stream has no element in another (tritonDxbc.c:707-744).
THEOREM OutputStreamsCounted == Spec => []StreamsCounted(scan)
  <1>1. Init => StreamsCounted(scan)
    <2>1. NewScan.stream = 0 /\ NewScan.cStream = 1 /\ Len(NewScan.out) = 0
      BY DEF NewScan
    <2> QED
      BY <2>1 DEF Init, StreamsCounted
  <1> QED
    BY <1>1, StreamsCountedKept, ScanInvariant, SignatureTypes, PTL DEF Spec

-----------------------------------------------------------------------------
\* What the scan keeps of an element, and of the primitive id.
DeclOf(d) == [reg |-> d.reg, mask |-> d.mask, sysval |-> d.sysval, stream |-> d.stream]

PrimitiveIdDecl == [reg |-> NoReg, mask |-> {0}, sysval |-> 7, stream |-> 0]

\* What may be found of a class, and at most once.
Declared(cls) ==
    {DeclOf(d) : d \in {d \in shader.declares : d.cls = cls}} \union
    (IF cls = "in" /\ shader.stage = "GS" THEN {PrimitiveIdDecl} ELSE {})

Once(s) == \A i, j \in 1 .. Len(s) : s[i] = s[j] => i = j

OnceOf(ds, S) == ds \in Seq(S) /\ Once(ds)

Has(ds, x) == \E i \in 1 .. Len(ds) : ds[i] = x

AddTo(ds, x) == DeclAdd(ds, x.reg, x.mask, x.sysval, x.stream)

\* What is assumed of a shader a compiler made.
LEMMA SoundIsMade ==
    ASSUME shader \in Shader, shader.sound
    PROVE  CompilerMade(shader) /\ ProgramSays(shader)
  BY ShaderContainerAssumption DEF CompilerMade

\* An element has a register and components.
LEMMA ElementFieldTypes ==
    ASSUME shader \in Shader, shader.sound, NEW d \in shader.declares
    PROVE  /\ d.cls \in Class /\ d.reg \in Nat /\ d.reg # NoReg
           /\ d.mask \subseteq Component /\ d.mask # {}
           /\ d.sysval \in Nat /\ d.sysval < 65536 /\ d.stream \in 0 .. 3
  <1>1. d \in DeclaredElement /\ d.sysval < 65536
    BY SoundIsMade DEF CompilerMade
  <1> QED
    BY <1>1 DEF DeclaredElement

\* There is room for everything that may be found.
LEMMA DeclaredFits ==
    ASSUME shader \in Shader, shader.sound, NEW cls \in Class
    PROVE  IsFiniteSet(Declared(cls)) /\ Cardinality(Declared(cls)) <= MaxSigEntries
  <1> DEFINE D == {d \in shader.declares : d.cls = cls}
             E == {DeclOf(d) : d \in D}
             P == IF cls = "in" /\ shader.stage = "GS" THEN {PrimitiveIdDecl} ELSE {}
             c == IF cls = "in" /\ shader.stage = "GS" THEN 1 ELSE 0
  <1>1. IsFiniteSet(shader.declares) /\ Cardinality(D) + c <= MaxSigEntries
    BY SoundIsMade DEF CompilerMade, Fits
  <1>2. IsFiniteSet(D)
    BY <1>1, FS_Subset
  <1>3. IsFiniteSet(E) /\ Cardinality(E) <= Cardinality(D)
    <2> DEFINE f == [d \in D |-> DeclOf(d)]
    <2> HIDE DEF D
    <2>1. f \in Surjection(D, E)
      BY DEF Surjection
    <2> HIDE DEF f, E
    <2> QED
      BY <1>2, <2>1, FS_Surjection
  <1>4. IsFiniteSet(P) /\ Cardinality(P) = c
    BY FS_EmptySet, FS_Singleton
  <1>5. Cardinality(E) \in Nat /\ Cardinality(P) \in Nat /\ Cardinality(D) \in Nat /\ MaxSigEntries \in Nat
    BY <1>2, <1>3, <1>4, FS_CardinalityType, ShaderTokensAssumption
  <1> HIDE DEF D, E, P, c
  <1>6. IsFiniteSet(E \union P) /\ IsFiniteSet(E \cap P)
    BY <1>3, <1>4, FS_Union, FS_Intersection
  <1>7. Cardinality(E \union P) = Cardinality(E) + Cardinality(P) - Cardinality(E \cap P)
    BY <1>3, <1>4, FS_Union
  <1>8. Cardinality(E \cap P) \in Nat
    BY <1>6, FS_CardinalityType
  <1>9. Cardinality(E \union P) <= MaxSigEntries
    BY <1>1, <1>3, <1>4, <1>5, <1>7, <1>8
  <1>10. Declared(cls) = E \union P
    BY DEF Declared, D, E, P
  <1> QED
    BY <1>6, <1>9, <1>10

\* Declarations that merge are declarations of the same.
LEMMA DeclaredApart ==
    ASSUME shader \in Shader, shader.sound, NEW cls \in Class,
           NEW x \in Declared(cls), NEW y \in Declared(cls), Merges(x, y.reg, y.mask, y.stream)
    PROVE  x = y
  <1>1. x.reg = y.reg /\ x.stream = y.stream
    BY DEF Merges
  <1>2. \A d \in shader.declares : d.reg # NoReg /\ d.mask # {}
    BY ElementFieldTypes
  <1>3. CASE x = PrimitiveIdDecl \/ y = PrimitiveIdDecl
    <2>1. x.reg = NoReg /\ y.reg = NoReg
      BY <1>1, <1>3 DEF PrimitiveIdDecl
    <2>2. \A z \in Declared(cls) : z.reg = NoReg => z = PrimitiveIdDecl
      BY <1>2 DEF Declared, DeclOf
    <2> QED
      BY <2>1, <2>2
  <1>4. CASE x # PrimitiveIdDecl /\ y # PrimitiveIdDecl
    <2>1. PICK d \in shader.declares : d.cls = cls /\ x = DeclOf(d)
      BY <1>4 DEF Declared
    <2>2. PICK e \in shader.declares : e.cls = cls /\ y = DeclOf(e)
      BY <1>4 DEF Declared
    <2>3. x.reg = d.reg /\ x.stream = d.stream /\ x.mask = d.mask
      BY <2>1 DEF DeclOf
    <2>4. y.reg = e.reg /\ y.stream = e.stream /\ y.mask = e.mask
      BY <2>2 DEF DeclOf
    <2>5. d.stream = e.stream /\ Collide(d, e)
      BY <1>1, <1>2, <2>3, <2>4 DEF Merges, Collide, Overlap
    <2>6. d = e
      BY <2>1, <2>2, <2>5, SoundIsMade DEF CompilerMade
    <2> QED
      BY <2>1, <2>2, <2>6
  <1> QED
    BY <1>3, <1>4

\* A sequence without repetition that misses something is shorter than the set.
LEMMA OnceIsShort ==
    ASSUME NEW S, IsFiniteSet(S), NEW ds, OnceOf(ds, S), NEW x \in S, ~ Has(ds, x)
    PROVE  Len(ds) < Cardinality(S)
  <1>1. ds \in Seq(S) /\ Len(ds) \in Nat /\ DOMAIN ds = 1 .. Len(ds)
    BY LenProperties DEF OnceOf
  <1>2. \A i \in 1 .. Len(ds) : ds[i] \in S \ {x}
    BY <1>1, ElementOfSeq DEF Has
  <1>3. ds \in [1 .. Len(ds) -> S \ {x}]
    BY <1>1, <1>2, SeqDef
  <1>4. ds \in Injection(1 .. Len(ds), S \ {x})
    BY <1>3 DEF OnceOf, Once, Injection, IsInjective
  <1>5. IsFiniteSet(S \ {x}) /\ Cardinality(S \ {x}) = Cardinality(S) - 1
    BY FS_RemoveElement
  <1>6. Cardinality(1 .. Len(ds)) <= Cardinality(S \ {x})
    BY <1>4, <1>5, FS_Injection
  <1>7. Cardinality(1 .. Len(ds)) = Len(ds)
    BY <1>1, FS_Interval
  <1>8. Cardinality(S) \in Nat
    BY FS_CardinalityType
  <1> QED
    BY <1>1, <1>5, <1>6, <1>7, <1>8

\* A declaration with another field.
LEMMA FieldSet ==
    ASSUME NEW z \in DeclType, NEW u \in SUBSET Component, NEW v \in Nat
    PROVE  /\ [z EXCEPT !.mask = u] = [reg |-> z.reg, mask |-> u, sysval |-> z.sysval, stream |-> z.stream]
           /\ [z EXCEPT !.sysval = v] = [reg |-> z.reg, mask |-> z.mask, sysval |-> v, stream |-> z.stream]
  BY DEF DeclType

\* A declaration that is merged into another, and the same written as one record.
MergedInto(ds, m, mask, sysval) ==
    [ds EXCEPT ![m].mask = @ \union mask, ![m].sysval = IF sysval # 0 /\ @ = 0 THEN sysval ELSE @]

MergedDecl(z, mask, sysval) ==
    [reg |-> z.reg, mask |-> z.mask \union mask,
     sysval |-> IF sysval # 0 /\ z.sysval = 0 THEN sysval ELSE z.sysval, stream |-> z.stream]

Replaced(ds, m, z) == [ds EXCEPT ![m] = z]

LEMMA MergedIs ==
    ASSUME NEW ds \in Seq(DeclType), NEW m \in 1 .. Len(ds), NEW mask \in SUBSET Component, NEW sysval \in Nat
    PROVE  MergedInto(ds, m, mask, sysval) = Replaced(ds, m, MergedDecl(ds[m], mask, sysval))
  <1> DEFINE v == IF sysval # 0 /\ ds[m].sysval = 0 THEN sysval ELSE ds[m].sysval
             a == [reg |-> ds[m].reg, mask |-> ds[m].mask \union mask, sysval |-> ds[m].sysval, stream |-> ds[m].stream]
             b == [reg |-> ds[m].reg, mask |-> ds[m].mask \union mask, sysval |-> v, stream |-> ds[m].stream]
             g == [ds EXCEPT ![m] = a]
  <1>1. Len(ds) \in Nat /\ DOMAIN ds = 1 .. Len(ds) /\ ds[m] \in DeclType
    BY LenProperties, ElementOfSeq
  <1>2. [ds[m] EXCEPT !.mask = @ \union mask] = a
    <2>1. ds[m].mask \in SUBSET Component
      BY <1>1 DEF DeclType
    <2> QED
      BY <1>1, <2>1, FieldSet
  <1>3. g[m] = a
    BY <1>1
  <1>4. [a EXCEPT !.sysval = v] = b
    <2>1. a \in DeclType /\ v \in Nat
      BY <1>1 DEF DeclType
    <2> HIDE DEF v
    <2>2. [a EXCEPT !.sysval = v] = [reg |-> a.reg, mask |-> a.mask, sysval |-> v, stream |-> a.stream]
      BY <2>1, FieldSet
    <2> QED
      BY <2>2
  <1> HIDE DEF a, b, v
  <1>5. [g EXCEPT ![m] = b] = [ds EXCEPT ![m] = b]
    BY <1>1
  <1>6. a.sysval = ds[m].sysval
    BY DEF a
  <1>7. [ds EXCEPT ![m].mask = @ \union mask, ![m].sysval = IF sysval # 0 /\ @ = 0 THEN sysval ELSE @]
          = [g EXCEPT ![m] = [g[m] EXCEPT !.sysval = v]]
    BY <1>2, <1>3, <1>6 DEF v
  <1>8. [g EXCEPT ![m] = [g[m] EXCEPT !.sysval = v]] = [g EXCEPT ![m] = b]
    BY <1>3, <1>4
  <1>9. [ds EXCEPT ![m].mask = @ \union mask, ![m].sysval = IF sysval # 0 /\ @ = 0 THEN sysval ELSE @]
          = [ds EXCEPT ![m] = b]
    BY <1>5, <1>7, <1>8
  <1> QED
    BY <1>9 DEF b, v, MergedInto, MergedDecl, Replaced

\* What is declared is found, what was found stays, and nothing else comes in.
LEMMA AddToFinds ==
    ASSUME shader \in Shader, shader.sound, NEW cls \in Class, NEW ds, OnceOf(ds, Declared(cls)),
           NEW x \in Declared(cls)
    PROVE  /\ OnceOf(AddTo(ds, x), Declared(cls)) /\ Has(AddTo(ds, x), x)
           /\ \A y : Has(ds, y) => Has(AddTo(ds, x), y)
  <1> DEFINE same == {i \in DOMAIN ds : Merges(ds[i], x.reg, x.mask, x.stream)}
  <1>1. /\ ds \in Seq(Declared(cls)) /\ Len(ds) \in Nat
        /\ DOMAIN ds = 1 .. Len(ds) /\ \A i \in 1 .. Len(ds) : ds[i] \in Declared(cls)
    BY LenProperties, ElementOfSeq DEF OnceOf
  <1>2. \A i \in same : ds[i] = x
    BY <1>1, DeclaredApart
  <1>3. \A z \in Declared(cls) :
            /\ z = [reg |-> z.reg, mask |-> z.mask, sysval |-> z.sysval, stream |-> z.stream]
            /\ Merges(z, z.reg, z.mask, z.stream) /\ z \in DeclType
    <2> SUFFICES ASSUME NEW z \in Declared(cls)
                 PROVE  /\ z = [reg |-> z.reg, mask |-> z.mask, sysval |-> z.sysval, stream |-> z.stream]
                        /\ Merges(z, z.reg, z.mask, z.stream) /\ z \in DeclType
      OBVIOUS
    <2>1. z = PrimitiveIdDecl \/ \E d \in shader.declares : z = DeclOf(d)
      BY DEF Declared
    <2>2. z = [reg |-> z.reg, mask |-> z.mask, sysval |-> z.sysval, stream |-> z.stream]
      BY <2>1 DEF DeclOf, PrimitiveIdDecl
    <2>3. z.mask # {}
      BY <2>1, ElementFieldTypes DEF DeclOf, PrimitiveIdDecl
    <2>4. z \in DeclType
      BY <2>1, ElementFieldTypes, ShaderTokensAssumption DEF DeclOf, PrimitiveIdDecl, DeclType, Component
    <2> QED
      BY <2>2, <2>3, <2>4 DEF Merges
  <1>4. CASE same # {}
    <2> DEFINE m == Min(same)
    <2>1. m \in same
      <3>1. same \in SUBSET Nat
        BY <1>1
      <3> HIDE DEF same
      <3> QED
        BY <1>4, <3>1, MinOf
    <2>2. AddTo(ds, x) = [ds EXCEPT ![m].mask = @ \union x.mask,
                                    ![m].sysval = IF x.sysval # 0 /\ @ = 0 THEN x.sysval ELSE @]
      BY <1>4 DEF AddTo, DeclAdd
    <2>3. m \in 1 .. Len(ds) /\ ds[m] = x
      BY <1>1, <1>2, <2>1
    <2> HIDE DEF m, same
    <2>4. MergedDecl(ds[m], x.mask, x.sysval) = x
      BY <1>3, <2>3 DEF MergedDecl
    <2>5. AddTo(ds, x) = [ds EXCEPT ![m] = x]
      <3>1. m \in 1 .. Len(ds) /\ DOMAIN ds = 1 .. Len(ds) /\ Len(ds) \in Nat /\ \A i \in 1 .. Len(ds) : ds[i] \in DeclType
        BY <1>1, <1>3, <2>3
      <3>2. ds \in [1 .. Len(ds) -> DeclType]
        BY <1>1, <3>1, SeqDef
      <3>3. ds \in Seq(DeclType)
        BY <3>1, <3>2, SeqDef
      <3>4. AddTo(ds, x) = MergedInto(ds, m, x.mask, x.sysval)
        BY <2>2 DEF MergedInto
      <3>5. x.mask \in SUBSET Component /\ x.sysval \in Nat
        BY <1>3 DEF DeclType
      <3>6. MergedInto(ds, m, x.mask, x.sysval) = Replaced(ds, m, MergedDecl(ds[m], x.mask, x.sysval))
        <4>1. m \in 1 .. Len(ds)
          BY <3>1
        <4> QED
          BY <3>3, <3>5, <4>1, MergedIs
      <3> QED
        BY <2>4, <3>4, <3>6 DEF Replaced
    <2>6. AddTo(ds, x) = ds
      BY <1>1, <2>3, <2>5
    <2> QED
      BY <2>3, <2>6 DEF Has
  <1>5. CASE same = {}
    <2>1. ~ Has(ds, x)
      BY <1>1, <1>3, <1>5 DEF Has
    <2>2. Len(ds) < Cardinality(Declared(cls)) /\ Cardinality(Declared(cls)) <= MaxSigEntries
      BY <2>1, DeclaredFits, OnceIsShort
    <2>3. Cardinality(Declared(cls)) \in Nat /\ MaxSigEntries \in Nat
      BY DeclaredFits, FS_CardinalityType, ShaderTokensAssumption
    <2>4. Len(ds) < MaxSigEntries
      BY <1>1, <2>2, <2>3
    <2>5. AddTo(ds, x) = Append(ds, x)
      BY <1>3, <1>5, <2>4 DEF AddTo, DeclAdd
    <2> HIDE DEF same
    <2>6. /\ Append(ds, x) \in Seq(Declared(cls)) /\ Len(Append(ds, x)) = Len(ds) + 1
          /\ Append(ds, x)[Len(ds) + 1] = x
          /\ \A i \in 1 .. Len(ds) : Append(ds, x)[i] = ds[i]
      BY <1>1, AppendProperties
    <2>7. \A i \in 1 .. Len(ds) + 1 : i \in 1 .. Len(ds) \/ i = Len(ds) + 1
      BY <1>1
    <2>8. Once(Append(ds, x))
      BY <2>1, <2>6, <2>7 DEF Once, OnceOf, Has
    <2>9. Has(Append(ds, x), x)
      BY <1>1, <2>6 DEF Has
    <2>10. \A y : Has(ds, y) => Has(Append(ds, x), y)
      BY <1>1, <2>6 DEF Has
    <2> QED
      BY <2>5, <2>6, <2>8, <2>9, <2>10 DEF OnceOf
  <1> QED
    BY <1>4, <1>5

-----------------------------------------------------------------------------
\* The lines of a program are where the scan looks for instructions.
LEMMA LineFacts ==
    ASSUME shader \in Shader, shader.sound, NEW k \in DOMAIN shader.lines
    PROVE  LET l == shader.lines[k] IN
           /\ l.at \in Nat \ {0} /\ l.length \in Nat /\ l.says \in Saying
           /\ l.stream \in 0 .. 3 /\ l.patchPhase \in BOOLEAN
           /\ LengthSaid(shader, l) /\ Says(shader, l)
           /\ l.at + l.length = LineAt(shader, k + 1)
  <1>1. ProgramSays(shader)
    BY SoundIsMade
  <1> QED
    BY <1>1 DEF ProgramSays, LinesOf

\* An instruction is as long as its line.
LEMMA LineLength ==
    ASSUME shader \in Shader, shader.sound, NEW k \in DOMAIN shader.lines
    PROVE  LET l == shader.lines[k] IN
           /\ l.at < End /\ l.at + l.length <= End /\ l.length >= 1
           /\ WellFormed(l.at) /\ InstructionLength(l.at) = l.length
  <1> DEFINE l == shader.lines[k]
  <1>1. l.at \in Nat \ {0} /\ l.length \in Nat /\ LengthSaid(shader, l)
    BY LineFacts
  <1>2. DOMAIN Words = 1 .. Len(Words) /\ End \in Nat /\ End = Len(Words) + 1 /\ Words = shader.words
    BY WordTypes DEF Words
  <1> HIDE DEF l
  <1>3. l.length >= 1 /\ l.at + l.length <= End
    BY <1>1, <1>2 DEF LengthSaid
  <1>4. l.at < End
    BY <1>1, <1>2, <1>3
  <1>5. CASE l.length = Words[l.at].len
    <2>1. InstructionLength(l.at) = l.length /\ Words[l.at].len # 0
      BY <1>1, <1>3, <1>5 DEF InstructionLength
    <2>2. l.length <= End - l.at
      BY <1>1, <1>2, <1>3
    <2> QED
      BY <1>3, <1>4, <2>1, <2>2 DEF WellFormed, LengthReadable, l
  <1>6. CASE Words[l.at].len = 0 /\ l.length >= 2 /\ Words[l.at + 1].val = l.length
    <2>1. l.at + 1 \in 1 .. Len(Words) /\ l.at + 1 < End
      BY <1>1, <1>2, <1>3, <1>6
    <2>2. WordValue(l.at + 1) = l.length
      BY <1>2, <1>6, <2>1 DEF WordValue
    <2>3. InstructionLength(l.at) = l.length
      BY <1>6, <2>2 DEF InstructionLength
    <2>4. l.length <= End - l.at
      BY <1>1, <1>2, <1>3
    <2> QED
      BY <1>3, <1>4, <1>6, <2>1, <2>2, <2>3, <2>4 DEF WellFormed, LengthReadable, l
  <1> QED
    BY <1>1, <1>2, <1>5, <1>6 DEF LengthSaid

\* An operand token that is not extended is not chained to another.
LEMMA ChainOfOne ==
    ASSUME NEW p \in Nat, NEW end \in Nat, p < end, ~ Words[p].extended
    PROVE  ChainLength(p, end) = 1
  <1> DEFINE Is(n) == /\ n = end - p + 1 \/ ~ Words[p + n - 1].extended
                      /\ \A k \in 1 .. n - 1 : Words[p + k - 1].extended
  <1>1. 1 \in 1 .. end - p + 1
    OBVIOUS
  <1>2. p + 1 - 1 = p
    OBVIOUS
  <1>3. Is(1)
    BY <1>2
  <1>4. ASSUME NEW n \in 1 .. end - p + 1, Is(n), n # 1 PROVE FALSE
    <2>1. 1 \in 1 .. n - 1
      BY <1>4
    <2> QED
      BY <1>2, <1>4, <2>1
  <1>5. ChainLength(p, end) = CHOOSE n \in 1 .. end - p + 1 : Is(n)
    BY DEF ChainLength
  <1> HIDE DEF Is
  <1> QED
    BY <1>1, <1>3, <1>4, <1>5

\* The decoder finds the register of an operand.
LEMMA OperandDecoded ==
    ASSUME NEW p \in Nat, NEW end \in Nat, ~ Words[p].extended, Words[p].index \in DclIndices,
           p + Len(Words[p].index) < end
    PROVE  /\ Len(Words[p].index) \in {1, 2}
           /\ Decodable(p, end) /\ OperandLength(p, end) = 1 + Len(Words[p].index)
           /\ OperandReg(p, end) = WordValue(p + Len(Words[p].index))
  <1> DEFINE index == Words[p].index
  <1>1. Width("imm32") = 1
    BY DEF Width
  <1>2. CASE index = <<"imm32">>
    <2>1. Len(index) = 1 /\ DOMAIN index = {1} /\ index[1] = "imm32"
      BY <1>2
    <2>2. p + 1 < end
      BY <2>1
    <2>3. ChainLength(p, end) = 1
      BY <2>2, ChainOfOne
    <2>4. IndexAt(p, end, 1) = p + 1
      BY <2>3 DEF IndexAt
    <2>5. IndexInside(p, end, 1)
      BY <1>1, <2>1, <2>2, <2>4 DEF IndexInside
    <2>6. Decodable(p, end)
      BY <2>1, <2>2, <2>5 DEF Decodable
    <2>7. OperandLength(p, end) = 2
      BY <1>1, <2>1, <2>4 DEF OperandLength
    <2>8. OperandReg(p, end) = WordValue(p + 1)
      BY <2>1, <2>4 DEF OperandReg
    <2> QED
      BY <2>1, <2>6, <2>7, <2>8
  <1>3. CASE index = <<"imm32", "imm32">>
    <2>1. Len(index) = 2 /\ DOMAIN index = {1, 2} /\ index[1] = "imm32" /\ index[2] = "imm32"
      BY <1>3
    <2>2. p + 2 < end /\ p + 1 < end
      BY <2>1
    <2>3. ChainLength(p, end) = 1
      BY <2>2, ChainOfOne
    <2>4. IndexAt(p, end, 1) = p + 1 /\ IndexAt(p, end, 2) = p + 2
      BY <1>1, <2>1, <2>3 DEF IndexAt
    <2>5. IndexInside(p, end, 1) /\ IndexInside(p, end, 2)
      BY <1>1, <2>1, <2>2, <2>4 DEF IndexInside
    <2>6. Decodable(p, end)
      BY <2>1, <2>2, <2>5 DEF Decodable
    <2>7. OperandLength(p, end) = 3
      BY <1>1, <2>1, <2>4 DEF OperandLength
    <2>8. OperandReg(p, end) = WordValue(p + 2)
      BY <2>1, <2>4 DEF OperandReg
    <2> QED
      BY <2>1, <2>6, <2>7, <2>8
  <1> QED
    BY <1>2, <1>3 DEF DclIndices

\* And that one without index has none.
LEMMA PlainDecoded ==
    ASSUME NEW p \in Nat, NEW end \in Nat, p < end, ~ Words[p].extended, Words[p].index = << >>
    PROVE  Decodable(p, end)
  BY DEF Decodable

-----------------------------------------------------------------------------
\* What a line does to the lists of the scan, to its system outputs, and to its
\* stream and phase.
ListsGrow(s, r, l) ==
    /\ \A c \in Class : r[c] = s[c] \/ \E x \in Declared(c) : r[c] = AddTo(s[c], x)
    /\ l.says = "element" => r[l.what.cls] = AddTo(s[l.what.cls], DeclOf(l.what))

SysOutsGrow(s, r, l) ==
    r.sysOut = s.sysOut \/ (l.says = "system_output" /\ r.sysOut = Append(s.sysOut, l.what))

ContextMoves(s, r, l) ==
    /\ r.stream = (IF l.says = "stream" THEN l.what ELSE s.stream)
    /\ r.patchPhase = (IF l.says = "phase" THEN l.what # "hs_control_point_phase" ELSE s.patchPhase)

LineDone(s, r, l) == ListsGrow(s, r, l) /\ SysOutsGrow(s, r, l) /\ ContextMoves(s, r, l)

\* What the scan knows when it comes to the k-th line.
InContext(s, k) ==
    k \in DOMAIN shader.lines => s.stream = shader.lines[k].stream /\ s.patchPhase = shader.lines[k].patchPhase

AtLine(k) ==
    /\ shader \in Shader /\ shader.sound /\ k \in DOMAIN shader.lines
    /\ scan \in ScanType /\ InContext(scan, k)

\* The operand of an element is decoded to the element.
LEMMA ElementDecoded ==
    ASSUME NEW k, AtLine(k), SaysElement(shader, shader.lines[k])
    PROVE  LET l == shader.lines[k]
               d == l.what
               p == l.at
               end == l.at + l.length
               nameAt == p + 1 + OperandLength(p + 1, end)
           IN /\ Decodable(p + 1, end) /\ OperandReg(p + 1, end) = d.reg /\ Words[p + 1].mask = d.mask
              /\ (IF Words[p].op \in NamedDcl /\ nameAt < end THEN WordValue(nameAt) % 65536 ELSE 0) = d.sysval
  <1> DEFINE l == shader.lines[k]
             d == l.what
             p == l.at
             end == l.at + l.length
             size == Len(Words[p + 1].index)
             nameAt == p + 1 + OperandLength(p + 1, end)
  <1>1. shader \in Shader /\ shader.sound /\ k \in DOMAIN shader.lines /\ Words = shader.words
    BY DEF AtLine, Words
  <1>2. p \in Nat \ {0} /\ l.length \in Nat /\ end \in Nat /\ end <= End
    BY <1>1, LineFacts, LineLength
  <1>3. DOMAIN Words = 1 .. Len(Words) /\ End \in Nat /\ End = Len(Words) + 1 /\ Len(Words) \in Nat
    BY <1>1, WordTypes
  <1>4. d \in shader.declares /\ d.sysval \in Nat /\ d.sysval < 65536
    BY <1>1, ElementFieldTypes DEF SaysElement
  <1>5. /\ Words[p + 1].mask = d.mask /\ ~ Words[p + 1].extended
        /\ Words[p + 1].index \in DclIndices
        /\ Words[p + 1 + size].val = d.reg
        /\ end = p + 1 + size + (IF d.sysval = 0 THEN 1 ELSE 2)
        /\ d.sysval # 0 => Words[p + 1 + size + 1].val = d.sysval
    BY <1>1 DEF SaysElement, ElementOperand, OperandAt, RegisterAt
  <1>6. Words[p].op \in NamedDcl <=> d.sysval # 0
    BY <1>1 DEF SaysElement, InputElement, OutputElement, OpcodeAt, Operation, NamedDcl
  <1>7. size \in {1, 2}
    <2>1. Len(<<"imm32">>) = 1 /\ Len(<<"imm32", "imm32">>) = 2
      OBVIOUS
    <2> QED
      BY <1>5, <2>1 DEF DclIndices
  <1> HIDE DEF p, end, d, size
  <1>8. p + 1 \in Nat /\ p + 1 + size \in Nat /\ p + 1 + size < end
    BY <1>2, <1>5, <1>7
  <1>9. /\ Decodable(p + 1, end) /\ OperandLength(p + 1, end) = 1 + size
        /\ OperandReg(p + 1, end) = WordValue(p + 1 + size)
    BY <1>2, <1>5, <1>8, OperandDecoded DEF size
  <1>10. p + 1 + size \in 1 .. Len(Words)
    BY <1>2, <1>3, <1>7, <1>8
  <1>11. OperandReg(p + 1, end) = d.reg
    BY <1>3, <1>5, <1>9, <1>10 DEF WordValue
  <1>12. nameAt = p + 1 + size + 1
    BY <1>2, <1>7, <1>9
  <1> HIDE DEF nameAt
  <1>13. (IF Words[p].op \in NamedDcl /\ nameAt < end THEN WordValue(nameAt) % 65536 ELSE 0) = d.sysval
    <2>1. CASE d.sysval = 0
      BY <1>6, <2>1
    <2>2. CASE d.sysval # 0
      <3>1. end = p + 1 + size + 2
        BY <1>5, <2>2
      <3>2. nameAt < end /\ nameAt \in 1 .. Len(Words)
        BY <1>2, <1>3, <1>7, <1>12, <3>1
      <3>3. WordValue(nameAt) = d.sysval
        BY <1>3, <1>5, <1>12, <2>2, <3>2 DEF WordValue
      <3>4. d.sysval % 65536 = d.sysval
        BY <1>4
      <3> QED
        BY <1>6, <2>2, <3>2, <3>3, <3>4
    <2> QED
      BY <2>1, <2>2
  <1> QED
    BY <1>5, <1>9, <1>11, <1>13 DEF p, end, d, nameAt

\* A line that declares an element adds the element.
LEMMA ElementScanned ==
    ASSUME NEW k, AtLine(k), shader.lines[k].says = "element"
    PROVE  LineDone(scan, Scanned(shader.lines[k].at, shader.lines[k].length), shader.lines[k])
  <1> DEFINE l == shader.lines[k]
             d == l.what
             p == l.at
             end == l.at + l.length
             type == Words[p + 1].type
             op == Words[p].op
             r == Scanned(p, l.length)
  <1>1. shader \in Shader /\ shader.sound /\ k \in DOMAIN shader.lines /\ Words = shader.words /\ scan \in ScanType
    BY DEF AtLine, Words
  <1>2. SaysElement(shader, l)
    BY <1>1, LineFacts DEF Says
  <1>3. d \in shader.declares /\ DeclOf(d) \in Declared(d.cls) /\ d.cls \in Class
    BY <1>1, <1>2, ElementFieldTypes DEF SaysElement, Declared
  <1>4. d.cls # "out" => d.stream = 0
    BY <1>1, <1>3, SoundIsMade DEF CompilerMade
  <1>5. d.stream # 0 => shader.stage = "GS"
    BY <1>1, <1>3, SoundIsMade DEF CompilerMade
  <1>6. InputElement(shader, l, d) \/ OutputElement(shader, l, d)
    BY <1>2 DEF SaysElement
  <1>7. scan.stream = l.stream /\ scan.patchPhase = l.patchPhase
    BY <1>1 DEF AtLine, InContext
  <1>8. ASSUME NEW ds PROVE AddTo(ds, DeclOf(d)) = DeclAdd(ds, d.reg, d.mask, d.sysval, d.stream)
    BY DEF AddTo, DeclOf
  <1>9. ASSUME InputElement(shader, l, d)
        PROVE  \/ d.cls = "in" /\ r = [scan EXCEPT !.in = AddTo(scan.in, DeclOf(d))]
               \/ d.cls = "patch" /\ r = [scan EXCEPT !.patch = AddTo(scan.patch, DeclOf(d))]
    <2>1. op \in InputDcl
      BY <1>1, <1>9 DEF InputElement, OpcodeAt, Operation, InputDcl
    <2>2. r = WithInput(scan, type, d.reg, d.mask, d.sysval)
      BY <1>2, <2>1, ElementDecoded DEF Scanned, InputDcl, OutputDcl
    <2>3. CASE d.cls = "in" /\ type \in {"input", "control_point"}
      BY <1>4, <1>8, <2>2, <2>3 DEF WithInput
    <2>4. CASE d.cls = "patch" /\ type = "patch_const"
      BY <1>4, <1>8, <2>2, <2>4 DEF WithInput
    <2> QED
      BY <1>1, <1>9, <2>3, <2>4 DEF InputElement, OperandAt
  <1>10. ASSUME OutputElement(shader, l, d)
         PROVE  \/ d.cls = "out" /\ r = [scan EXCEPT !.out = AddTo(scan.out, DeclOf(d))]
                \/ d.cls = "patch" /\ r = [scan EXCEPT !.patch = AddTo(scan.patch, DeclOf(d))]
    <2>1. op \in OutputDcl /\ type = "output"
      BY <1>1, <1>10 DEF OutputElement, OpcodeAt, OperandAt, Operation, OutputDcl
    <2>2. r = WithOutput(scan, type, d.reg, d.mask, d.sysval)
      BY <1>2, <2>1, ElementDecoded DEF Scanned, InputDcl, OutputDcl
    <2>3. CASE l.patchPhase
      <3>1. d.cls = "patch"
        BY <1>10, <2>3 DEF OutputElement
      <3> QED
        BY <1>4, <1>7, <1>8, <2>1, <2>2, <2>3, <3>1 DEF WithOutput, SysOut
    <2>4. CASE ~ l.patchPhase
      <3>1. d.cls = "out" /\ (shader.stage = "GS" => d.stream = l.stream)
        BY <1>10, <2>4 DEF OutputElement
      <3>2. (IF shader.stage = "GS" THEN scan.stream ELSE 0) = d.stream
        BY <1>5, <1>7, <3>1
      <3> QED
        BY <1>7, <1>8, <2>1, <2>2, <2>4, <3>1, <3>2 DEF WithOutput, SysOut
    <2> QED
      BY <2>3, <2>4
  <1>11. l.says = "element"
    OBVIOUS
  <1> HIDE DEF l, r
  <1>12. \/ d.cls = "in" /\ r = [scan EXCEPT !.in = AddTo(scan.in, DeclOf(d))]
         \/ d.cls = "out" /\ r = [scan EXCEPT !.out = AddTo(scan.out, DeclOf(d))]
         \/ d.cls = "patch" /\ r = [scan EXCEPT !.patch = AddTo(scan.patch, DeclOf(d))]
    BY <1>6, <1>9, <1>10
  <1>13. /\ r[d.cls] = AddTo(scan[d.cls], DeclOf(d)) /\ \A c \in Class \ {d.cls} : r[c] = scan[c]
         /\ r.sysOut = scan.sysOut /\ r.stream = scan.stream /\ r.patchPhase = scan.patchPhase
    <2> HIDE DEF d
    <2> QED
      BY <1>1, <1>12 DEF ScanType, Class
  <1>14. LineDone(scan, r, l)
    BY <1>3, <1>11, <1>13 DEF LineDone, ListsGrow, SysOutsGrow, ContextMoves
  <1> QED
    BY <1>14 DEF r, l

\* The facts about a line that every kind of line needs.
LEMMA LineIsAt ==
    ASSUME NEW k, AtLine(k)
    PROVE  LET l == shader.lines[k] IN
           /\ l.at \in Nat /\ l.at + l.length \in Nat /\ l.at + l.length <= End /\ Says(shader, l)
           /\ OpcodeAt(shader, l) = Words[l.at].op /\ OperandAt(shader, l) = Words[l.at + 1]
           /\ scan \in ScanType /\ DOMAIN Words = 1 .. Len(Words) /\ End = Len(Words) + 1 /\ Len(Words) \in Nat
  <1>1. shader \in Shader /\ shader.sound /\ k \in DOMAIN shader.lines /\ scan \in ScanType
    BY DEF AtLine
  <1>2. OpcodeAt(shader, shader.lines[k]) = Words[shader.lines[k].at].op
        /\ OperandAt(shader, shader.lines[k]) = Words[shader.lines[k].at + 1]
    BY DEF OpcodeAt, OperandAt, Words
  <1>3. DOMAIN Words = 1 .. Len(Words) /\ End = Len(Words) + 1 /\ Len(Words) \in Nat
    BY <1>1, WordTypes
  <1>4. /\ shader.lines[k].at \in Nat /\ shader.lines[k].length \in Nat
        /\ Says(shader, shader.lines[k]) /\ shader.lines[k].at + shader.lines[k].length <= End
    BY <1>1, LineFacts, LineLength
  <1> QED
    BY <1>1, <1>2, <1>3, <1>4

\* A primitive id is an element of a geometry shader, and of no other.
LEMMA PrimitiveIdScanned ==
    ASSUME NEW k, AtLine(k), shader.lines[k].says = "primitive_id"
    PROVE  LineDone(scan, Scanned(shader.lines[k].at, shader.lines[k].length), shader.lines[k])
  <1> DEFINE l == shader.lines[k]
             p == l.at
             end == l.at + l.length
             r == Scanned(p, l.length)
  <1>1. SaysPrimitiveId(shader, l)
    BY LineIsAt DEF Says
  <1>2. /\ Words[p].op = "dcl_input" /\ Words[p + 1].type = "primitive_id" /\ l.length = 2
        /\ Words[p + 1].index = << >> /\ ~ Words[p + 1].extended
    BY <1>1, LineIsAt DEF SaysPrimitiveId, PlainOperand
  <1>3. Decodable(p + 1, end)
    <2>1. p \in Nat /\ end = p + 2
      BY <1>2, LineIsAt
    <2> HIDE DEF p, end
    <2>2. p + 1 \in Nat /\ end \in Nat /\ p + 1 < end
      BY <2>1
    <2> QED
      BY <1>2, <2>2, PlainDecoded
  <1>4. \E reg, mask : r = WithInput(scan, "primitive_id", reg, mask, 0)
    BY <1>2, <1>3 DEF Scanned, InputDcl, OutputDcl, NamedDcl
  <1>5. r = IF shader.stage = "GS" THEN [scan EXCEPT !.in = AddTo(scan.in, PrimitiveIdDecl)] ELSE scan
    BY <1>4 DEF WithInput, AddTo, PrimitiveIdDecl
  <1>6. l.says = "primitive_id"
    OBVIOUS
  <1>7. shader.stage = "GS" => PrimitiveIdDecl \in Declared("in")
    BY DEF Declared
  <1> HIDE DEF r, l
  <1>8. /\ r["in"] = scan["in"] \/ (shader.stage = "GS" /\ r["in"] = AddTo(scan["in"], PrimitiveIdDecl))
        /\ \A c \in Class \ {"in"} : r[c] = scan[c]
        /\ r.sysOut = scan.sysOut /\ r.stream = scan.stream /\ r.patchPhase = scan.patchPhase
    BY <1>5, LineIsAt DEF ScanType, Class
  <1>9. LineDone(scan, r, l)
    BY <1>6, <1>7, <1>8 DEF LineDone, ListsGrow, SysOutsGrow, ContextMoves
  <1> QED
    BY <1>9 DEF r, l

\* A system output is collected by a pixel shader.
LEMMA SysOutScanned ==
    ASSUME NEW k, AtLine(k), shader.lines[k].says = "system_output"
    PROVE  LineDone(scan, Scanned(shader.lines[k].at, shader.lines[k].length), shader.lines[k])
  <1> DEFINE l == shader.lines[k]
             p == l.at
             end == l.at + l.length
             r == Scanned(p, l.length)
  <1>1. SaysSysOut(shader, l)
    BY LineIsAt DEF Says
  <1>2. /\ Words[p].op = "dcl_output" /\ l.what \in SysOut /\ Words[p + 1].type = l.what /\ l.length = 2
        /\ Words[p + 1].index = << >> /\ ~ Words[p + 1].extended
    BY <1>1, LineIsAt DEF SaysSysOut, PlainOperand
  <1>3. Decodable(p + 1, end)
    <2>1. p \in Nat /\ end = p + 2
      BY <1>2, LineIsAt
    <2> HIDE DEF p, end
    <2>2. p + 1 \in Nat /\ end \in Nat /\ p + 1 < end
      BY <2>1
    <2> QED
      BY <1>2, <2>2, PlainDecoded
  <1>4. \E reg, mask : r = WithOutput(scan, l.what, reg, mask, 0)
    BY <1>2, <1>3 DEF Scanned, InputDcl, OutputDcl, NamedDcl
  <1>5. r = scan \/ r = [scan EXCEPT !.sysOut = Append(scan.sysOut, l.what)]
    <2>1. l.what # "output"
      BY <1>2 DEF SysOut
    <2> QED
      BY <1>4, <2>1 DEF WithOutput
  <1>6. l.says = "system_output"
    OBVIOUS
  <1> HIDE DEF r, l
  <1>7. /\ \A c \in Class : r[c] = scan[c]
        /\ r.sysOut = scan.sysOut \/ r.sysOut = Append(scan.sysOut, l.what)
        /\ r.stream = scan.stream /\ r.patchPhase = scan.patchPhase
    BY <1>5, LineIsAt DEF ScanType, Class
  <1>8. LineDone(scan, r, l)
    BY <1>6, <1>7 DEF LineDone, ListsGrow, SysOutsGrow, ContextMoves
  <1> QED
    BY <1>8 DEF r, l

\* A stream is begun.
LEMMA StreamScanned ==
    ASSUME NEW k, AtLine(k), shader.lines[k].says = "stream"
    PROVE  LineDone(scan, Scanned(shader.lines[k].at, shader.lines[k].length), shader.lines[k])
  <1> DEFINE l == shader.lines[k]
             p == l.at
             end == l.at + l.length
             r == Scanned(p, l.length)
  <1>1. SaysStream(shader, l)
    BY LineIsAt DEF Says
  <1>2. /\ Words[p].op = "dcl_stream" /\ Words[p + 1].type = "stream" /\ l.length = 3
        /\ Words[p + 1].index = <<"imm32">> /\ ~ Words[p + 1].extended
        /\ l.what \in 0 .. 3 /\ Words[p + 2].val = l.what
    BY <1>1, LineIsAt DEF SaysStream, Words
  <1>3. Words[p + 1].index \in DclIndices /\ Len(Words[p + 1].index) = 1
    BY <1>2 DEF DclIndices
  <1>4. p + 2 < end /\ p + 2 \in 1 .. Len(Words)
    <2>1. p \in Nat /\ end = p + 3 /\ end <= Len(Words) + 1 /\ Len(Words) \in Nat
      BY <1>2, LineIsAt
    <2> HIDE DEF p, end
    <2> QED
      BY <2>1
  <1>5. p + 1 \in Nat /\ end \in Nat /\ p + 1 + Len(Words[p + 1].index) < end /\ p + 1 + Len(Words[p + 1].index) = p + 2
    BY <1>3, <1>4, LineIsAt
  <1>6. Decodable(p + 1, end) /\ OperandReg(p + 1, end) = WordValue(p + 2)
    BY <1>2, <1>3, <1>5, OperandDecoded
  <1>7. WordValue(p + 2) = l.what
    BY <1>2, <1>4, LineIsAt DEF WordValue
  <1>8. r = WithStream(scan, "stream", l.what)
    BY <1>2, <1>6, <1>7 DEF Scanned, InputDcl, OutputDcl
  <1>9. r = [scan EXCEPT !.stream = l.what, !.cStream = Highest({@, l.what + 1})]
    <2> DEFINE w == l.what
    <2>1. r = WithStream(scan, "stream", w) /\ w < 4
      BY <1>2, <1>8
    <2> HIDE DEF w, r
    <2>2. r = [scan EXCEPT !.stream = w, !.cStream = Highest({@, w + 1})]
      BY <2>1 DEF WithStream
    <2> QED
      BY <2>2 DEF w
  <1>10. l.says = "stream"
    OBVIOUS
  <1> HIDE DEF r, l
  <1>11. /\ \A c \in Class : r[c] = scan[c]
         /\ r.sysOut = scan.sysOut /\ r.stream = l.what /\ r.patchPhase = scan.patchPhase
    BY <1>9, LineIsAt DEF ScanType, Class
  <1>12. LineDone(scan, r, l)
    BY <1>10, <1>11 DEF LineDone, ListsGrow, SysOutsGrow, ContextMoves
  <1> QED
    BY <1>12 DEF r, l

\* A phase is begun, or nothing is declared.
LEMMA OtherScanned ==
    ASSUME NEW k, AtLine(k), shader.lines[k].says \in {"phase", "other"}
    PROVE  LineDone(scan, Scanned(shader.lines[k].at, shader.lines[k].length), shader.lines[k])
  <1> DEFINE l == shader.lines[k]
             p == l.at
             r == Scanned(p, l.length)
  <1>1. l.says \in {"phase", "other"}
    OBVIOUS
  <1>2. CASE l.says = "phase"
    <2>1. Words[p].op \in HsPhase /\ l.what = Words[p].op
      BY <1>2, LineIsAt DEF Says, SaysPhase
    <2>2. r = [scan EXCEPT !.patchPhase = (l.what # "hs_control_point_phase")]
      <3>1. CASE l.what = "hs_control_point_phase"
        <4>1. r = [scan EXCEPT !.patchPhase = FALSE]
          BY <2>1, <3>1 DEF Scanned, InputDcl, OutputDcl
        <4>2. (l.what # "hs_control_point_phase") = FALSE
          BY <3>1
        <4> QED
          BY <4>1, <4>2
      <3>2. CASE l.what \in {"hs_fork_phase", "hs_join_phase"}
        <4>1. r = [scan EXCEPT !.patchPhase = TRUE]
          BY <2>1, <3>2 DEF Scanned, InputDcl, OutputDcl
        <4>2. (l.what # "hs_control_point_phase") = TRUE
          BY <3>2
        <4> QED
          BY <4>1, <4>2
      <3> QED
        BY <2>1, <3>1, <3>2 DEF HsPhase
    <2> HIDE DEF r, l
    <2>3. /\ \A c \in Class : r[c] = scan[c]
          /\ r.sysOut = scan.sysOut /\ r.stream = scan.stream
          /\ r.patchPhase = (l.what # "hs_control_point_phase")
      BY <2>2, LineIsAt DEF ScanType, Class
    <2>4. LineDone(scan, r, l)
      BY <1>2, <2>3 DEF LineDone, ListsGrow, SysOutsGrow, ContextMoves
    <2> QED
      BY <2>4 DEF r, l
  <1>3. CASE l.says = "other"
    <2>1. Words[p].op = "other"
      BY <1>3, LineIsAt DEF Says
    <2>2. r = scan
      BY <2>1 DEF Scanned, InputDcl, OutputDcl
    <2> HIDE DEF r, l
    <2>3. LineDone(scan, r, l)
      BY <1>3, <2>2 DEF LineDone, ListsGrow, SysOutsGrow, ContextMoves
    <2> QED
      BY <2>3 DEF r, l
  <1> QED
    BY <1>1, <1>2, <1>3

\* A line of any kind does to the scan what it says.
LEMMA LineScanned ==
    ASSUME NEW k, AtLine(k)
    PROVE  LineDone(scan, Scanned(shader.lines[k].at, shader.lines[k].length), shader.lines[k])
  <1>1. shader.lines[k].says \in Saying
    BY LineFacts DEF AtLine
  <1> QED
    BY <1>1, ElementScanned, PrimitiveIdScanned, SysOutScanned, StreamScanned, OtherScanned DEF Saying

-----------------------------------------------------------------------------
\* What is found when the scan comes to the k-th line: every element of a line
\* before, once, and nothing else; the system outputs of those lines, once.
ClassesFound(s, k) ==
    /\ \A c \in Class : OnceOf(s[c], Declared(c))
    /\ \A j \in 1 .. k - 1 :
          shader.lines[j].says = "element" => Has(s[shader.lines[j].what.cls], DeclOf(shader.lines[j].what))

SysOutsFound(s, k) ==
    /\ Once(s.sysOut)
    /\ \A i \in 1 .. Len(s.sysOut) : \E j \in 1 .. k - 1 :
          shader.lines[j].says = "system_output" /\ shader.lines[j].what = s.sysOut[i]

FoundUpTo(s, k) == ClassesFound(s, k) /\ SysOutsFound(s, k) /\ InContext(s, k)

\* The lists of the classes, after one more line.
LEMMA ListsKept ==
    ASSUME shader \in Shader, shader.sound, NEW k \in DOMAIN shader.lines, NEW s, NEW r,
           ClassesFound(s, k), ListsGrow(s, r, shader.lines[k])
    PROVE  ClassesFound(r, k + 1)
  <1>1. DOMAIN shader.lines = 1 .. Len(shader.lines) /\ Len(shader.lines) \in Nat
    BY SoundIsMade DEF ProgramSays, LinesOf
  <1>2. ASSUME NEW c \in Class
        PROVE  OnceOf(r[c], Declared(c)) /\ \A y : Has(s[c], y) => Has(r[c], y)
    <2>1. OnceOf(s[c], Declared(c))
      BY DEF ClassesFound
    <2>2. CASE r[c] = s[c]
      BY <2>1, <2>2
    <2>3. CASE \E x \in Declared(c) : r[c] = AddTo(s[c], x)
      BY <2>1, <2>3, AddToFinds
    <2> QED
      BY <2>2, <2>3 DEF ListsGrow
  <1>3. ASSUME NEW j \in 1 .. k, shader.lines[j].says = "element"
        PROVE  Has(r[shader.lines[j].what.cls], DeclOf(shader.lines[j].what))
    <2> DEFINE d == shader.lines[j].what
    <2>1. j \in DOMAIN shader.lines
      BY <1>1
    <2>2. d \in shader.declares /\ d.cls \in Class /\ DeclOf(d) \in Declared(d.cls)
      <3>1. Says(shader, shader.lines[j])
        BY <2>1, LineFacts
      <3>2. d \in shader.declares
        BY <1>3, <3>1 DEF Says, SaysElement
      <3>3. d.cls \in Class
        BY <3>2, ElementFieldTypes
      <3>4. DeclOf(d) \in {DeclOf(e) : e \in {e \in shader.declares : e.cls = d.cls}}
        BY <3>2
      <3> QED
        BY <3>2, <3>3, <3>4 DEF Declared
    <2>3. CASE j = k
      <3>1. r[d.cls] = AddTo(s[d.cls], DeclOf(d))
        BY <1>3, <2>3 DEF ListsGrow
      <3>2. OnceOf(s[d.cls], Declared(d.cls))
        BY <2>2 DEF ClassesFound
      <3> HIDE DEF d
      <3>3. Has(AddTo(s[d.cls], DeclOf(d)), DeclOf(d))
        BY <2>2, <3>2, AddToFinds
      <3>4. Has(r[d.cls], DeclOf(d))
        BY <3>1, <3>3
      <3> QED
        BY <3>4 DEF d
    <2>4. CASE j # k
      <3>1. j \in 1 .. k - 1
        BY <1>1, <2>4
      <3>2. Has(s[d.cls], DeclOf(d))
        BY <1>3, <3>1 DEF ClassesFound
      <3> QED
        BY <1>2, <2>2, <3>2
    <2> QED
      BY <2>3, <2>4
  <1> DEFINE m == k + 1
  <1>4. m - 1 = k
    BY <1>1
  <1>5. \A c \in Class : OnceOf(r[c], Declared(c))
    BY <1>2
  <1> HIDE DEF m
  <1>6. \A j \in 1 .. m - 1 :
           shader.lines[j].says = "element" => Has(r[shader.lines[j].what.cls], DeclOf(shader.lines[j].what))
    BY <1>3, <1>4
  <1>7. ClassesFound(r, m)
    BY <1>5, <1>6 DEF ClassesFound
  <1> QED
    BY <1>7 DEF m

\* And the system outputs.
LEMMA SysOutsFoundOnce ==
    ASSUME shader \in Shader, shader.sound, NEW k \in DOMAIN shader.lines, NEW s \in ScanType, NEW r,
           SysOutsFound(s, k), SysOutsGrow(s, r, shader.lines[k])
    PROVE  SysOutsFound(r, k + 1)
  <1>1. DOMAIN shader.lines = 1 .. Len(shader.lines) /\ Len(shader.lines) \in Nat
    BY SoundIsMade DEF ProgramSays, LinesOf
  <1>2. k + 1 - 1 = k /\ k \in 1 .. k /\ \A j \in 1 .. k - 1 : j \in 1 .. k /\ j # k /\ j \in DOMAIN shader.lines
    BY <1>1
  <1>3. CASE r.sysOut = s.sysOut
    BY <1>2, <1>3 DEF SysOutsFound
  <1>4. CASE /\ shader.lines[k].says = "system_output"
             /\ r.sysOut = Append(s.sysOut, shader.lines[k].what)
    <2> DEFINE os == s.sysOut
               w == shader.lines[k].what
    <2>1. os \in Seq(SysOut) /\ Len(os) \in Nat
      BY LenProperties DEF ScanType
    <2>2. w \in SysOut
      BY <1>4, LineFacts DEF Says, SaysSysOut
    <2>3. \A j \in 1 .. k - 1 : shader.lines[j].says = "system_output" => shader.lines[j].what # w
      BY <1>2, <1>4, SoundIsMade DEF ProgramSays
    <2>4. \A i \in 1 .. Len(os) : os[i] # w
      BY <2>3 DEF SysOutsFound
    <2> HIDE DEF os
    <2>5. /\ Len(Append(os, w)) = Len(os) + 1 /\ Append(os, w)[Len(os) + 1] = w
          /\ \A i \in 1 .. Len(os) : Append(os, w)[i] = os[i]
      BY <2>1, <2>2, AppendProperties
    <2>6. \A i \in 1 .. Len(os) + 1 : i \in 1 .. Len(os) \/ i = Len(os) + 1
      BY <2>1
    <2>7. Once(os) /\ \A i \in 1 .. Len(os) : \E j \in 1 .. k - 1 :
              shader.lines[j].says = "system_output" /\ shader.lines[j].what = os[i]
      BY DEF SysOutsFound, os
    <2>8. Once(Append(os, w))
      BY <2>4, <2>5, <2>6, <2>7 DEF Once
    <2>9. \A i \in 1 .. Len(Append(os, w)) : \E j \in 1 .. k :
              shader.lines[j].says = "system_output" /\ shader.lines[j].what = Append(os, w)[i]
      BY <1>2, <1>4, <2>5, <2>6, <2>7
    <2> QED
      BY <1>2, <1>4, <2>8, <2>9 DEF SysOutsFound, os
  <1> QED
    BY <1>3, <1>4 DEF SysOutsGrow

\* A line is scanned.
LEMMA FoundFurther ==
    ASSUME NEW k, AtLine(k), FoundUpTo(scan, k)
    PROVE  FoundUpTo(Scanned(shader.lines[k].at, shader.lines[k].length), k + 1)
  <1> DEFINE l == shader.lines[k]
             r == Scanned(l.at, l.length)
  <1>1. shader \in Shader /\ shader.sound /\ k \in DOMAIN shader.lines /\ scan \in ScanType
    BY DEF AtLine
  <1>2. ListsGrow(scan, r, l) /\ SysOutsGrow(scan, r, l) /\ ContextMoves(scan, r, l)
    BY LineScanned DEF LineDone
  <1> HIDE DEF r
  <1>3. ClassesFound(r, k + 1)
    BY <1>1, <1>2, ListsKept DEF FoundUpTo
  <1>4. SysOutsFound(r, k + 1)
    BY <1>1, <1>2, SysOutsFoundOnce DEF FoundUpTo
  <1>5. InContext(r, k + 1)
    <2>1. scan.stream = l.stream /\ scan.patchPhase = l.patchPhase
      BY <1>1 DEF FoundUpTo, InContext
    <2>2. k + 1 \in DOMAIN shader.lines => Follows(shader.lines[k + 1], l)
      BY <1>1, SoundIsMade DEF ProgramSays
    <2> QED
      BY <1>2, <2>1, <2>2 DEF InContext, ContextMoves, Follows, StreamAfter, PatchPhaseAfter
  <1> QED
    BY <1>3, <1>4, <1>5 DEF FoundUpTo, r

\* The scan is at a line, and has found what is on the lines before.
DecodedInv ==
    shader.sound /\ phase # "idle" =>
        IF scanning
        THEN \E k \in 1 .. Len(shader.lines) + 1 : at = LineAt(shader, k) /\ FoundUpTo(scan, k)
        ELSE FoundUpTo(scan, Len(shader.lines) + 1)

\* The scan begins at the first line, with nothing found.
LEMMA NothingFound ==
    shader \in Shader /\ shader.sound =>
        LineAt(shader, 1) = 1 /\ FoundUpTo(NewScan, 1) /\ 1 \in 1 .. Len(shader.lines) + 1
  <1> SUFFICES ASSUME shader \in Shader, shader.sound
               PROVE  LineAt(shader, 1) = 1 /\ FoundUpTo(NewScan, 1) /\ 1 \in 1 .. Len(shader.lines) + 1
    OBVIOUS
  <1>1. /\ NewScan.sysOut = << >> /\ NewScan.stream = 0 /\ NewScan.patchPhase = FALSE
        /\ \A c \in Class : NewScan[c] = << >>
    BY DEF NewScan, Class
  <1>2. Len(<< >>) = 0 /\ \A S : << >> \in Seq(S)
    OBVIOUS
  <1>3. ClassesFound(NewScan, 1)
    <2>1. \A S : OnceOf(<< >>, S)
      BY <1>2 DEF OnceOf, Once
    <2>2. \A j \in 1 .. 1 - 1 : FALSE
      OBVIOUS
    <2>3. \A c \in Class : OnceOf(NewScan[c], Declared(c))
      BY <1>1, <2>1
    <2> QED
      BY <2>2, <2>3 DEF ClassesFound
  <1>4. SysOutsFound(NewScan, 1)
    BY <1>1, <1>2 DEF SysOutsFound, Once
  <1>5. InContext(NewScan, 1) /\ LineAt(shader, 1) = 1 /\ Len(shader.lines) \in Nat
    BY <1>1, SoundIsMade DEF InContext, ProgramSays, LinesOf
  <1> QED
    BY <1>3, <1>4, <1>5 DEF FoundUpTo

LEMMA DecodedInvInit == Init => DecodedInv
  BY DEF Init, DecodedInv

\* What is found is a matter of the shader and the scan.
LEMMA DecodedInvSame ==
    DecodedInv /\ UNCHANGED <<shader, at, scan, scanning>> /\ (phase = "idle" => phase' = "idle") => DecodedInv'
  <1> SUFFICES ASSUME DecodedInv, UNCHANGED <<shader, at, scan, scanning>>, phase = "idle" => phase' = "idle"
               PROVE  DecodedInv'
    OBVIOUS
  <1>1. \A k : FoundUpTo(scan, k)' <=> FoundUpTo(scan, k)
    BY DEF FoundUpTo, ClassesFound, SysOutsFound, InContext, Declared
  <1> QED
    BY <1>1 DEF DecodedInv

\* A shader is created.
LEMMA DecodedInvCreate == ScanInv' /\ CreateShader => DecodedInv'
  <1> SUFFICES ASSUME ScanInv', CreateShader, shader'.sound
               PROVE  \E k \in 1 .. Len(shader'.lines) + 1 : at' = LineAt(shader', k) /\ FoundUpTo(scan, k)'
    BY DEF DecodedInv, CreateShader, ScanBegins
  <1>1. (shader \in Shader /\ shader.sound)'
    BY DEF ScanInv
  <1>2. (LineAt(shader, 1) = 1 /\ FoundUpTo(NewScan, 1) /\ 1 \in 1 .. Len(shader.lines) + 1)'
    BY <1>1, NothingFound, PTL
  <1>3. at' = 1 /\ scan' = NewScan
    BY DEF CreateShader, ScanBegins
  <1>4. NewScan' = NewScan
    BY DEF NewScan
  <1>5. FoundUpTo(scan, 1)'
    BY <1>2, <1>3, <1>4 DEF FoundUpTo, ClassesFound, SysOutsFound, InContext, Declared
  <1> QED
    BY <1>2, <1>3, <1>5

\* The scan is at a line, or at the end.
LEMMA DecodedInvScan == ScanInv /\ SigTypes /\ DecodedInv /\ Scan => DecodedInv'
  <1> SUFFICES ASSUME ScanInv, SigTypes, DecodedInv, Scan, shader.sound
               PROVE  DecodedInv'
    BY DEF DecodedInv, Scan, ScanNext, ScanEnds
  <1>1. shader' = shader /\ phase = "scan" /\ phase' = "scan" /\ scanning
    BY DEF Scan, ScanNext, ScanEnds
  <1>2. PICK k \in 1 .. Len(shader.lines) + 1 : at = LineAt(shader, k) /\ FoundUpTo(scan, k)
    BY <1>1 DEF DecodedInv
  <1>3. shader \in Shader /\ scan \in ScanType
    BY DEF ScanInv, SigTypes
  <1>4. DOMAIN shader.lines = 1 .. Len(shader.lines) /\ Len(shader.lines) \in Nat
    BY <1>3, SoundIsMade DEF ProgramSays, LinesOf
  <1>5. End = Len(shader.words) + 1
    BY DEF End, Words
  <1>6. \A t, j : t = scan' => (FoundUpTo(scan, j)' <=> FoundUpTo(t, j))
    BY <1>1 DEF FoundUpTo, ClassesFound, SysOutsFound, InContext, Declared
  <1>7. CASE k \in DOMAIN shader.lines
    <2> DEFINE l == shader.lines[k]
    <2>1. at = l.at
      BY <1>2, <1>7 DEF LineAt
    <2>2. at < End /\ WellFormed(at) /\ InstructionLength(at) = l.length
      BY <1>3, <1>7, <2>1, LineLength
    <2>3. at' = l.at + l.length /\ scan' = Scanned(l.at, l.length) /\ scanning'
      BY <2>1, <2>2 DEF Scan, ScanNext, ScanEnds
    <2>4. at' = LineAt(shader, k + 1)
      BY <1>3, <1>7, <2>3, LineFacts
    <2>5. FoundUpTo(Scanned(l.at, l.length), k + 1)
      <3>1. AtLine(k)
        BY <1>2, <1>3, <1>7 DEF AtLine, FoundUpTo
      <3> QED
        BY <1>2, <3>1, FoundFurther
    <2>6. FoundUpTo(scan, k + 1)'
      BY <1>6, <2>3, <2>5
    <2>7. k + 1 \in 1 .. Len(shader.lines) + 1
      BY <1>4, <1>7
    <2> QED
      BY <1>1, <2>3, <2>4, <2>6, <2>7 DEF DecodedInv
  <1>8. CASE k \notin DOMAIN shader.lines
    <2>1. k = Len(shader.lines) + 1
      BY <1>4, <1>8
    <2>2. at = End
      BY <1>2, <1>5, <1>8 DEF LineAt
    <2>3. End \in Nat
      BY <1>3, WordTypes
    <2>4. scan' = scan /\ ~ scanning'
      BY <2>2, <2>3 DEF Scan, ScanNext, ScanEnds
    <2>5. FoundUpTo(scan, k)'
      BY <1>2, <1>6, <2>4
    <2>6. FoundUpTo(scan, Len(shader.lines) + 1)'
      BY <1>1, <2>1, <2>5 DEF FoundUpTo, ClassesFound, SysOutsFound, InContext, Declared
    <2> QED
      BY <1>1, <2>4, <2>6 DEF DecodedInv
  <1> QED
    BY <1>7, <1>8

\* Every step keeps the scan at a line.
LEMMA DecodedInvKept == ScanInv /\ ScanInv' /\ SigTypes /\ DecodedInv /\ [Next]_vars => DecodedInv'
  <1> SUFFICES ASSUME ScanInv, ScanInv', SigTypes, DecodedInv, [Next]_vars PROVE DecodedInv'
    OBVIOUS
  <1>1. \/ UNCHANGED <<shader, at, scan, scanning>> /\ (phase = "idle" => phase' = "idle")
        \/ CreateShader \/ Scan
    BY DEF Next, CreateShaderRejected, Complete, Collect,
           AssignSemantics, BuildDxbc, BuildDxbcFails, DeclareStreamOutput, CreateNative, CreateNativeFails,
           ResolveElements, vars, sigVars, tokenVars
  <1> QED
    BY <1>1, DecodedInvSame, DecodedInvCreate, DecodedInvScan

\* The scan of all lines finds what the shader declares, and nothing else.
LEMMA DecodedIsExact == ScanInv /\ SigTypes /\ DecodedInv => ScanExact
  <1> SUFFICES ASSUME ScanInv, SigTypes, DecodedInv, shader.sound, phase # "idle", ~ scanning
               PROVE  ScanFinds
    BY DEF ScanExact
  <1> DEFINE n == Len(shader.lines)
  <1>1. shader \in Shader
    BY DEF ScanInv
  <1>2. FoundUpTo(scan, n + 1)
    BY DEF DecodedInv
  <1>3. DOMAIN shader.lines = 1 .. n /\ n \in Nat /\ n + 1 - 1 = n
    BY <1>1, SoundIsMade DEF ProgramSays, LinesOf
  <1>4. /\ \A c \in Class : OnceOf(scan[c], Declared(c))
        /\ \A j \in 1 .. n :
              shader.lines[j].says = "element" => Has(scan[shader.lines[j].what.cls], DeclOf(shader.lines[j].what))
    <2> HIDE DEF n
    <2> QED
      BY <1>2, <1>3 DEF FoundUpTo, ClassesFound
  <1>5. \A c \in Class : /\ DOMAIN scan[c] = 1 .. Len(scan[c])
                         /\ \A i \in DOMAIN scan[c] : scan[c][i] \in Declared(c)
    <2> SUFFICES ASSUME NEW c \in Class
                 PROVE  /\ DOMAIN scan[c] = 1 .. Len(scan[c])
                        /\ \A i \in DOMAIN scan[c] : scan[c][i] \in Declared(c)
      OBVIOUS
    <2>1. scan[c] \in Seq(Declared(c))
      BY <1>4 DEF OnceOf
    <2> QED
      BY <2>1, LenProperties, ElementOfSeq
  <1>6. \A d \in shader.declares : ScannedAs(DeclOf(d), d)
    BY DEF ScannedAs, SamePlace, DeclOf
  <1>7. ASSUME NEW d \in shader.declares
        PROVE  \E i \in DOMAIN scan[d.cls] : ScannedAs(scan[d.cls][i], d)
    <2>1. PICK k \in DOMAIN shader.lines : SaidElement(shader.lines[k], d)
      BY <1>1, SoundIsMade DEF ProgramSays
    <2>2. Has(scan[d.cls], DeclOf(d)) /\ d.cls \in Class
      BY <1>1, <1>3, <1>4, <2>1, ElementFieldTypes DEF SaidElement
    <2> QED
      BY <1>5, <1>6, <2>2 DEF Has
  <1>8. ASSUME NEW c \in Class, NEW i \in DOMAIN scan[c]
        PROVE  \/ c = "in" /\ scan[c][i].reg = NoReg
               \/ \E d \in shader.declares : d.cls = c /\ ScannedAs(scan[c][i], d)
    <2>1. scan[c][i] \in Declared(c)
      BY <1>5
    <2>2. CASE \E d \in shader.declares : d.cls = c /\ scan[c][i] = DeclOf(d)
      BY <1>6, <2>2
    <2>3. CASE c = "in" /\ scan[c][i] = PrimitiveIdDecl
      BY <2>3 DEF PrimitiveIdDecl
    <2> QED
      BY <2>1, <2>2, <2>3 DEF Declared
  <1>9. \A i, j \in DOMAIN scan.sysOut : scan.sysOut[i] = scan.sysOut[j] => i = j
    <2>1. Once(scan.sysOut)
      BY <1>2 DEF FoundUpTo, SysOutsFound
    <2>2. DOMAIN scan.sysOut = 1 .. Len(scan.sysOut)
      BY LenProperties DEF SigTypes, ScanType
    <2> QED
      BY <2>1, <2>2 DEF Once
  <1> QED
    BY <1>7, <1>8, <1>9 DEF ScanFinds

\* Whatever the program of a shader and the order of its declarations, the scan
\* finds each element of its source once, with its register, components, system
\* value and stream, nothing else but the primitive id, and no system output
\* twice: the iterator comes to every instruction, the decoder to the register
\* and the name of every operand, and neither an array that is full nor a merge
\* loses or makes an element (tritonDxbc.c:419-433, 549-725).
THEOREM DeclarationsFound == Spec => []ScanExact
  <1>1. ScanInv /\ ScanInv' /\ SigTypes /\ DecodedInv /\ [Next]_vars => DecodedInv'
    BY DecodedInvKept
  <1>2. ScanInv /\ SigTypes /\ DecodedInv => ScanExact
    BY DecodedIsExact
  <1> QED
    BY <1>1, <1>2, DecodedInvInit, ScanInvariant, SignatureTypes, PTL DEF Spec

-----------------------------------------------------------------------------
\* A sound shader whose declarations have all been found by the scan.
WellScanned == shader \in Shader /\ shader.sound /\ scan \in ScanType /\ ScanFinds /\ StreamsCounted(scan)

\* What is read of an entry of the runtime's.
LEMMA DdiIs ==
    ASSUME shader \in Shader, NEW cls \in Class, NEW k \in 1 .. Len(Ddi(cls))
    PROVE  k \in DOMAIN shader.ddi[cls] /\ Ddi(cls)[k] = Read(shader.ddi[cls][k])
  <1> DEFINE ddi == shader.ddi[cls]
             n == Min({Len(ddi), MaxSigEntries})
             s == Truncated(ddi)
  <1>1. ddi \in Seq(DdiEntry) /\ MaxSigEntries \in Nat
    BY ShaderTokensAssumption DEF Class
  <1>2. /\ Len(ddi) \in Nat /\ DOMAIN ddi = 1 .. Len(ddi)
        /\ \A i \in 1 .. Len(ddi) : ddi[i] \in DdiEntry
    <2> HIDE DEF ddi
    <2> QED
      BY <1>1, LenProperties, ElementOfSeq
  <1>3. n \in Nat /\ n <= Len(ddi)
    <2> HIDE DEF ddi
    <2> QED
      BY <1>1, <1>2, MinOfTwo
  <1>4. s = SubSeq(ddi, 1, n)
    BY DEF Truncated
  <1>5. Ddi(cls) = [i \in DOMAIN s |-> Read(s[i])]
    BY DEF Ddi
  <1> HIDE DEF n, ddi, s
  <1>6. /\ s \in Seq(DdiEntry) /\ Len(s) = n
        /\ \A i \in 1 .. n : s[i] = ddi[i]
    <2>1. \A i \in 1 .. n : ddi[i] \in DdiEntry
      BY <1>2, <1>3
    <2>2. /\ s \in Seq(DdiEntry) /\ Len(s) = IF 1 <= n THEN n - 1 + 1 ELSE 0
          /\ \A i \in 1 .. n - 1 + 1 : s[i] = ddi[1 + i - 1]
      BY <1>3, <1>4, <2>1, SubSeqProperties
    <2>3. n - 1 + 1 = n /\ \A i \in 1 .. n : 1 + i - 1 = i
      BY <1>3
    <2>4. \A i \in 1 .. n : s[i] = ddi[i]
      BY <2>2, <2>3
    <2> QED
      BY <1>3, <2>2, <2>4
  <1>7. DOMAIN s = 1 .. n
    BY <1>6, LenProperties
  <1>8. k \in 1 .. n
    BY <1>5, <1>7, DdiType
  <1> QED
    BY <1>2, <1>3, <1>5, <1>6, <1>7, <1>8 DEF ddi

\* What is known of a sound shader.
LEMMA SoundShader ==
    ASSUME WellScanned
    PROVE  /\ CompilerMade(shader) /\ \A d \in shader.declares : d \in DeclaredElement
           /\ \A d \in shader.declares : d.cls \in Classes /\ d.cls \in Class
  <1>1. CompilerMade(shader)
    BY ShaderContainerAssumption DEF WellScanned
  <1> QED
    BY <1>1 DEF CompilerMade, DeclaredElement, Classes, Class

\* A signature with one stream has all its elements in it.
LEMMA OneStream ==
    ASSUME WellScanned, NEW cls \in Class, ~ (Streams(cls) > 1)
    PROVE  SingleStream(shader, cls)
  <1>1. ASSUME NEW d \in shader.declares, d.cls = cls PROVE d.stream = 0
    <2>1. d \in DeclaredElement /\ d.stream \in Nat
      BY SoundShader DEF DeclaredElement
    <2>2. CASE cls = "out" /\ shader.stage = "GS"
      <3>1. PICK i \in DOMAIN scan.out : ScannedAs(scan.out[i], d)
        BY <1>1, <2>2 DEF WellScanned, ScanFinds
      <3>2. i \in 1 .. Len(scan.out)
        <4>1. Decls("out") = scan.out /\ "out" \in Class /\ scan \in ScanType
          BY DEF Decls, Class, WellScanned
        <4> QED
          BY <3>1, <4>1, DeclsType
      <3>3. d.stream < scan.cStream
        BY <3>1, <3>2 DEF WellScanned, StreamsCounted, ScannedAs, SamePlace
      <3>4. Streams(cls) = scan.cStream /\ scan.cStream \in 1 .. 4
        BY <2>2 DEF Streams, WellScanned, ScanType
      <3> QED
        BY <2>1, <3>3, <3>4
    <2>3. CASE ~ (cls = "out" /\ shader.stage = "GS")
      BY <1>1, <2>3, SoundShader DEF CompilerMade
    <2> QED
      BY <2>2, <2>3
  <1> QED
    BY <1>1 DEF SingleStream

\* So its report is distinct.
LEMMA ReportIsDistinct ==
    ASSUME WellScanned, NEW cls \in Class
    PROVE  DistinctReport(cls)
  <1> SUFFICES ASSUME ~ (Streams(cls) > 1), NEW i \in 1 .. Len(Ddi(cls)), NEW j \in 1 .. Len(Ddi(cls)),
                      i # j, Ddi(cls)[i].reg # NoReg
               PROVE  ~ Collide(Ddi(cls)[i], Ddi(cls)[j])
    BY DEF DistinctReport
  <1> DEFINE x == shader.ddi[cls][i]
             y == shader.ddi[cls][j]
  <1>1. /\ i \in DOMAIN shader.ddi[cls] /\ j \in DOMAIN shader.ddi[cls]
        /\ Ddi(cls)[i] = Read(x) /\ Ddi(cls)[j] = Read(y)
    BY DdiIs DEF WellScanned
  <1>2. Read(x).reg = x.reg /\ Read(x).mask = x.mask /\ Read(y).reg = y.reg /\ Read(y).mask = y.mask
    BY DEF Read
  <1>3. SingleStream(shader, cls) /\ ReportedRight(shader, cls)
    BY OneStream, SoundShader DEF CompilerMade
  <1>4. ~ Collide(y, x)
    BY <1>1, <1>2, <1>3 DEF ReportedRight
  <1> QED
    BY <1>1, <1>2, <1>4 DEF Collide, Overlap

-----------------------------------------------------------------------------
\* An entry is that of a declared element.
Matches(x, d) ==
    /\ x.mask = d.mask /\ x.sysval = d.sysval /\ x.name = PickName(d.cls, d.sysval)
    /\ TypedBy(d.cls, d) # {} /\ Stride >= 20 => x.comp = d.comp /\ x.minPrec = d.minPrec

\* An entry of the runtime's tells the type of the element it is for.
LEMMA TypeReported ==
    ASSUME WellScanned, NEW d \in shader.declares, Stride >= 20, NEW k \in 1 .. Len(Ddi(d.cls)),
           Collide(Ddi(d.cls)[k], d)
    PROVE  Ddi(d.cls)[k].comp = d.comp /\ Ddi(d.cls)[k].minPrec = d.minPrec
  <1> DEFINE x == shader.ddi[d.cls][k]
  <1>1. d \in DeclaredElement /\ d.cls \in Class /\ d.reg # NoReg /\ CompilerMade(shader)
    BY SoundShader DEF DeclaredElement
  <1>2. k \in DOMAIN shader.ddi[d.cls] /\ Ddi(d.cls)[k] = Read(x)
    BY <1>1, DdiIs DEF WellScanned
  <1>3. Read(x).reg = x.reg /\ Read(x).mask = x.mask /\ Read(x).comp = x.comp /\ Read(x).minPrec = x.minPrec
    BY DEF Read
  <1>4. Collide(x, d) /\ x.reg # NoReg
    BY <1>1, <1>2, <1>3 DEF Collide
  <1>5. ReportedRight(shader, d.cls)
    BY <1>1 DEF CompilerMade
  <1> QED
    BY <1>2, <1>3, <1>4, <1>5 DEF ReportedRight

\* What the runtime reports for a register has components.
LEMMA ReportedMask ==
    ASSUME WellScanned, NEW cls \in Class, NEW k \in 1 .. Len(Ddi(cls)), Ddi(cls)[k].reg # NoReg
    PROVE  Ddi(cls)[k].mask # {}
  <1> DEFINE x == shader.ddi[cls][k]
  <1>1. k \in DOMAIN shader.ddi[cls] /\ Ddi(cls)[k] = Read(x)
    BY DdiIs DEF WellScanned
  <1>2. Read(x).reg = x.reg /\ Read(x).mask = x.mask
    BY DEF Read
  <1>3. ReportedRight(shader, cls)
    BY SoundShader DEF CompilerMade
  <1> QED
    BY <1>1, <1>2, <1>3 DEF ReportedRight

\* A scanned declaration with a register is that of an element.
LEMMA ScannedElement ==
    ASSUME WellScanned, NEW cls \in Class, NEW k \in 1 .. Len(Decls(cls)), Decls(cls)[k].reg # NoReg
    PROVE  \E d \in shader.declares : d.cls = cls /\ ScannedAs(Decls(cls)[k], d)
  <1>1. k \in DOMAIN scan[cls] /\ Decls(cls)[k] = scan[cls][k]
    BY DeclsType DEF WellScanned, Decls
  <1> QED
    BY <1>1 DEF WellScanned, ScanFinds

\* An entry that was made of a declaration, and shares a component with an
\* element in its place, is that of the element.
LEMMA FromScanMatches ==
    ASSUME WellScanned, NEW d \in shader.declares, NEW e \in EntryType, FromScan(e, d.cls),
           SamePlace(e, d), Overlap(e.mask, d.mask)
    PROVE  /\ e.mask = d.mask /\ e.sysval = d.sysval
           /\ TypedBy(d.cls, d) # {} /\ Stride >= 20 => e.comp = d.comp /\ e.minPrec = d.minPrec
  <1>1. d \in DeclaredElement /\ d.cls \in Class /\ d.reg # NoReg /\ d.mask # {} /\ CompilerMade(shader)
    BY SoundShader DEF DeclaredElement
  <1>2. PICK k \in 1 .. Len(Decls(d.cls)) : e = Synthesised(d.cls, Decls(d.cls)[k])
    BY DEF FromScan
  <1> DEFINE decl == Decls(d.cls)[k]
             ks == TypedBy(d.cls, decl)
             m == Min(ks)
  <1>3. /\ e.mask = decl.mask /\ e.sysval = decl.sysval /\ e.reg = decl.reg /\ e.stream = decl.stream
        /\ ks # {} => e.comp = Ddi(d.cls)[m].comp /\ e.minPrec = Ddi(d.cls)[m].minPrec
    BY <1>2 DEF Synthesised, Entry
  <1>4. PICK f \in shader.declares : f.cls = d.cls /\ ScannedAs(decl, f)
    BY <1>1, <1>2, <1>3, ScannedElement DEF SamePlace
  <1>5. f = d
    <2>1. f.cls = d.cls /\ f.stream = d.stream /\ Collide(f, d)
      BY <1>3, <1>4 DEF ScannedAs, SamePlace, Collide
    <2> QED
      BY <1>1, <2>1 DEF CompilerMade
  <1>6. decl.mask = d.mask /\ decl.reg = d.reg /\ decl.sysval = d.sysval
    BY <1>4, <1>5 DEF ScannedAs, SamePlace
  <1>7. ks = TypedBy(d.cls, d)
    BY <1>6 DEF TypedBy
  <1>8. ASSUME ks # {}, Stride >= 20 PROVE e.comp = d.comp /\ e.minPrec = d.minPrec
    <2>1. ks \in SUBSET (1 .. Len(Ddi(d.cls))) /\ ks \in SUBSET Nat
      BY <1>1, DdiType DEF TypedBy, WellScanned
    <2>2. m \in ks
      <3> HIDE DEF ks
      <3> QED
        BY <1>8, <2>1, MinOf
    <2>3. /\ m \in 1 .. Len(Ddi(d.cls)) /\ Ddi(d.cls)[m].reg = d.reg
          /\ MayOverlap(d.mask, Ddi(d.cls)[m].mask)
      <3> HIDE DEF m
      <3> QED
        BY <1>6, <2>1, <2>2 DEF TypedBy
    <2>4. Ddi(d.cls)[m].mask # {}
      <3> HIDE DEF m
      <3> QED
        BY <1>1, <2>3, ReportedMask
    <2>5. Collide(Ddi(d.cls)[m], d)
      BY <1>1, <2>3, <2>4 DEF Collide, MayOverlap, Overlap
    <2>6. Ddi(d.cls)[m].comp = d.comp /\ Ddi(d.cls)[m].minPrec = d.minPrec
      <3> HIDE DEF m
      <3> QED
        BY <1>8, <2>3, <2>5, TypeReported
    <2> QED
      BY <1>3, <1>8, <2>6
  <1> QED
    BY <1>3, <1>6, <1>7, <1>8

\* So is one that comes of the runtime's report.
LEMMA FromReportMatches ==
    ASSUME WellScanned, NEW d \in shader.declares, NEW e \in EntryType, FromReport(e, d.cls, Len(Ddi(d.cls))),
           SamePlace(e, d), Overlap(e.mask, d.mask)
    PROVE  /\ e.mask = d.mask /\ e.sysval = d.sysval
           /\ TypedBy(d.cls, d) # {} /\ Stride >= 20 => e.comp = d.comp /\ e.minPrec = d.minPrec
  <1>1. d \in DeclaredElement /\ d.cls \in Class /\ d.reg # NoReg /\ d.mask # {} /\ CompilerMade(shader)
    BY SoundShader DEF DeclaredElement
  <1>2. PICK k \in 1 .. Len(Ddi(d.cls)) :
           e = Entry(Ddi(d.cls)[k], IF Streams(d.cls) > 1 THEN Ddi(d.cls)[k].stream ELSE 0,
                     Ddi(d.cls)[k].comp, Ddi(d.cls)[k].minPrec)
    BY DEF FromReport
  <1> DEFINE r == Ddi(d.cls)[k]
             x == shader.ddi[d.cls][k]
  <1>3. /\ e.mask = r.mask /\ e.sysval = r.sysval /\ e.reg = r.reg /\ e.comp = r.comp /\ e.minPrec = r.minPrec
        /\ e.stream = IF Streams(d.cls) > 1 THEN r.stream ELSE 0
    BY <1>2 DEF Entry
  <1>4. k \in DOMAIN shader.ddi[d.cls] /\ r = Read(x)
    BY <1>1, DdiIs DEF WellScanned
  <1>5. /\ r.reg = x.reg /\ r.mask = x.mask /\ r.sysval = x.sysval
        /\ r.stream = IF shader.version = "11.1" THEN x.stream ELSE 0
    BY <1>4 DEF Read, Stride, Absent
  <1>6. Collide(r, d) /\ Collide(x, d) /\ x.reg # NoReg
    BY <1>1, <1>3, <1>5 DEF Collide, SamePlace
  <1>7. \/ SingleStream(shader, d.cls)
        \/ d.stream = IF shader.version = "11.1" THEN x.stream ELSE 0
    <2>1. CASE Streams(d.cls) > 1
      BY <1>3, <1>5, <2>1 DEF SamePlace
    <2>2. CASE ~ (Streams(d.cls) > 1)
      BY <1>1, <2>2, OneStream
    <2> QED
      BY <2>1, <2>2
  <1>8. x.mask = d.mask /\ x.sysval = d.sysval
    <2>1. ReportedRight(shader, d.cls)
      BY <1>1 DEF CompilerMade
    <2> QED
      BY <1>4, <1>6, <1>7, <2>1 DEF ReportedRight
  <1>9. Stride >= 20 => r.comp = d.comp /\ r.minPrec = d.minPrec
    BY <1>6, TypeReported
  <1> HIDE DEF r, x
  <1> QED
    BY <1>3, <1>5, <1>8, <1>9

\* An entry that shares a component with an element in its place is that of the
\* element.
LEMMA EntryMatches ==
    ASSUME WellScanned, NEW d \in shader.declares, NEW x, From(x, d.cls),
           SamePlace(x, d), Overlap(x.mask, d.mask)
    PROVE  Matches(x, d)
  <1>1. d \in DeclaredElement /\ d.cls \in Class /\ d.reg # NoReg /\ d.comp # 0
    BY SoundShader DEF DeclaredElement
  <1>2. PICK e \in EntryType :
           /\ FromReport(e, d.cls, Len(Ddi(d.cls))) \/ FromScan(e, d.cls)
           /\ SameElement(x, e, d.cls)
    BY <1>1 DEF From, SamePlace
  <1>3. /\ x.mask = e.mask /\ x.name = PickName(d.cls, e.sysval) /\ x.comp = TypeOf(e)
        /\ x.sysval = e.sysval /\ x.minPrec = e.minPrec /\ x.reg = e.reg /\ x.stream = e.stream
    BY <1>1, <1>2 DEF SameElement, SamePlace
  <1>4. SamePlace(e, d) /\ Overlap(e.mask, d.mask)
    BY <1>3 DEF SamePlace
  <1>5. /\ e.mask = d.mask /\ e.sysval = d.sysval
        /\ TypedBy(d.cls, d) # {} /\ Stride >= 20 => e.comp = d.comp /\ e.minPrec = d.minPrec
    BY <1>2, <1>4, FromScanMatches, FromReportMatches
  <1> QED
    BY <1>1, <1>3, <1>5 DEF Matches, TypeOf

\* An entry with a register has components.
LEMMA EntryMask ==
    ASSUME WellScanned, NEW cls \in Class, NEW x, From(x, cls), x.reg # NoReg
    PROVE  x.mask # {}
  <1>1. PICK e \in EntryType :
           /\ FromReport(e, cls, Len(Ddi(cls))) \/ FromScan(e, cls)
           /\ SameElement(x, e, cls)
    BY DEF From
  <1>2. x.mask = e.mask /\ e.reg # NoReg
    BY <1>1 DEF SameElement
  <1>3. CASE FromReport(e, cls, Len(Ddi(cls)))
    <2>1. PICK k \in 1 .. Len(Ddi(cls)) :
             e = Entry(Ddi(cls)[k], IF Streams(cls) > 1 THEN Ddi(cls)[k].stream ELSE 0,
                       Ddi(cls)[k].comp, Ddi(cls)[k].minPrec)
      BY <1>3 DEF FromReport
    <2>2. e.mask = Ddi(cls)[k].mask /\ e.reg = Ddi(cls)[k].reg
      BY <2>1 DEF Entry
    <2> QED
      BY <1>2, <2>2, ReportedMask
  <1>4. CASE FromScan(e, cls)
    <2>1. PICK k \in 1 .. Len(Decls(cls)) : e = Synthesised(cls, Decls(cls)[k])
      BY <1>4 DEF FromScan
    <2>2. e.mask = Decls(cls)[k].mask /\ e.reg = Decls(cls)[k].reg
      BY <2>1 DEF Synthesised, Entry
    <2>3. PICK d \in shader.declares : d.cls = cls /\ ScannedAs(Decls(cls)[k], d)
      BY <1>2, <2>2, ScannedElement
    <2>4. d.mask # {}
      BY SoundShader DEF DeclaredElement
    <2> QED
      BY <1>2, <2>2, <2>3, <2>4 DEF ScannedAs
  <1> QED
    BY <1>1, <1>3, <1>4

-----------------------------------------------------------------------------
\* Every system output is declared once.
SysOutsOnce == \A i, j \in DOMAIN scan.sysOut : scan.sysOut[i] = scan.sysOut[j] => i = j

\* Each of the system outputs S has one entry of its name, and no other has one.
NamesOf(es, S) ==
    /\ \A j \in S : \E i \in 1 .. Len(es) : es[i].name = SysOutName(scan.sysOut[j])
    /\ \A i \in 1 .. Len(es), o \in SysOut : es[i].name = SysOutName(o) => \E j \in S : scan.sysOut[j] = o
    /\ \A i, k \in 1 .. Len(es), o \in SysOut :
          es[i].name = SysOutName(o) /\ es[k].name = SysOutName(o) => i = k

\* The names of the system outputs differ from each other and from those of the
\* semantic table.
LEMMA SysOutNamesDiffer ==
    /\ \A o, q \in SysOut : SysOutName(o) = SysOutName(q) => o = q
    /\ \A cls, v : \A o \in SysOut : PickName(cls, v) # SysOutName(o)
  <1>1. \A o, q \in SysOut : SysOutName(o) = SysOutName(q) => o = q
    BY DEF SysOut, SysOutName
  <1>2. ASSUME NEW v, NEW o \in SysOut PROVE SemName(v) # SysOutName(o) /\ "SV_Target" # SysOutName(o)
    <2>1. SysOutName(o) \in {"SV_Depth", "SV_Coverage", "SV_DepthGreaterEqual", "SV_DepthLessEqual", "SV_StencilRef"}
      BY DEF SysOut, SysOutName
    <2>2. SemName(v) \notin {"SV_Depth", "SV_Coverage", "SV_DepthGreaterEqual", "SV_DepthLessEqual", "SV_StencilRef"}
      BY DEF SemName
    <2> QED
      BY <2>1, <2>2
  <1> QED
    BY <1>1, <1>2 DEF PickName

LEMMA SysOutType ==
    ASSUME scan \in ScanType
    PROVE  /\ Len(scan.sysOut) \in Nat /\ DOMAIN scan.sysOut = 1 .. Len(scan.sysOut)
           /\ \A j \in DOMAIN scan.sysOut : scan.sysOut[j] \in SysOut
  <1>1. scan.sysOut \in Seq(SysOut)
    BY DEF ScanType
  <1> QED
    BY <1>1, LenProperties, ElementOfSeq

\* An entry without such a name changes nothing.
LEMMA NamesOfOther ==
    ASSUME NEW T, NEW es \in Seq(T), NEW e \in T, NEW S, NamesOf(es, S), \A o \in SysOut : e.name # SysOutName(o)
    PROVE  NamesOf(Append(es, e), S)
  <1> DEFINE x == Append(es, e)
             n == Len(es)
  <1>1. /\ n \in Nat /\ Len(x) = n + 1 /\ x[n + 1] = e
        /\ \A i \in 1 .. n : x[i] = es[i]
    BY LenProperties, AppendProperties
  <1> HIDE DEF x
  <1>2. \A i \in 1 .. n + 1 : i \in 1 .. n \/ i = n + 1
    BY <1>1
  <1>3. \A i \in 1 .. n : i \in 1 .. n + 1
    BY <1>1
  <1>4. ASSUME NEW i \in 1 .. Len(x), NEW o \in SysOut, x[i].name = SysOutName(o)
        PROVE  i \in 1 .. n /\ es[i].name = SysOutName(o)
    BY <1>1, <1>2, <1>4
  <1>5. ASSUME NEW j \in S PROVE \E i \in 1 .. Len(x) : x[i].name = SysOutName(scan.sysOut[j])
    <2>1. PICK i \in 1 .. n : es[i].name = SysOutName(scan.sysOut[j])
      BY DEF NamesOf
    <2> QED
      BY <1>1, <1>3, <2>1
  <1> HIDE DEF n
  <1>6. ASSUME NEW i \in 1 .. Len(x), NEW o \in SysOut, x[i].name = SysOutName(o)
        PROVE  \E j \in S : scan.sysOut[j] = o
    <2>1. i \in 1 .. n /\ es[i].name = SysOutName(o)
      BY <1>4, <1>6
    <2> QED
      BY <2>1 DEF NamesOf, n
  <1>7. ASSUME NEW i \in 1 .. Len(x), NEW k \in 1 .. Len(x), NEW o \in SysOut,
               x[i].name = SysOutName(o), x[k].name = SysOutName(o)
        PROVE  i = k
    <2>1. i \in 1 .. n /\ es[i].name = SysOutName(o) /\ k \in 1 .. n /\ es[k].name = SysOutName(o)
      BY <1>4, <1>7
    <2> QED
      BY <2>1 DEF NamesOf, n
  <1> QED
    BY <1>5, <1>6, <1>7 DEF NamesOf, x

\* One with the name of a further system output accounts for it.
LEMMA NamesOfNew ==
    ASSUME scan \in ScanType, SysOutsOnce, NEW T, NEW es \in Seq(T), NEW e \in T,
           NEW S \in SUBSET DOMAIN scan.sysOut, NamesOf(es, S),
           NEW j \in DOMAIN scan.sysOut \ S, e.name = SysOutName(scan.sysOut[j])
    PROVE  NamesOf(Append(es, e), S \union {j})
  <1> DEFINE x == Append(es, e)
             n == Len(es)
             o == scan.sysOut[j]
  <1>1. /\ n \in Nat /\ Len(x) = n + 1 /\ x[n + 1] = e
        /\ \A i \in 1 .. n : x[i] = es[i]
    BY LenProperties, AppendProperties
  <1> HIDE DEF x
  <1>2. \A i \in 1 .. n + 1 : i \in 1 .. n \/ i = n + 1
    BY <1>1
  <1>3. n + 1 \in 1 .. n + 1 /\ \A i \in 1 .. n : i \in 1 .. n + 1
    BY <1>1
  <1>4. o \in SysOut /\ \A q \in SysOut : e.name = SysOutName(q) => q = o
    BY SysOutType, SysOutNamesDiffer
  <1>5. ASSUME NEW i \in 1 .. n PROVE es[i].name # SysOutName(o)
    <2> SUFFICES ASSUME es[i].name = SysOutName(o) PROVE FALSE
      OBVIOUS
    <2>1. PICK k \in S : scan.sysOut[k] = o
      BY <1>4 DEF NamesOf
    <2>2. k = j
      BY <2>1 DEF SysOutsOnce
    <2> QED
      BY <2>2
  <1>6. ASSUME NEW k \in S \union {j} PROVE \E i \in 1 .. Len(x) : x[i].name = SysOutName(scan.sysOut[k])
    <2>1. CASE k = j
      BY <1>1, <1>3, <2>1
    <2>2. CASE k \in S
      <3>1. PICK i \in 1 .. n : es[i].name = SysOutName(scan.sysOut[k])
        BY <2>2 DEF NamesOf
      <3> QED
        BY <1>1, <1>3, <3>1
    <2> QED
      BY <2>1, <2>2
  <1> HIDE DEF n, o
  <1>7. ASSUME NEW i \in 1 .. Len(x), NEW q \in SysOut, x[i].name = SysOutName(q)
        PROVE  \E k \in S \union {j} : scan.sysOut[k] = q
    <2>1. CASE i \in 1 .. n
      <3>1. es[i].name = SysOutName(q)
        BY <1>1, <1>7, <2>1
      <3> QED
        BY <2>1, <3>1 DEF NamesOf, n
    <2>2. CASE i = n + 1
      BY <1>1, <1>4, <1>7, <2>2 DEF o
    <2> QED
      BY <1>1, <1>2, <2>1, <2>2
  <1>8. ASSUME NEW i \in 1 .. Len(x), NEW k \in 1 .. Len(x), NEW q \in SysOut,
               x[i].name = SysOutName(q), x[k].name = SysOutName(q)
        PROVE  i = k
    <2>1. CASE i \in 1 .. n /\ k \in 1 .. n
      <3>1. es[i].name = SysOutName(q) /\ es[k].name = SysOutName(q)
        BY <1>1, <1>8, <2>1
      <3> QED
        BY <2>1, <3>1 DEF NamesOf, n
    <2>2. CASE i = n + 1 /\ k = n + 1
      BY <2>2
    <2>3. CASE i = n + 1 /\ k \in 1 .. n
      BY <1>1, <1>4, <1>5, <1>8, <2>3
    <2>4. CASE i \in 1 .. n /\ k = n + 1
      BY <1>1, <1>4, <1>5, <1>8, <2>4
    <2> QED
      BY <1>1, <1>2, <2>1, <2>2, <2>3, <2>4
  <1> QED
    BY <1>6, <1>7, <1>8 DEF NamesOf, x

\* What is claimed was left.
LEMMA ClaimIsLeft ==
    ASSUME scan \in ScanType, NEW e, NEW claimed, Claim(e, claimed) # 0
    PROVE  Claim(e, claimed) \in DOMAIN scan.sysOut \ claimed
  <1> DEFINE left == DOMAIN scan.sysOut \ claimed
             isUint == e.comp \in {UintComp, SintComp}
             alike == {j \in left : e.comp \notin {UintComp, SintComp, FloatComp}
                                    \/ isUint = (SysOutComp(scan.sysOut[j]) = UintComp)}
  <1>1. Claim(e, claimed) = IF alike # {} THEN Min(alike) ELSE IF left # {} THEN Min(left) ELSE 0
    BY DEF Claim
  <1>2. left \in SUBSET Nat /\ alike \subseteq left
    <2>1. left \subseteq 1 .. Len(scan.sysOut) /\ Len(scan.sysOut) \in Nat
      BY SysOutType
    <2>2. 1 .. Len(scan.sysOut) \subseteq Nat
      BY <2>1
    <2> HIDE DEF left
    <2> QED
      BY <2>1, <2>2
  <1> HIDE DEF left, alike
  <1>3. alike # {} => Min(alike) \in left
    BY <1>2, MinOf
  <1>4. left # {} => Min(left) \in left
    BY <1>2, MinOf
  <1>5. Claim(e, claimed) \in left
    BY <1>1, <1>3, <1>4
  <1> QED
    BY <1>5 DEF left

\* The entries that are resolved have the names of the system outputs that are
\* claimed, each once.
NamesClaimed(acc) == acc.claimed \in SUBSET DOMAIN scan.sysOut /\ NamesOf(acc.done, acc.claimed)

LEMMA ResolvedNames ==
    ASSUME scan \in ScanType, SysOutsOnce, NEW cls,
           NEW acc \in [done: Seq(NamedType), claimed: SUBSET Nat], NEW e \in EntryType, NamesClaimed(acc)
    PROVE  NamesClaimed(Resolved(acc, e, cls))
  <1> DEFINE n == Named(cls, e)
             j == Claim(e, acc.claimed)
             plain == [n EXCEPT !.comp = TypeOf(e)]
             target == [n EXCEPT !.comp = TypeOf(e), !.semIdx = e.reg]
             sys == [n EXCEPT !.name = SysOutName(scan.sysOut[j]), !.comp = SysOutComp(scan.sysOut[j]),
                              !.mask = IF @ = {} THEN {0} ELSE @, !.semIdx = 0]
             T == NamedType \union {plain, target, sys}
  <1>1. /\ plain \in T /\ target \in T /\ sys \in T
        /\ acc.done \in Seq(T) /\ acc = [done |-> acc.done, claimed |-> acc.claimed]
    <2>1. acc.done \in Seq(NamedType) /\ NamedType \subseteq T
      OBVIOUS
    <2> HIDE DEF T
    <2>2. acc.done \in Seq(T)
      <3>1. Len(acc.done) \in Nat /\ acc.done \in [1 .. Len(acc.done) -> NamedType]
        BY <2>1, LenProperties
      <3>2. acc.done \in [1 .. Len(acc.done) -> T]
        BY <2>1, <3>1
      <3> QED
        BY <3>1, <3>2, SeqDef
    <2> QED
      BY <2>2 DEF T
  <1>2. n.name = PickName(cls, e.sysval) /\ plain.name = n.name /\ target.name = n.name
    BY DEF Named, EntryType
  <1>3. sys.name = SysOutName(scan.sysOut[j])
    BY DEF Named, EntryType
  <1>4. ASSUME NEW x \in T, x.name = PickName(cls, e.sysval)
        PROVE  NamesClaimed([done |-> Append(acc.done, x), claimed |-> acc.claimed])
    <2>1. \A o \in SysOut : x.name # SysOutName(o)
      BY <1>4, SysOutNamesDiffer
    <2> HIDE DEF T
    <2>2. NamesOf(Append(acc.done, x), acc.claimed)
      BY <1>1, <2>1, NamesOfOther DEF NamesClaimed
    <2> QED
      BY <2>2 DEF NamesClaimed
  <1> HIDE DEF T
  <1>5. CASE ~ IsTarget(cls, e.sysval) \/ (e.reg = NoReg /\ j = 0)
    <2>1. Resolved(acc, e, cls) = [acc EXCEPT !.done = Append(@, plain)]
      BY <1>5 DEF Resolved
    <2> HIDE DEF plain, j
    <2>2. Resolved(acc, e, cls) = [done |-> Append(acc.done, plain), claimed |-> acc.claimed]
      BY <1>1, <2>1
    <2> QED
      BY <1>1, <1>2, <1>4, <2>2
  <1>6. CASE IsTarget(cls, e.sysval) /\ e.reg # NoReg
    <2>1. Resolved(acc, e, cls) = [acc EXCEPT !.done = Append(@, target)]
      BY <1>6 DEF Resolved
    <2> HIDE DEF target
    <2>2. Resolved(acc, e, cls) = [done |-> Append(acc.done, target), claimed |-> acc.claimed]
      BY <1>1, <2>1
    <2> QED
      BY <1>1, <1>2, <1>4, <2>2
  <1>7. CASE IsTarget(cls, e.sysval) /\ e.reg = NoReg /\ j # 0
    <2>1. Resolved(acc, e, cls) = [claimed |-> acc.claimed \union {j}, done |-> Append(acc.done, sys)]
      BY <1>7 DEF Resolved
    <2>2. j \in DOMAIN scan.sysOut \ acc.claimed
      BY <1>7, ClaimIsLeft
    <2> HIDE DEF sys, j
    <2>3. acc.claimed \in SUBSET DOMAIN scan.sysOut /\ NamesOf(acc.done, acc.claimed)
      BY DEF NamesClaimed
    <2>4. NamesOf(Append(acc.done, sys), acc.claimed \union {j})
      BY <1>1, <1>3, <2>2, <2>3, NamesOfNew
    <2> QED
      BY <2>1, <2>2, <2>3, <2>4 DEF NamesClaimed
  <1> QED
    BY <1>5, <1>6, <1>7

LEMMA ResolvedAllNames ==
    ASSUME scan \in ScanType, SysOutsOnce, NEW es \in Seq(EntryType), NEW cls
    PROVE  NamesClaimed(ResolvedAll(es, cls))
  <1> DEFINE n == Len(es)
             A == [done: Seq(NamedType), claimed: SUBSET Nat]
  <1>1. n \in Nat /\ \A i \in 1 .. n : es[i] \in EntryType
    BY LenProperties, ElementOfSeq
  <1>2. PICK f : ResolvedBy(f, es, cls)
    BY ResolvedSteps
  <1>3. /\ f \in [0 .. n -> A] /\ f[0] = [done |-> << >>, claimed |-> {}] /\ ResolvedAll(es, cls) = f[n]
        /\ \A i \in 1 .. n : f[i] = Resolved(f[i - 1], es[i], cls)
    BY <1>2 DEF ResolvedBy
  <1> HIDE DEF n
  <1> DEFINE S == {i \in 0 .. n : NamesClaimed(f[i])}
  <1>4. 0 \in S
    <2>1. f[0].done = << >> /\ f[0].claimed = {} /\ Len(<< >>) = 0
      BY <1>3
    <2>2. \A i : ~ (i \in 1 .. 0)
      OBVIOUS
    <2>3. NamesOf(<< >>, {})
      BY <2>1, <2>2 DEF NamesOf
    <2>4. NamesClaimed(f[0])
      BY <2>1, <2>3 DEF NamesClaimed
    <2> QED
      BY <1>1, <2>4
  <1>5. ASSUME NEW i \in 1 .. n, i - 1 \in S PROVE i \in S
    <2>1. i - 1 \in 0 .. n /\ i \in 0 .. n
      BY <1>1
    <2> DEFINE a == f[i - 1]
    <2>2. a \in A /\ es[i] \in EntryType /\ f[i] = Resolved(a, es[i], cls) /\ NamesClaimed(a)
      BY <1>1, <1>3, <1>5, <2>1
    <2> HIDE DEF a
    <2>3. NamesClaimed(f[i])
      BY <2>2, ResolvedNames
    <2> QED
      BY <2>1, <2>3
  <1>6. n \in S
    <2> HIDE DEF S
    <2> QED
      BY <1>1, <1>4, <1>5, Induct
  <1> QED
    BY <1>3, <1>6

\* With the others of a pixel shader added, all are accounted for unless there
\* is no room.
LEMMA AddSysOutNames ==
    ASSUME scan \in ScanType, SysOutsOnce, NEW claimed \in SUBSET DOMAIN scan.sysOut, NEW es \in NamedLists,
           NEW m \in Nat, m + 1 \in DOMAIN scan.sysOut,
           Len(es) < MaxSigEntries => NamesOf(es, claimed \union (1 .. m))
    PROVE  Len(AddSysOut(es, m + 1, claimed)) < MaxSigEntries =>
              NamesOf(AddSysOut(es, m + 1, claimed), claimed \union (1 .. m + 1))
  <1> DEFINE e == SysOutEntry(scan.sysOut[m + 1])
             T == NamedType \union {e}
             S == claimed \union (1 .. m)
  <1>1. \A k : k \in 1 .. m + 1 <=> k \in 1 .. m \/ k = m + 1
    OBVIOUS
  <1>2. CASE m + 1 \in claimed
    <2>1. AddSysOut(es, m + 1, claimed) = es
      BY <1>2 DEF AddSysOut
    <2>2. claimed \union (1 .. m + 1) = S
      BY <1>1, <1>2
    <2> QED
      BY <2>1, <2>2
  <1>3. CASE Len(es) >= MaxSigEntries
    <2>1. AddSysOut(es, m + 1, claimed) = es
      BY <1>3 DEF AddSysOut
    <2>2. Len(es) \in Nat /\ MaxSigEntries \in Nat
      BY LenProperties, ShaderTokensAssumption DEF NamedLists
    <2> QED
      BY <1>3, <2>1, <2>2
  <1>4. CASE m + 1 \notin claimed /\ ~ (Len(es) >= MaxSigEntries)
    <2>1. AddSysOut(es, m + 1, claimed) = Append(es, e)
      BY <1>4 DEF AddSysOut
    <2>2. Len(es) \in Nat /\ MaxSigEntries \in Nat /\ es \in [1 .. Len(es) -> NamedType] /\ es \in Seq(NamedType)
      BY LenProperties, ShaderTokensAssumption DEF NamedLists
    <2>3. NamesOf(es, S)
      BY <1>4, <2>2
    <2>4. es \in Seq(T) /\ e \in T
      <3>1. es \in [1 .. Len(es) -> T]
        BY <2>2
      <3> HIDE DEF T
      <3>2. es \in Seq(T)
        BY <2>2, <3>1, SeqDef
      <3> QED
        BY <3>2 DEF T
    <2>5. e.name = SysOutName(scan.sysOut[m + 1])
      BY DEF SysOutEntry
    <2>6. S \in SUBSET DOMAIN scan.sysOut /\ m + 1 \in DOMAIN scan.sysOut \ S
      <3>1. Len(scan.sysOut) \in Nat /\ DOMAIN scan.sysOut = 1 .. Len(scan.sysOut)
        BY SysOutType
      <3>2. m + 1 <= Len(scan.sysOut) /\ ~ (m + 1 \in 1 .. m)
        BY <3>1
      <3>3. 1 .. m \subseteq 1 .. Len(scan.sysOut)
        BY <3>1, <3>2
      <3> QED
        BY <1>4, <3>1, <3>2, <3>3
    <2>7. S \union {m + 1} = claimed \union (1 .. m + 1)
      BY <1>1
    <2> HIDE DEF e, T, S
    <2>8. NamesOf(Append(es, e), S \union {m + 1})
      BY <2>3, <2>4, <2>5, <2>6, NamesOfNew
    <2> QED
      BY <2>1, <2>7, <2>8
  <1> QED
    BY <1>2, <1>3, <1>4

LEMMA WithSysOutsNames ==
    ASSUME scan \in ScanType, SysOutsOnce, shader.stage = "PS",
           NEW acc, acc.done \in NamedLists, NamesClaimed(acc), Len(WithSysOuts(acc, "out")) < MaxSigEntries
    PROVE  NamesOf(WithSysOuts(acc, "out"), DOMAIN scan.sysOut)
  <1> DEFINE n == Len(scan.sysOut)
  <1>1. n \in Nat /\ DOMAIN scan.sysOut = 1 .. n
    BY SysOutType
  <1>2. PICK f : SysOutsBy(f, acc, "out")
    BY SysOutsSteps
  <1>3. /\ f \in [0 .. n -> NamedLists] /\ f[0] = acc.done /\ WithSysOuts(acc, "out") = f[n]
        /\ \A i \in 1 .. n : f[i] = AddSysOut(f[i - 1], i, acc.claimed)
    BY <1>2 DEF SysOutsBy
  <1> HIDE DEF n
  <1>4. acc.claimed \in SUBSET DOMAIN scan.sysOut /\ NamesOf(acc.done, acc.claimed)
    BY DEF NamesClaimed
  <1> DEFINE S == {i \in 0 .. n : Len(f[i]) < MaxSigEntries => NamesOf(f[i], acc.claimed \union (1 .. i))}
  <1>5. 0 \in S
    <2>1. acc.claimed \union (1 .. 0) = acc.claimed
      OBVIOUS
    <2> QED
      BY <1>1, <1>3, <1>4, <2>1
  <1>6. ASSUME NEW i \in 1 .. n, i - 1 \in S PROVE i \in S
    <2> DEFINE m == i - 1
    <2>1. m \in 0 .. n /\ m \in Nat /\ m + 1 = i /\ i \in DOMAIN scan.sysOut /\ i \in 0 .. n
      BY <1>1
    <2>2. /\ f[m] \in NamedLists /\ f[i] = AddSysOut(f[m], i, acc.claimed)
          /\ Len(f[m]) < MaxSigEntries => NamesOf(f[m], acc.claimed \union (1 .. m))
      BY <1>3, <1>6, <2>1
    <2> HIDE DEF m
    <2>3. Len(AddSysOut(f[m], m + 1, acc.claimed)) < MaxSigEntries =>
             NamesOf(AddSysOut(f[m], m + 1, acc.claimed), acc.claimed \union (1 .. m + 1))
      BY <1>4, <2>1, <2>2, AddSysOutNames
    <2> QED
      BY <2>1, <2>2, <2>3
  <1>7. n \in S
    <2> HIDE DEF S
    <2> QED
      BY <1>1, <1>5, <1>6, Induct
  <1>8. acc.claimed \union (1 .. n) = DOMAIN scan.sysOut
    BY <1>1, <1>4
  <1> QED
    BY <1>3, <1>7, <1>8

\* The same of the entries when they are numbered.
LEMMA AssignedSysOuts ==
    ASSUME scan \in ScanType, SysOutsOnce, shader.stage = "PS", NEW es \in EntryLists,
           Len(Assigned(es, "out")) < MaxSigEntries
    PROVE  NamesOf(Assigned(es, "out"), DOMAIN scan.sysOut)
  <1> DEFINE acc == ResolvedAll(es, "out")
             all == WithSysOuts(acc, "out")
             x == Assigned(es, "out")
  <1>1. es \in Seq(EntryType) /\ acc.done \in NamedLists /\ NamesClaimed(acc)
    BY ResolvedAllType, ResolvedAllNames DEF EntryLists
  <1>2. x = [i \in DOMAIN all |-> [all[i] EXCEPT !.semIdx = SemIndex(all, i)]] /\ x \in ReadyLists
    BY AssignedType DEF Assigned
  <1> HIDE DEF acc
  <1>3. all \in NamedLists
    BY <1>1, WithSysOutsType
  <1> HIDE DEF all, x
  <1>4. /\ all \in Seq(NamedType) /\ Len(all) \in Nat /\ DOMAIN all = 1 .. Len(all)
        /\ x \in Seq(ReadyType) /\ Len(x) \in Nat /\ DOMAIN x = 1 .. Len(x)
        /\ \A i \in 1 .. Len(all) : all[i] \in NamedType
    BY <1>2, <1>3, LenProperties, ElementOfSeq DEF NamedLists, ReadyLists
  <1>5. Len(x) = Len(all)
    <2> DEFINE a == Len(x)
               b == Len(all)
    <2>1. a \in Nat /\ b \in Nat /\ \A i : i \in 1 .. a <=> i \in 1 .. b
      BY <1>2, <1>4
    <2> HIDE DEF a, b
    <2>2. ~ (a < b)
      <3> SUFFICES ASSUME a < b PROVE FALSE
        OBVIOUS
      <3>1. b \in 1 .. b /\ ~ (b \in 1 .. a)
        BY <2>1
      <3> QED
        BY <2>1, <3>1
    <2>3. ~ (b < a)
      <3> SUFFICES ASSUME b < a PROVE FALSE
        OBVIOUS
      <3>1. a \in 1 .. a /\ ~ (a \in 1 .. b)
        BY <2>1
      <3> QED
        BY <2>1, <3>1
    <2>4. a = b
      BY <2>1, <2>2, <2>3
    <2> QED
      BY <2>4 DEF a, b
  <1>6. \A i \in 1 .. Len(all) : x[i].name = all[i].name
    BY <1>2, <1>4 DEF NamedType, EntryType
  <1>7. NamesOf(all, DOMAIN scan.sysOut)
    BY <1>1, <1>5, WithSysOutsNames DEF all, x
  <1>8. NamesOf(x, DOMAIN scan.sysOut)
    BY <1>5, <1>6, <1>7 DEF NamesOf
  <1> QED
    BY <1>8 DEF x

-----------------------------------------------------------------------------
\* The scan has ended when the signatures are made, and a pixel shader's outputs
\* have the system outputs that are declared.
SysOutsInv ==
    /\ phase # "scan" => ~ scanning
    /\ /\ phase \in ReadyPhase /\ SysOutsOnce /\ shader.stage = "PS" /\ Len(entries.out) < MaxSigEntries
       => NamesOf(entries.out, DOMAIN scan.sysOut)

\* Every step keeps the system outputs complete.
LEMMA SysOutsInvKept == SigTypes /\ SysOutsInv /\ [Next]_vars => SysOutsInv'
  <1> SUFFICES ASSUME SigTypes, SysOutsInv, [Next]_vars PROVE SysOutsInv'
    OBVIOUS
  <1>1. ASSUME phase' \in {"idle", "scan"}, phase' # "scan" => ~ scanning' PROVE SysOutsInv'
    BY <1>1 DEF SysOutsInv, ReadyPhase
  <1>2. ASSUME UNCHANGED tokenVars, entries' = entries,
               phase' = phase \/ (phase' \in ReadyPhase /\ phase \in ReadyPhase)
        PROVE  SysOutsInv'
    <2>1. scan' = scan /\ shader' = shader /\ scanning' = scanning
      BY <1>2 DEF tokenVars
    <2>2. SysOutsOnce' = SysOutsOnce /\ \A es, S : NamesOf(es, S)' = NamesOf(es, S)
      BY <2>1 DEF SysOutsOnce, NamesOf
    <2>3. phase' \in ReadyPhase => phase \in ReadyPhase
      BY <1>2
    <2>4. phase' # "scan" => phase # "scan"
      BY <1>2 DEF ReadyPhase
    <2> QED
      BY <1>2, <2>1, <2>2, <2>3, <2>4 DEF SysOutsInv
  <1>3. CASE CreateShader
    BY <1>1, <1>3 DEF CreateShader
  <1>4. CASE Scan
    BY <1>1, <1>4 DEF Scan
  <1>5. CASE Collect
    BY <1>5 DEF Collect, SysOutsInv, ReadyPhase, tokenVars
  <1>6. CASE AssignSemantics
    <2>1. /\ UNCHANGED tokenVars /\ phase = "collected" /\ phase' = "named"
          /\ entries' = [c \in Class |-> Assigned(entries[c], c)]
      BY <1>6 DEF AssignSemantics
    <2>2. scan' = scan /\ shader' = shader /\ scanning' = scanning
      BY <2>1 DEF tokenVars
    <2>3. entries.out \in EntryLists /\ scan \in ScanType
      <3>1. entries["out"] \in RawLists
        BY <2>1 DEF SigTypes, Class
      <3> QED
        BY <3>1, RawAreEntries DEF SigTypes
    <2>4. entries'.out = Assigned(entries.out, "out")
      BY <2>1 DEF Class
    <2>5. /\ SysOutsOnce /\ shader.stage = "PS" /\ Len(entries'.out) < MaxSigEntries
          => NamesOf(entries'.out, DOMAIN scan.sysOut)
      BY <2>3, <2>4, AssignedSysOuts
    <2>6. SysOutsOnce' = SysOutsOnce /\ \A es, S : NamesOf(es, S)' = NamesOf(es, S)
      BY <2>2 DEF SysOutsOnce, NamesOf
    <2>7. ~ scanning
      BY <2>1 DEF SysOutsInv
    <2> QED
      BY <2>2, <2>5, <2>6, <2>7 DEF SysOutsInv
  <1>7. CASE BuildDxbc
    BY <1>2, <1>7 DEF BuildDxbc, ReadyPhase
  <1>8. CASE BuildDxbcFails
    <2>1. phase \in ReadyPhase /\ phase' = "idle" /\ scanning' = scanning
      BY <1>8 DEF BuildDxbcFails, ReadyPhase, tokenVars
    <2> QED
      BY <1>1, <2>1 DEF SysOutsInv, ReadyPhase
  <1>9. CASE DeclareStreamOutput
    BY <1>2, <1>9 DEF DeclareStreamOutput, ReadyPhase
  <1>10. CASE CreateNative \/ CreateNativeFails
    <2>1. phase \in ReadyPhase /\ phase' = "idle" /\ scanning' = scanning
      BY <1>10 DEF CreateNative, CreateNativeFails, ReadyPhase, tokenVars
    <2> QED
      BY <1>1, <2>1 DEF SysOutsInv, ReadyPhase
  <1>11. CASE CreateShaderRejected
    BY <1>2, <1>11 DEF CreateShaderRejected, sigVars
  <1>12. ASSUME NEW v \in DOMAIN created, NEW regs \in CreatedShader(v).layouts, ResolveElements(v, regs)
         PROVE  SysOutsInv'
    BY <1>2, <1>12 DEF ResolveElements, sigVars
  <1>13. CASE UNCHANGED vars
    BY <1>2, <1>13 DEF vars, sigVars
  <1> QED
    BY <1>3, <1>4, <1>5, <1>6, <1>7, <1>8, <1>9, <1>10, <1>11, <1>12, <1>13 DEF Next, Complete

\* Whichever entries the runtime hands over for a pixel shader's outputs without
\* registers, every declared one has exactly one entry of its name while there
\* is room (tritonDxbc.c:921-998).
THEOREM SysOutsComplete == Spec => []SysOutsInv
  <1>1. Init => SysOutsInv
    BY DEF Init, SysOutsInv, ReadyPhase
  <1> QED
    BY <1>1, SysOutsInvKept, SignatureTypes, PTL DEF Spec

-----------------------------------------------------------------------------
\* The entries of a class have one, that of the element, for each element.
LEMMA ElementEntries ==
    ASSUME WellScanned, NEW d \in shader.declares, NEW es, es[d.cls] \in ReadyLists,
           EntriesFromScan(es[d.cls], d.cls)
    PROVE  /\ \A i \in EntriesFor(es, d) : i \in 1 .. Len(es[d.cls]) /\ Matches(es[d.cls][i], d)
           /\ \A i, j \in EntriesFor(es, d) : i = j
           /\ Len(es[d.cls]) < MaxSigEntries => EntriesFor(es, d) # {}
  <1> DEFINE s == es[d.cls]
  <1>1. d \in DeclaredElement /\ d.cls \in Class /\ d.reg # NoReg /\ d.mask # {}
    BY SoundShader DEF DeclaredElement
  <1>2. DOMAIN s = 1 .. Len(s) /\ Len(s) \in Nat
    BY LenProperties DEF ReadyLists
  <1>3. EntriesFor(es, d) = {i \in 1 .. Len(s) : SamePlace(s[i], d) /\ Overlap(s[i].mask, d.mask)}
    BY <1>2 DEF EntriesFor
  <1> HIDE DEF s
  <1>4. ASSUME NEW i \in EntriesFor(es, d) PROVE i \in 1 .. Len(s) /\ Matches(s[i], d)
    <2>1. i \in 1 .. Len(s) /\ SamePlace(s[i], d) /\ Overlap(s[i].mask, d.mask)
      BY <1>3
    <2>2. From(s[i], d.cls)
      BY <2>1 DEF EntriesFromScan, s
    <2> QED
      BY <2>1, <2>2, EntryMatches
  <1>5. ASSUME NEW i \in EntriesFor(es, d), NEW j \in EntriesFor(es, d), i # j PROVE FALSE
    <2>1. /\ i \in 1 .. Len(s) /\ j \in 1 .. Len(s) /\ SamePlace(s[i], d) /\ SamePlace(s[j], d)
          /\ s[i].mask = d.mask /\ s[j].mask = d.mask
      BY <1>3, <1>4 DEF Matches
    <2>2. Apart(s[i], s[j])
      BY <1>1, <1>5, <2>1, ReportIsDistinct DEF EntriesFromScan, NoTwice, s
    <2> QED
      BY <1>1, <2>1, <2>2 DEF Apart, SamePlace, Overlap
  <1>6. ASSUME Len(s) < MaxSigEntries PROVE EntriesFor(es, d) # {}
    <2>1. PICK k \in DOMAIN scan[d.cls] : ScannedAs(scan[d.cls][k], d)
      BY DEF WellScanned, ScanFinds
    <2>2. k \in 1 .. Len(Decls(d.cls)) /\ ScannedAs(Decls(d.cls)[k], d)
      BY <1>1, <2>1, DeclsType DEF WellScanned, Decls
    <2>3. Present(s, Decls(d.cls)[k])
      BY <1>1, <1>6, <2>2 DEF EntriesFromScan, ScannedAs, SamePlace, s
    <2>4. PICK i \in 1 .. Len(s) : SamePlace(s[i], Decls(d.cls)[k]) /\ MayOverlap(s[i].mask, Decls(d.cls)[k].mask)
      BY <1>2, <2>3 DEF Present, s
    <2>5. SamePlace(s[i], d) /\ MayOverlap(s[i].mask, d.mask)
      BY <2>2, <2>4 DEF ScannedAs, SamePlace
    <2>6. From(s[i], d.cls)
      BY DEF EntriesFromScan, s
    <2>7. s[i].mask # {}
      BY <1>1, <2>5, <2>6, EntryMask DEF SamePlace
    <2>8. Overlap(s[i].mask, d.mask)
      BY <1>1, <2>5, <2>7 DEF MayOverlap
    <2> QED
      BY <1>3, <2>5, <2>8
  <1> QED
    BY <1>4, <1>5, <1>6 DEF s

\* The entry of an element is the one that is chosen for it.
LEMMA EntryForIs ==
    ASSUME NEW es, NEW d, EntriesFor(es, d) # {}
    PROVE  \E i \in EntriesFor(es, d) : EntryFor(es, d) = es[d.cls][i]
  <1> DEFINE i == CHOOSE i \in EntriesFor(es, d) : TRUE
  <1>1. i \in EntriesFor(es, d)
    OBVIOUS
  <1>2. EntryFor(es, d) = es[d.cls][i]
    BY DEF EntryFor
  <1> QED
    BY <1>1, <1>2

\* The state when the entries are ready.
ReadyInv == ScanInv /\ SigTypes /\ EntriesInv /\ StreamsCounted(scan) /\ SysOutsInv

LEMMA ReadyScanned ==
    ASSUME ReadyInv, ScanExact, Finished
    PROVE  /\ WellScanned /\ ScanFinds /\ phase \in ReadyPhase
           /\ \A d \in shader.declares : entries[d.cls] \in ReadyLists /\ EntriesFromScan(entries[d.cls], d.cls)
  <1>1. phase \in ReadyPhase /\ shader.sound
    BY DEF Finished, ReadyPhase
  <1>2. ~ scanning /\ phase # "idle"
    BY <1>1 DEF ReadyInv, SysOutsInv, ReadyPhase
  <1>3. ScanFinds
    BY <1>1, <1>2 DEF ScanExact
  <1>4. WellScanned
    BY <1>1, <1>3 DEF WellScanned, ReadyInv, ScanInv, SigTypes
  <1>5. ASSUME NEW d \in shader.declares
        PROVE  entries[d.cls] \in ReadyLists /\ EntriesFromScan(entries[d.cls], d.cls)
    <2>1. d.cls \in Classes /\ d.cls \in Class
      BY <1>4, SoundShader
    <2> QED
      BY <1>1, <2>1 DEF ReadyInv, SigTypes, EntriesInv
  <1> QED
    BY <1>1, <1>3, <1>4, <1>5

\* Entries that are ready are complete.
LEMMA CompleteEntries == ReadyInv /\ ScanExact => SignatureComplete
  <1> SUFFICES ASSUME ReadyInv, ScanExact, Finished
               PROVE  /\ \A d \in shader.declares :
                            Len(entries[d.cls]) < MaxSigEntries =>
                                /\ Cardinality(EntriesFor(entries, d)) = 1
                                /\ d.mask \subseteq EntryFor(entries, d).mask
                                /\ TypedBy(d.cls, d) # {} /\ Stride >= 20 =>
                                      /\ EntryFor(entries, d).comp = d.comp
                                      /\ EntryFor(entries, d).minPrec = d.minPrec
                      /\ \A o \in SysOut :
                            Len(entries.out) < MaxSigEntries /\ shader.stage = "PS" =>
                                Cardinality({i \in DOMAIN entries.out : entries.out[i].name = SysOutName(o)}) =
                                (IF \E i \in DOMAIN scan.sysOut : scan.sysOut[i] = o THEN 1 ELSE 0)
    BY DEF SignatureComplete
  <1>1. /\ WellScanned /\ ScanFinds /\ phase \in ReadyPhase
        /\ \A d \in shader.declares : entries[d.cls] \in ReadyLists /\ EntriesFromScan(entries[d.cls], d.cls)
    BY ReadyScanned
  <1>2. ASSUME NEW d \in shader.declares, Len(entries[d.cls]) < MaxSigEntries
        PROVE  /\ Cardinality(EntriesFor(entries, d)) = 1
               /\ d.mask \subseteq EntryFor(entries, d).mask
               /\ TypedBy(d.cls, d) # {} /\ Stride >= 20 =>
                     /\ EntryFor(entries, d).comp = d.comp
                     /\ EntryFor(entries, d).minPrec = d.minPrec
    <2>1. /\ \A i \in EntriesFor(entries, d) : i \in 1 .. Len(entries[d.cls]) /\ Matches(entries[d.cls][i], d)
          /\ \A i, j \in EntriesFor(entries, d) : i = j
          /\ EntriesFor(entries, d) # {}
      BY <1>1, <1>2, ElementEntries
    <2>2. PICK i \in EntriesFor(entries, d) : EntryFor(entries, d) = entries[d.cls][i]
      BY <2>1, EntryForIs
    <2>3. EntriesFor(entries, d) = {i}
      BY <2>1
    <2>4. Cardinality(EntriesFor(entries, d)) = 1
      BY <2>3, FS_Singleton
    <2> QED
      BY <2>1, <2>2, <2>4 DEF Matches
  <1>3. ASSUME NEW o \in SysOut, Len(entries.out) < MaxSigEntries, shader.stage = "PS"
        PROVE  Cardinality({i \in DOMAIN entries.out : entries.out[i].name = SysOutName(o)}) =
                  (IF \E i \in DOMAIN scan.sysOut : scan.sysOut[i] = o THEN 1 ELSE 0)
    <2> DEFINE es == entries.out
               S == {i \in DOMAIN es : es[i].name = SysOutName(o)}
    <2>1. DOMAIN es = 1 .. Len(es)
      <3>1. entries["out"] \in ReadyLists
        BY <1>1 DEF ReadyInv, SigTypes, Class
      <3> QED
        BY <3>1, LenProperties DEF ReadyLists
    <2>2. NamesOf(es, DOMAIN scan.sysOut)
      BY <1>1, <1>3 DEF ReadyInv, SysOutsInv, SysOutsOnce, ScanFinds
    <2> HIDE DEF es
    <2>3. \A i, k \in S : i = k
      BY <2>1, <2>2 DEF NamesOf
    <2>4. CASE \E j \in DOMAIN scan.sysOut : scan.sysOut[j] = o
      <3>1. PICK i \in 1 .. Len(es) : es[i].name = SysOutName(o)
        BY <2>2, <2>4 DEF NamesOf
      <3>2. S = {i}
        BY <2>1, <2>3, <3>1
      <3> HIDE DEF S
      <3>3. Cardinality(S) = 1
        BY <3>2, FS_Singleton
      <3> QED
        BY <2>4, <3>3 DEF S, es
    <2>5. CASE ~ \E j \in DOMAIN scan.sysOut : scan.sysOut[j] = o
      <3>1. S = {}
        BY <2>1, <2>2, <2>5 DEF NamesOf
      <3> HIDE DEF S
      <3>2. Cardinality(S) = 0
        BY <3>1, FS_EmptySet
      <3> QED
        BY <2>5, <3>2 DEF S, es
    <2> QED
      BY <2>4, <2>5
  <1> QED
    BY <1>2, <1>3

\* The scan finds what the shader declares, and however few entries the runtime
\* hands over, and whatever their stream bytes hold, every element has exactly
\* one entry while there is room, with all its components and the type the
\* runtime gave, and every system output of a pixel shader has one
\* (tritonDxbc.c:637-725, 767-890, 984-998).
THEOREM SignaturesComplete == Spec => []SignatureComplete
  <1>1. Spec => []ReadyInv
    BY ScanInvariant, SignatureTypes, EntriesFollow, OutputStreamsCounted, SysOutsComplete, PTL DEF ReadyInv
  <1>2. ReadyInv /\ ScanExact => SignatureComplete
    BY CompleteEntries
  <1> QED
    BY <1>1, <1>2, DeclarationsFound, PTL

-----------------------------------------------------------------------------
\* Only the last of some shaders can be a pixel shader.
PixelLast(s) == \A i \in 1 .. Len(s) : i < Len(s) => s[i].stage # "PS"

\* The shaders are created in the order of the pipeline.
OrderInv ==
    /\ pending \in Seq(Shader) /\ PixelLast(pending)
    /\ phase # "idle" => pending # << >> /\ shader = Head(pending)
    /\ \A v \in 1 .. Len(created) : v < Len(created) \/ pending # << >> => created[v].shader.stage # "PS"

\* What is left of them when the first is done with.
LEMMA PixelLastTail ==
    ASSUME NEW s \in Seq(Shader), s # << >>, PixelLast(s)
    PROVE  /\ Tail(s) \in Seq(Shader) /\ PixelLast(Tail(s))
           /\ Tail(s) # << >> => Head(s).stage # "PS"
  <1>1. /\ Len(s) \in Nat /\ Tail(s) \in Seq(Shader) /\ Head(s) = s[1]
        /\ Len(Tail(s)) = Len(s) - 1 /\ \A i \in 1 .. Len(Tail(s)) : Tail(s)[i] = s[i + 1]
    BY HeadTailProperties, LenProperties
  <1>2. Len(s) # 0
    BY EmptySeq
  <1>3. \A i \in 1 .. Len(s) - 1 : i + 1 \in 1 .. Len(s) /\ (i < Len(s) - 1 => i + 1 < Len(s))
    BY <1>1
  <1>4. PixelLast(Tail(s))
    BY <1>1, <1>3 DEF PixelLast
  <1>5. ASSUME Tail(s) # << >> PROVE Head(s).stage # "PS"
    <2>1. Len(Tail(s)) # 0
      BY <1>1, <1>5, EmptySeq
    <2>2. 1 \in 1 .. Len(s) /\ 1 < Len(s)
      BY <1>1, <1>2, <2>1
    <2> QED
      BY <1>1, <2>2 DEF PixelLast
  <1> QED
    BY <1>1, <1>4, <1>5

LEMMA OrderInvInit == Init => OrderInv
  <1> SUFFICES ASSUME Init PROVE OrderInv
    OBVIOUS
  <1>1. pending \in Pipeline /\ phase = "idle" /\ created = << >>
    BY DEF Init
  <1>2. pending \in Seq(Shader) /\ \A i \in 1 .. Len(pending) - 1 : pending[i].stage # "PS"
    BY <1>1, ShaderContainerAssumption
  <1>3. Len(pending) \in Nat
    BY <1>2, LenProperties
  <1>4. \A i \in 1 .. Len(pending) : i < Len(pending) => i \in 1 .. Len(pending) - 1
    BY <1>3
  <1>5. PixelLast(pending)
    BY <1>2, <1>4 DEF PixelLast
  <1>6. \A v : ~ (v \in 1 .. Len(created))
    BY <1>1
  <1> QED
    BY <1>1, <1>2, <1>5, <1>6 DEF OrderInv

\* Every step leaves a pixel shader for the last.
LEMMA OrderInvKept == ContainerInv /\ OrderInv /\ [Next]_vars => OrderInv'
  <1> SUFFICES ASSUME ContainerInv, OrderInv, [Next]_vars PROVE OrderInv'
    OBVIOUS
  <1> DEFINE Order == \A v \in 1 .. Len(created) :
                         v < Len(created) \/ pending # << >> => created[v].shader.stage # "PS"
  <1>0. pending \in Seq(Shader) /\ PixelLast(pending) /\ Order
    BY DEF OrderInv
  <1>1. ASSUME pending' = pending, created' = created, phase' = "idle" \/ (phase # "idle" /\ shader' = shader)
        PROVE  OrderInv'
    BY <1>1 DEF OrderInv, PixelLast
  <1>2. ASSUME pending # << >>, pending' = Tail(pending), created' = created, phase' = "idle"
        PROVE  OrderInv'
    <2>1. pending' \in Seq(Shader) /\ PixelLast(pending')
      BY <1>0, <1>2, PixelLastTail
    <2>2. \A v \in 1 .. Len(created) : created[v].shader.stage # "PS"
      BY <1>0, <1>2
    <2> QED
      BY <1>2, <2>1, <2>2 DEF OrderInv
  <1>3. CASE CreateShader
    <2>1. pending' = pending /\ created' = created /\ pending # << >> /\ shader' = Head(pending)
      BY <1>3 DEF CreateShader, ScanBegins
    <2> QED
      BY <1>0, <2>1 DEF OrderInv, PixelLast
  <1>4. CASE CreateShaderRejected
    BY <1>2, <1>4 DEF CreateShaderRejected, sigVars
  <1>5. CASE Scan
    <2>1. pending' = pending /\ created' = created /\ phase = "scan" /\ shader' = shader
      BY <1>5 DEF Scan, ScanNext, ScanEnds
    <2> QED
      BY <1>1, <2>1
  <1>6. CASE Complete
    <2>1. pending' = pending /\ created' = created /\ phase # "idle" /\ shader' = shader
      BY <1>6 DEF Complete, Collect, AssignSemantics, tokenVars
    <2> QED
      BY <1>1, <2>1
  <1>7. CASE BuildDxbc \/ DeclareStreamOutput
    <2>1. pending' = pending /\ created' = created /\ phase # "idle" /\ shader' = shader
      BY <1>7 DEF BuildDxbc, DeclareStreamOutput, tokenVars
    <2> QED
      BY <1>1, <2>1
  <1>8. CASE BuildDxbcFails \/ CreateNativeFails
    <2>1. phase # "idle" /\ phase' = "idle" /\ pending' = Tail(pending) /\ created' = created
      BY <1>8 DEF BuildDxbcFails, CreateNativeFails
    <2>2. pending # << >>
      BY <2>1 DEF OrderInv
    <2> QED
      BY <1>2, <2>1, <2>2
  <1>9. CASE CreateNative
    <2> DEFINE r == [shader |-> shader, entries |-> entries, container |-> container]
               n == Len(created)
    <2>1. phase # "idle" /\ phase' = "idle" /\ pending' = Tail(pending) /\ created' = Append(created, r)
      BY <1>9 DEF CreateNative
    <2>2. pending # << >> /\ shader = Head(pending)
      BY <2>1 DEF OrderInv
    <2>3. pending' \in Seq(Shader) /\ PixelLast(pending') /\ (pending' # << >> => shader.stage # "PS")
      BY <1>0, <2>1, <2>2, PixelLastTail
    <2>4. r.shader = shader
      OBVIOUS
    <2> HIDE DEF r
    <2>5. /\ n \in Nat /\ Len(created') = n + 1 /\ created'[n + 1] = r
          /\ \A i \in 1 .. n : created'[i] = created[i]
      BY <2>1, AppendIs DEF ContainerInv, IsSequence
    <2>6. \A v \in 1 .. n : created[v].shader.stage # "PS"
      BY <1>0, <2>2
    <2> HIDE DEF n
    <2>7. \A v \in 1 .. n + 1 : v \in 1 .. n \/ (v = n + 1 /\ ~ (v < n + 1))
      BY <2>5
    <2>8. \A v \in 1 .. Len(created') :
             v < Len(created') \/ pending' # << >> => created'[v].shader.stage # "PS"
      BY <2>3, <2>4, <2>5, <2>6, <2>7
    <2> QED
      BY <2>1, <2>3, <2>8 DEF OrderInv
  <1>10. ASSUME NEW v \in DOMAIN created, NEW regs \in CreatedShader(v).layouts, ResolveElements(v, regs)
         PROVE  OrderInv'
    <2>1. pending' = pending /\ created' = created /\ phase' = "idle"
      BY <1>10 DEF ResolveElements, sigVars
    <2> QED
      BY <1>1, <2>1
  <1>11. CASE UNCHANGED vars
    <2>1. pending' = pending /\ created' = created /\ phase' = phase /\ shader' = shader
      BY <1>11 DEF vars, sigVars, tokenVars
    <2> QED
      BY <1>1, <2>1
  <1> QED
    BY <1>3, <1>4, <1>5, <1>6, <1>7, <1>8, <1>9, <1>10, <1>11 DEF Next

\* The entries of a created shader that share a component with an element have
\* its components and system value.
CreatedMatches(r) ==
    r.shader.sound =>
        \A d \in r.shader.declares : \A i \in EntriesFor(r.entries, d) :
            i \in 1 .. Len(r.entries[d.cls]) /\ r.entries[d.cls][i].mask = d.mask
            /\ r.entries[d.cls][i].sysval = d.sysval

MatchInv == \A v \in 1 .. Len(created) : CreatedMatches(created[v])

\* Every step keeps the entries of the created shaders named by register.
LEMMA MatchInvKept == ReadyInv /\ ScanExact /\ ContainerInv /\ MatchInv /\ [Next]_vars => MatchInv'
  <1> SUFFICES ASSUME ReadyInv, ScanExact, ContainerInv, MatchInv, [Next]_vars PROVE MatchInv'
    OBVIOUS
  <1>1. CASE created' = created
    <2>1. \A v \in 1 .. Len(created') : CreatedMatches(created'[v])
      BY <1>1 DEF MatchInv
    <2> QED
      BY <2>1 DEF MatchInv, CreatedMatches, EntriesFor
  <1>2. CASE CreateNative
    <2> DEFINE r == [shader |-> shader, entries |-> entries, container |-> container]
               n == Len(created)
    <2>1. phase \in ReadyPhase /\ created' = Append(created, r)
      BY <1>2 DEF CreateNative, ReadyPhase
    <2>2. ASSUME shader.sound, NEW d \in shader.declares, NEW i \in EntriesFor(entries, d)
          PROVE  /\ i \in 1 .. Len(entries[d.cls])
                 /\ entries[d.cls][i].mask = d.mask /\ entries[d.cls][i].sysval = d.sysval
      <3>1. Finished
        BY <2>1, <2>2 DEF Finished, ReadyPhase
      <3>2. WellScanned /\ entries[d.cls] \in ReadyLists /\ EntriesFromScan(entries[d.cls], d.cls)
        BY <2>2, <3>1, ReadyScanned
      <3> QED
        BY <2>2, <3>2, ElementEntries DEF Matches
    <2>3. CreatedMatches(r)
      BY <2>2 DEF CreatedMatches
    <2> HIDE DEF r
    <2>4. /\ n \in Nat /\ Len(created') = n + 1 /\ created'[n + 1] = r
          /\ \A i \in 1 .. n : created'[i] = created[i]
      BY <2>1, AppendIs DEF ContainerInv, IsSequence
    <2>5. \A v \in 1 .. n : CreatedMatches(created[v])
      BY DEF MatchInv
    <2> HIDE DEF n
    <2>6. \A v \in 1 .. n + 1 : v \in 1 .. n \/ v = n + 1
      BY <2>4
    <2>7. \A v \in 1 .. Len(created') : CreatedMatches(created'[v])
      BY <2>3, <2>4, <2>5, <2>6
    <2> QED
      BY <2>7 DEF MatchInv, CreatedMatches, EntriesFor
  <1>3. created' = created \/ CreateNative
    BY DEF Next, CreateShader, CreateShaderRejected, Scan, Complete, BuildDxbc, BuildDxbcFails, DeclareStreamOutput,
           CreateNativeFails, ResolveElements, vars
  <1> QED
    BY <1>1, <1>2, <1>3

\* The number of a place.
PlaceNumber(reg, first) == reg * 4 + first

\* No two places have one number.
LEMMA PlaceNumbers ==
    ASSUME NEW m \in Nat, NEW n \in Nat, NEW a \in 0 .. 3, NEW b \in 0 .. 3
    PROVE  PlaceNumber(m, a) = PlaceNumber(n, b) <=> m = n /\ a = b
  <1> USE DEF PlaceNumber
  <1>1. ASSUME PlaceNumber(m, a) = PlaceNumber(n, b), m < n PROVE FALSE
    <2>1. m + 1 <= n
      BY <1>1
    <2>2. (m + 1) * 4 <= n * 4
      BY <2>1
    <2> QED
      BY <1>1, <2>2
  <1>2. ASSUME PlaceNumber(m, a) = PlaceNumber(n, b), n < m PROVE FALSE
    <2>1. n + 1 <= m
      BY <1>2
    <2>2. (n + 1) * 4 <= m * 4
      BY <2>1
    <2> QED
      BY <1>2, <2>2
  <1>3. PlaceNumber(m, a) = PlaceNumber(n, b) => m = n
    BY <1>1, <1>2
  <1> QED
    BY <1>3

\* An entry for a generic element is named by the place of the element.
LEMMA EntryNamed ==
    ASSUME ContainerInv, OrderInv, MatchInv, NEW v \in 1 .. Len(created), CreatedShader(v).sound,
           NEW d \in CreatedShader(v).declares, d.sysval = 0,
           d.cls = "out" => v < Len(created),
           EntriesFor(created[v].entries, d) # {}
    PROVE  LET e == EntryFor(created[v].entries, d) IN
           /\ e.name = "ATTRIB" /\ e.semIdx = d.reg * 4 + FirstComp(d.mask)
           /\ d.reg \in Nat /\ FirstComp(d.mask) \in 0 .. 3
  <1> DEFINE r == created[v]
             e == EntryFor(r.entries, d)
             s == r.entries[d.cls]
  <1>1. DOMAIN created = 1 .. Len(created) /\ CreatedSound(r)
    <2>1. DOMAIN created = 1 .. Len(created)
      BY DEF ContainerInv, IsSequence
    <2> QED
      BY <2>1 DEF ContainerInv
  <1>2. r.shader \in Shader /\ r.shader.sound /\ d \in r.shader.declares
    BY <1>1 DEF CreatedSound, CreatedShader
  <1>3. d \in DeclaredElement
    BY <1>2, ShaderContainerAssumption DEF CompilerMade
  <1>4. d.cls \in Class /\ d.reg # NoReg
    BY <1>3 DEF DeclaredElement
  <1>5. NamedByPlace(s, d.cls, r.shader.stage)
    BY <1>1, <1>4 DEF CreatedSound
  <1>6. d.cls = "out" => r.shader.stage # "PS"
    BY DEF OrderInv
  <1>7. CreatedMatches(r)
    BY DEF MatchInv
  <1>8. PICK i \in EntriesFor(r.entries, d) : e = s[i]
    BY EntryForIs
  <1>9. i \in 1 .. Len(s) /\ s[i].mask = d.mask /\ s[i].sysval = d.sysval
    BY <1>2, <1>7, <1>8 DEF CreatedMatches
  <1>10. s[i].reg = d.reg
    BY <1>8 DEF EntriesFor, SamePlace
  <1> HIDE DEF r, e, s
  <1>11. s[i].name = "ATTRIB" /\ s[i].semIdx = s[i].reg * 4 + FirstComp(s[i].mask)
    BY <1>4, <1>5, <1>6, <1>9, <1>10 DEF NamedByPlace
  <1>12. e.name = "ATTRIB" /\ e.semIdx = d.reg * 4 + FirstComp(d.mask)
    BY <1>8, <1>9, <1>10, <1>11
  <1>13. d.reg \in Nat /\ FirstComp(d.mask) \in 0 .. 3
    <2>1. d.reg \in Nat /\ d.mask \in SUBSET Component
      BY <1>3 DEF DeclaredElement
    <2> QED
      BY <2>1, FirstCompType
  <1> QED
    BY <1>12, <1>13 DEF e, r

\* What one stage writes and the next one reads have the same name, and the same
\* index exactly when they begin at the same component of the same register, so
\* that what is packed beside it is told apart.  An element that one of them
\* declares without its first component gets another index there, which is less
\* than the source claims (tritonDxbc.c:1003-1010).
THEOREM StagesAreLinked == Spec => []StagesLink
  <1>1. Spec => []ReadyInv
    BY ScanInvariant, SignatureTypes, EntriesFollow, OutputStreamsCounted, SysOutsComplete, PTL DEF ReadyInv
  <1>2. Init => MatchInv
    <2> SUFFICES ASSUME Init PROVE MatchInv
      OBVIOUS
    <2>1. created = << >>
      BY DEF Init
    <2>2. \A v : ~ (v \in 1 .. Len(created))
      BY <2>1
    <2> QED
      BY <2>2 DEF MatchInv
  <1>3. Spec => []MatchInv
    BY <1>1, <1>2, MatchInvKept, ContainerInvariant, DeclarationsFound, PTL DEF Spec
  <1>4. Spec => []OrderInv
    BY OrderInvInit, OrderInvKept, ContainerInvariant, PTL DEF Spec
  <1>5. ContainerInv /\ OrderInv /\ MatchInv => StagesLink
    <2> SUFFICES ASSUME ContainerInv, OrderInv, MatchInv, NEW k \in 1 .. Len(created) - 1,
                        NEW x \in CreatedShader(k).declares, NEW y \in CreatedShader(k + 1).declares,
                        CreatedShader(k).sound, CreatedShader(k + 1).sound,
                        Linked(x.cls, y.cls), x.sysval = 0, y.sysval = 0,
                        EntriesFor(created[k].entries, x) # {}, EntriesFor(created[k + 1].entries, y) # {}
                 PROVE  LET e == EntryFor(created[k].entries, x)
                            f == EntryFor(created[k + 1].entries, y)
                        IN /\ e.name = f.name
                           /\ e.semIdx = f.semIdx <=> x.reg = y.reg /\ FirstComp(x.mask) = FirstComp(y.mask)
      BY DEF StagesLink
    <2>1. k \in 1 .. Len(created) /\ k < Len(created) /\ k + 1 \in 1 .. Len(created)
      BY DEF ContainerInv, IsSequence
    <2>2. y.cls # "out"
      BY DEF Linked
    <2>3. LET e == EntryFor(created[k].entries, x) IN
          /\ e.name = "ATTRIB" /\ e.semIdx = x.reg * 4 + FirstComp(x.mask)
          /\ x.reg \in Nat /\ FirstComp(x.mask) \in 0 .. 3
      BY <2>1, EntryNamed
    <2>4. LET f == EntryFor(created[k + 1].entries, y) IN
          /\ f.name = "ATTRIB" /\ f.semIdx = y.reg * 4 + FirstComp(y.mask)
          /\ y.reg \in Nat /\ FirstComp(y.mask) \in 0 .. 3
      BY <2>1, <2>2, EntryNamed
    <2>5. PlaceNumber(x.reg, FirstComp(x.mask)) = PlaceNumber(y.reg, FirstComp(y.mask)) <=>
             x.reg = y.reg /\ FirstComp(x.mask) = FirstComp(y.mask)
      BY <2>3, <2>4, PlaceNumbers
    <2>6. /\ EntryFor(created[k].entries, x).semIdx = PlaceNumber(x.reg, FirstComp(x.mask))
          /\ EntryFor(created[k + 1].entries, y).semIdx = PlaceNumber(y.reg, FirstComp(y.mask))
      BY <2>3, <2>4 DEF PlaceNumber
    <2> QED
      BY <2>3, <2>4, <2>5, <2>6
  <1> QED
    BY <1>3, <1>4, <1>5, ContainerInvariant, PTL

-----------------------------------------------------------------------------
\* The entries of a list that are known by a place are numbered by it, and those
\* that share a name and a stream are counted.
Numbered(es) ==
    /\ \A i \in 1 .. Len(es) :
          es[i].reg # NoReg /\ es[i].name = "ATTRIB" => es[i].semIdx = es[i].reg * 4 + FirstComp(es[i].mask)
    /\ \A i, j \in 1 .. Len(es) :
          /\ i < j /\ es[i].reg # NoReg /\ es[j].reg # NoReg
          /\ es[i].stream = es[j].stream /\ es[i].name = es[j].name /\ es[j].name # "ATTRIB"
          => es[i].semIdx # es[j].semIdx

\* Every entry is reported or declared, whether it has a register or not.
Sourced(es, cls) ==
    \A j \in 1 .. Len(es) :
        \E e \in EntryType :
            /\ FromReport(e, cls, Len(Ddi(cls))) \/ FromScan(e, cls)
            /\ SameElement(es[j], e, cls)

\* A later one of the same name has a higher number.
LEMMA CountGrows ==
    ASSUME NEW all \in NamedLists, NEW i \in 1 .. Len(all), NEW j \in 1 .. Len(all), i < j,
           all[i].stream = all[j].stream, all[i].name = all[j].name, all[j].name # "ATTRIB",
           all[i].semIdx = Unset, all[j].semIdx = Unset
    PROVE  SemIndex(all, i) < SemIndex(all, j)
  <1> DEFINE T(k) == {m \in 1 .. k - 1 : all[m].stream = all[k].stream /\ all[m].name = all[k].name}
  <1>1. SemIndex(all, i) = Cardinality(T(i)) /\ SemIndex(all, j) = Cardinality(T(j))
    BY DEF SemIndex, Located
  <1>2. Len(all) \in Nat /\ i - 1 \in Nat /\ j - 1 \in Nat /\ 1 \in Nat /\ i - 1 < j - 1
    BY LenProperties DEF NamedLists
  <1>3. T(i) \subseteq 1 .. i - 1 /\ T(j) \subseteq 1 .. j - 1
    OBVIOUS
  <1>4. IsFiniteSet(T(i)) /\ IsFiniteSet(T(j)) /\ Cardinality(T(i)) \in Nat /\ Cardinality(T(j)) \in Nat
    <2>1. IsFiniteSet(1 .. i - 1) /\ IsFiniteSet(1 .. j - 1)
      <3>1. \A b \in Nat : b \in Int
        OBVIOUS
      <3>2. \A b \in Nat : IsFiniteSet(1 .. b)
        BY <3>1, FS_Interval
      <3> QED
        BY <1>2, <3>2
    <2> HIDE DEF T
    <2>2. IsFiniteSet(T(i)) /\ IsFiniteSet(T(j))
      BY <1>3, <2>1, FS_Subset
    <2> QED
      BY <2>2, FS_CardinalityType
  <1>5. T(i) \subseteq T(j) /\ i \in T(j) /\ i \notin T(i)
    <2>1. i \in 1 .. j - 1 /\ ~ (i \in 1 .. i - 1) /\ \A m \in 1 .. i - 1 : m \in 1 .. j - 1
      BY <1>2
    <2> QED
      BY <2>1
  <1> HIDE DEF T
  <1>6. Cardinality(T(i)) < Cardinality(T(j))
    <2>1. T(i) # T(j)
      BY <1>5
    <2>2. Cardinality(T(i)) <= Cardinality(T(j)) /\ (Cardinality(T(i)) = Cardinality(T(j)) => T(i) = T(j))
      BY <1>4, <1>5, FS_Subset
    <2> QED
      BY <1>4, <2>1, <2>2
  <1> QED
    BY <1>1, <1>6

\* What is read of the entries when a stage other than the pixel shader has its
\* outputs numbered.
LEMMA AssignedNumbers ==
    ASSUME shader \in Shader, scan \in ScanType, NEW es \in RawLists, shader.stage # "PS",
           CompletedFor(es, "out", Len(Decls("out")))
    PROVE  Numbered(Assigned(es, "out")) /\ Sourced(Assigned(es, "out"), "out")
  <1> DEFINE acc == ResolvedAll(es, "out")
             all == acc.done
             x == Assigned(es, "out")
  <1>1. es \in EntryLists /\ es \in Seq(RawType) /\ es \in Seq(EntryType)
    BY RawAreEntries DEF RawLists
  <1>2. all \in NamedLists /\ NamedSoFar(all, es, "out", Len(es)) /\ x \in ReadyLists
    BY <1>1, ResolvedAllType, AssignedType
  <1>3. x = [i \in DOMAIN all |-> [all[i] EXCEPT !.semIdx = SemIndex(all, i)]]
    <2> DEFINE w == WithSysOuts(acc, "out")
    <2>1. w = all
      BY DEF WithSysOuts
    <2>2. x = [i \in DOMAIN w |-> [w[i] EXCEPT !.semIdx = SemIndex(w, i)]]
      BY DEF Assigned
    <2> HIDE DEF w, all, x
    <2> QED
      BY <2>1, <2>2
  <1> HIDE DEF acc, all, x
  <1>4. /\ Len(all) \in Nat /\ Len(es) = Len(all) /\ DOMAIN all = 1 .. Len(all)
        /\ \A i \in 1 .. Len(all) : all[i] \in NamedType /\ NamedFrom(all[i], es[i], "out")
    BY <1>2, LenProperties, ElementOfSeq DEF NamedLists, NamedSoFar
  <1>5. Len(x) = Len(all)
    <2>1. x = [i \in 1 .. Len(all) |-> x[i]]
      BY <1>3, <1>4
    <2> HIDE DEF x
    <2> QED
      BY <1>4, <2>1, SeqOfLength
  <1>6. ASSUME NEW i \in 1 .. Len(all)
        PROVE  /\ es[i] \in EntryType /\ es[i].semIdx = Unset
               /\ SameElement(all[i], es[i], "out") /\ SameElement(x[i], es[i], "out")
               /\ x[i].semIdx = SemIndex(all, i)
               /\ x[i].reg = all[i].reg /\ x[i].stream = all[i].stream /\ x[i].name = all[i].name
               /\ x[i].mask = all[i].mask
               /\ all[i].reg # NoReg => all[i].semIdx = Unset
    <2> DEFINE e == all[i]
               k == SemIndex(all, i)
               d == es[i]
    <2>1. e \in NamedType /\ NamedFrom(e, d, "out") /\ x[i] = [e EXCEPT !.semIdx = k]
      BY <1>3, <1>4
    <2>2. d \in RawType /\ d \in EntryType
      BY <1>1, <1>4, ElementOfSeq
    <2> HIDE DEF e, k, d
    <2>3. /\ x[i].semIdx = k /\ x[i].reg = e.reg /\ x[i].stream = e.stream /\ x[i].name = e.name
          /\ x[i].mask = e.mask /\ x[i].sysval = e.sysval /\ x[i].minPrec = e.minPrec /\ x[i].comp = e.comp
      BY <2>1 DEF NamedType, EntryType
    <2>4. SameElement(e, d, "out") /\ SameElement(x[i], d, "out")
      BY <2>1, <2>3 DEF NamedFrom, SameElement
    <2>5. e.reg # NoReg => e.semIdx = Unset
      <3>1. ~ IsTarget("out", d.sysval)
        BY DEF IsTarget
      <3> QED
        BY <2>1, <2>2, <2>4, <3>1 DEF NamedFrom, SameElement, RawType
    <2>6. d.semIdx = Unset
      BY <2>2 DEF RawType
    <2> QED
      BY <2>2, <2>3, <2>4, <2>5, <2>6 DEF e, k, d
  <1>7. ASSUME NEW i \in 1 .. Len(x), x[i].reg # NoReg, x[i].name = "ATTRIB"
        PROVE  x[i].semIdx = x[i].reg * 4 + FirstComp(x[i].mask)
    <2>1. all[i].semIdx = Unset /\ Located(all[i]) /\ x[i].semIdx = SemIndex(all, i)
          /\ x[i].reg = all[i].reg /\ x[i].mask = all[i].mask
      BY <1>5, <1>6, <1>7 DEF Located
    <2> QED
      BY <2>1 DEF SemIndex
  <1>8. ASSUME NEW i \in 1 .. Len(x), NEW j \in 1 .. Len(x), i < j, x[i].reg # NoReg, x[j].reg # NoReg,
               x[i].stream = x[j].stream, x[i].name = x[j].name, x[j].name # "ATTRIB"
        PROVE  x[i].semIdx # x[j].semIdx
    <2>1. i \in 1 .. Len(all) /\ j \in 1 .. Len(all)
      BY <1>5
    <2>2. /\ all[i].semIdx = Unset /\ all[j].semIdx = Unset
          /\ all[i].stream = all[j].stream /\ all[i].name = all[j].name /\ all[j].name # "ATTRIB"
          /\ x[i].semIdx = SemIndex(all, i) /\ x[j].semIdx = SemIndex(all, j)
      BY <1>6, <1>8, <2>1
    <2>3. SemIndex(all, i) < SemIndex(all, j)
      BY <1>2, <1>8, <2>1, <2>2, CountGrows
    <2>4. SemIndex(all, i) \in Nat /\ SemIndex(all, j) \in Nat
      BY <1>2, <2>1, SemIndexType
    <2> QED
      BY <2>2, <2>3, <2>4
  <1>9. Sourced(x, "out")
    <2>1. \A j \in 1 .. Len(es) : FromReport(es[j], "out", Len(Ddi("out"))) \/ FromScan(es[j], "out")
      BY DEF CompletedFor
    <2> QED
      BY <1>4, <1>5, <1>6, <2>1 DEF Sourced
  <1>10. Numbered(x)
    BY <1>7, <1>8 DEF Numbered
  <1> QED
    BY <1>9, <1>10 DEF x

\* The outputs of a stage before the pixel shader keep their numbers.
NumbersInv ==
    phase \in ReadyPhase /\ shader.stage # "PS" => Numbered(entries.out) /\ Sourced(entries.out, "out")

\* Every step keeps the outputs numbered apart.
LEMMA NumbersInvKept == ScanInv /\ SigTypes /\ EntriesInv /\ NumbersInv /\ [Next]_vars => NumbersInv'
  <1> SUFFICES ASSUME ScanInv, SigTypes, EntriesInv, NumbersInv, [Next]_vars PROVE NumbersInv'
    OBVIOUS
  <1>0. shader \in Shader /\ scan \in ScanType
    BY DEF ScanInv, SigTypes
  <1>1. ASSUME phase' \notin ReadyPhase PROVE NumbersInv'
    BY <1>1 DEF NumbersInv, ReadyPhase
  <1>2. ASSUME UNCHANGED tokenVars PROVE \A es, cls : Sourced(es, cls)' = Sourced(es, cls)
    <2>1. shader' = shader /\ scan' = scan
      BY <1>2 DEF tokenVars
    <2>2. \A cls : Ddi(cls)' = Ddi(cls) /\ Decls(cls)' = Decls(cls) /\ Streams(cls)' = Streams(cls)
      BY <2>1 DEF Ddi, Read, Stride, Decls, Streams
    <2>3. \A cls, v : PickName(cls, v)' = PickName(cls, v)
      BY <2>1 DEF PickName, IsTarget
    <2>4. \A cls, d : Synthesised(cls, d)' = Synthesised(cls, d)
      BY <2>2 DEF Synthesised, TypedBy
    <2>5. \A x, cls, m : FromReport(x, cls, m)' = FromReport(x, cls, m)
      BY <2>2 DEF FromReport
    <2>6. \A x, cls : FromScan(x, cls)' = FromScan(x, cls)
      BY <2>2, <2>4 DEF FromScan
    <2>7. \A x, e, cls : SameElement(x, e, cls)' = SameElement(x, e, cls)
      BY <2>3 DEF SameElement
    <2> QED
      BY <2>2, <2>5, <2>6, <2>7 DEF Sourced
  <1>3. ASSUME UNCHANGED tokenVars, entries' = entries, phase' \in ReadyPhase => phase \in ReadyPhase
        PROVE  NumbersInv'
    <2>1. shader' = shader
      BY <1>3 DEF tokenVars
    <2>2. Sourced(entries.out, "out")' = Sourced(entries.out, "out")
      BY <1>2, <1>3
    <2> QED
      BY <1>3, <2>1, <2>2 DEF NumbersInv, Numbered, ReadyPhase
  <1>4. CASE AssignSemantics
    <2>1. /\ UNCHANGED tokenVars /\ phase = "collected"
          /\ entries' = [c \in Class |-> Assigned(entries[c], c)]
      BY <1>4 DEF AssignSemantics
    <2>2. "out" \in Classes /\ "out" \in Class /\ shader' = shader
      BY <2>1 DEF Classes, Class, tokenVars
    <2>3. entries.out \in RawLists /\ CompletedFor(entries.out, "out", Len(Decls("out")))
      BY <2>1, <2>2 DEF SigTypes, EntriesInv
    <2>4. entries'.out = Assigned(entries.out, "out")
      BY <2>1, <2>2
    <2>5. shader.stage # "PS" => Numbered(entries'.out) /\ Sourced(entries'.out, "out")
      BY <1>0, <2>3, <2>4, AssignedNumbers
    <2>6. Sourced(entries.out, "out")' = Sourced(entries'.out, "out")
      BY <1>2, <2>1
    <2> QED
      BY <2>2, <2>5, <2>6 DEF NumbersInv, Numbered
  <1>5. CASE CreateShader \/ Scan \/ Collect
    BY <1>1, <1>5 DEF CreateShader, Scan, Collect, ReadyPhase
  <1>6. CASE BuildDxbc \/ DeclareStreamOutput
    BY <1>3, <1>6 DEF BuildDxbc, DeclareStreamOutput, ReadyPhase
  <1>7. CASE BuildDxbcFails \/ CreateNative \/ CreateNativeFails \/ CreateShaderRejected
    BY <1>1, <1>7 DEF BuildDxbcFails, CreateNative, CreateNativeFails, CreateShaderRejected, sigVars, ReadyPhase
  <1>8. ASSUME NEW v \in DOMAIN created, NEW regs \in CreatedShader(v).layouts, ResolveElements(v, regs)
        PROVE  NumbersInv'
    BY <1>3, <1>8 DEF ResolveElements, sigVars
  <1>9. CASE UNCHANGED vars
    BY <1>3, <1>9 DEF vars, sigVars
  <1> QED
    BY <1>4, <1>5, <1>6, <1>7, <1>8, <1>9 DEF Next, Complete

\* Whatever is reported and declared, no two outputs of a stage that share a
\* stream and a name are given the same number, or else they are known by their
\* place and have that (tritonDxbc.c:949-975).
THEOREM OutputsNumbered == Spec => []NumbersInv
  <1>1. Init => NumbersInv
    BY DEF Init, NumbersInv, ReadyPhase
  <1> QED
    BY <1>1, NumbersInvKept, ScanInvariant, SignatureTypes, EntriesFollow, PTL DEF Spec

-----------------------------------------------------------------------------
\* In a geometry shader that a compiler made every output has a register, and a
\* stream other than the first only where the chunk tells it.
LEMMA OutputsPlaced ==
    ASSUME WellScanned, shader.stage = "GS", NEW es, Sourced(es, "out"), NEW j \in 1 .. Len(es)
    PROVE  /\ es[j].reg # NoReg
           /\ ~ HasStream(Tag("out")) => es[j].stream = 0
  <1>1. PICK e \in EntryType :
           /\ FromReport(e, "out", Len(Ddi("out"))) \/ FromScan(e, "out")
           /\ SameElement(es[j], e, "out")
    BY DEF Sourced
  <1>2. es[j].reg = e.reg /\ es[j].stream = e.stream
    BY <1>1 DEF SameElement
  <1>3. CompilerMade(shader) /\ "out" \in Class
    BY SoundShader DEF Class
  <1>4. ASSUME NEW k \in 1 .. Len(Decls("out"))
        PROVE  /\ Decls("out")[k].reg # NoReg
               /\ ~ HasStream(Tag("out")) => Decls("out")[k].stream = 0
    <2>1. k \in DOMAIN scan["out"] /\ Decls("out")[k] = scan["out"][k]
      BY <1>3, DeclsType DEF WellScanned, Decls
    <2>2. PICK d \in shader.declares : d.cls = "out" /\ ScannedAs(scan["out"][k], d)
      BY <1>3, <2>1 DEF WellScanned, ScanFinds
    <2>3. d \in DeclaredElement /\ d.reg # NoReg /\ scan["out"][k].reg = d.reg /\ scan["out"][k].stream = d.stream
      BY <2>2, SoundShader DEF DeclaredElement, ScannedAs, SamePlace
    <2>4. ~ HasStream(Tag("out")) => ~ (shader.major >= 5)
      BY DEF HasStream, Tag
    <2>5. d.stream # 0 => shader.major >= 5
      BY <1>3 DEF CompilerMade
    <2> QED
      BY <2>1, <2>3, <2>4, <2>5
  <1>5. CASE FromScan(e, "out")
    <2>1. PICK k \in 1 .. Len(Decls("out")) : e = Synthesised("out", Decls("out")[k])
      BY <1>5 DEF FromScan
    <2>2. e.reg = Decls("out")[k].reg /\ e.stream = Decls("out")[k].stream
      BY <2>1 DEF Synthesised, Entry
    <2> QED
      BY <1>2, <1>4, <2>2
  <1>6. CASE FromReport(e, "out", Len(Ddi("out")))
    <2>1. PICK k \in 1 .. Len(Ddi("out")) :
             /\ e = Entry(Ddi("out")[k], IF Streams("out") > 1 THEN Ddi("out")[k].stream ELSE 0,
                          Ddi("out")[k].comp, Ddi("out")[k].minPrec)
             /\ Streams("out") > 1 => \E i \in 1 .. Len(Decls("out")) : SamePlace(Decls("out")[i], e)
      BY <1>6 DEF FromReport
    <2>2. /\ e.reg = Ddi("out")[k].reg
          /\ e.stream = IF Streams("out") > 1 THEN Ddi("out")[k].stream ELSE 0
      BY <2>1 DEF Entry
    <2>3. e.reg # NoReg
      <3>1. k \in DOMAIN shader.ddi["out"] /\ Ddi("out")[k] = Read(shader.ddi["out"][k])
        BY <1>3, DdiIs DEF WellScanned
      <3>2. shader.ddi["out"][k].reg # NoReg
        BY <1>3, <3>1 DEF CompilerMade
      <3>3. Ddi("out")[k].reg = shader.ddi["out"][k].reg
        BY <3>1 DEF Read
      <3> QED
        BY <2>2, <3>2, <3>3
    <2>4. ~ HasStream(Tag("out")) => e.stream = 0
      <3>1. CASE Streams("out") > 1
        <4>1. PICK i \in 1 .. Len(Decls("out")) : SamePlace(Decls("out")[i], e)
          BY <2>1, <3>1
        <4> QED
          BY <1>4, <4>1 DEF SamePlace
      <3>2. CASE ~ (Streams("out") > 1)
        BY <2>2, <3>2
      <3> QED
        BY <3>1, <3>2
    <2> QED
      BY <1>2, <2>3, <2>4
  <1> QED
    BY <1>1, <1>5, <1>6

\* The least of two numbers, if the first is less.
LEMMA LeastOfBoth ==
    ASSUME NEW a \in Nat, NEW b \in Nat, a < b
    PROVE  Min({a} \union {b}) = a
  <1> DEFINE m == Min({a, b})
  <1>1. m \in Nat /\ m <= a /\ m \in {a, b}
    BY MinOfTwo
  <1> HIDE DEF m
  <1>2. m = a
    BY <1>1
  <1>3. {a} \union {b} = {a, b}
    OBVIOUS
  <1> QED
    BY <1>2, <1>3 DEF m

\* The search finds the one entry that has the component.
LEMMA FindSigIs ==
    ASSUME NEW sigs, NEW n \in Nat, Len(sigs) = n, DOMAIN sigs = 1 .. n, NEW stream, NEW reg, NEW comp,
           NEW k \in 1 .. n,
           \A i \in 1 .. n : sigs[i].stream = stream /\ sigs[i].reg = reg /\ comp \in sigs[i].mask <=> i = k
    PROVE  FindSig(sigs, stream, reg, comp) = k
  <1> DEFINE same == {i \in DOMAIN sigs : sigs[i].stream = stream /\ sigs[i].reg = reg}
             covering == {i \in same : comp \in sigs[i].mask}
  <1>1. covering = {k}
    OBVIOUS
  <1>2. FindSig(sigs, stream, reg, comp) = Min((IF covering # {} THEN covering ELSE same) \union {n + 1})
    BY DEF FindSig
  <1> HIDE DEF covering, same
  <1>3. FindSig(sigs, stream, reg, comp) = Min({k} \union {n + 1})
    BY <1>1, <1>2
  <1>4. k \in Nat /\ n + 1 \in Nat /\ k < n + 1
    OBVIOUS
  <1>5. Min({k} \union {n + 1}) = k
    BY <1>4, LeastOfBoth
  <1> QED
    BY <1>3, <1>5

\* The component is counted from the first of the element.
LEMMA StartInside ==
    ASSUME NEW mask \in SUBSET Component, NEW start \in mask
    PROVE  /\ start \in 0 .. 3 /\ Start(mask) \in mask /\ FirstComp(mask) = Start(mask)
           /\ start - Min({start, Start(mask)}) + FirstComp(mask) = start
  <1> DEFINE m == Start(mask)
             k == Min({start, m})
  <1>1. mask \in SUBSET Nat /\ mask # {} /\ start \in 0 .. 3
    BY DEF Component
  <1>2. m = Min(mask) /\ FirstComp(mask) = m
    BY <1>1 DEF Start, FirstComp
  <1>3. m \in mask /\ m \in Nat /\ m <= start
    <2> HIDE DEF m
    <2> QED
      BY <1>1, <1>2, MinOf
  <1>4. k \in Nat /\ k <= m /\ k \in {start, m}
    <2> HIDE DEF m
    <2> QED
      BY <1>1, <1>3, MinOfTwo
  <1> HIDE DEF m, k
  <1>5. k = m /\ start - m + m = start
    BY <1>1, <1>3, <1>4
  <1> QED
    BY <1>1, <1>2, <1>3, <1>5 DEF m, k

\* No two entries in a stream have the same name and number.
LEMMA NumbersDiffer ==
    ASSUME WellScanned, NEW es \in ReadyLists, EntriesFromScan(es, "out"), Numbered(es),
           \A i \in 1 .. Len(es) : es[i].reg # NoReg,
           NEW i \in 1 .. Len(es), NEW j \in 1 .. Len(es),
           es[i].stream = es[j].stream, es[i].name = es[j].name, es[i].semIdx = es[j].semIdx
    PROVE  i = j
  <1> SUFFICES ASSUME i # j PROVE FALSE
    OBVIOUS
  <1>1. Len(es) \in Nat /\ es \in Seq(ReadyType) /\ "out" \in Class
    BY LenProperties DEF ReadyLists, Class
  <1>2. CASE es[i].name # "ATTRIB"
    <2>1. i < j \/ j < i
      BY <1>1
    <2> QED
      BY <1>2, <2>1 DEF Numbered
  <1>3. CASE es[i].name = "ATTRIB"
    <2> DEFINE x == es[i]
               y == es[j]
               a == FirstComp(x.mask)
               b == FirstComp(y.mask)
    <2>1. x \in ReadyType /\ y \in ReadyType
      BY <1>1, ElementOfSeq
    <2>2. x.reg \in Nat /\ y.reg \in Nat /\ x.mask \in SUBSET Component /\ y.mask \in SUBSET Component
      BY <2>1 DEF ReadyType, NamedType, EntryType
    <2>3. x.reg * 4 + a = y.reg * 4 + b
      BY <1>3 DEF Numbered
    <2>4. From(x, "out") /\ From(y, "out") /\ x.reg # NoReg /\ y.reg # NoReg
      BY DEF EntriesFromScan
    <2>5. x.mask # {} /\ y.mask # {}
      BY <1>1, <2>4, EntryMask
    <2>6. a \in 0 .. 3 /\ b \in 0 .. 3 /\ a \in x.mask /\ b \in y.mask
      BY <2>2, <2>5, FirstCompType
    <2>7. x.reg = y.reg /\ a = b
      <3> DEFINE p == x.reg
                 q == y.reg
      <3>1. p \in Nat /\ q \in Nat /\ a \in 0 .. 3 /\ b \in 0 .. 3 /\ p * 4 + a = q * 4 + b
        BY <2>2, <2>3, <2>6
      <3> HIDE DEF p, q, a, b
      <3>2. p = q /\ a = b
        BY <3>1
      <3> QED
        BY <3>2 DEF p, q
    <2>8. Apart(x, y)
      BY <1>1, ReportIsDistinct DEF EntriesFromScan, NoTwice
    <2>9. SamePlace(x, y) /\ Overlap(x.mask, y.mask)
      BY <2>6, <2>7 DEF SamePlace, Overlap
    <2> QED
      BY <2>4, <2>8, <2>9 DEF Apart
  <1> QED
    BY <1>2, <1>3

-----------------------------------------------------------------------------
\* The state when the stream output is declared.
DeclaredInv == ReadyInv /\ NumbersInv /\ ContainerInv

\* The entries of a declaration are those of the elements they are for.
LEMMA DeclarationFinds ==
    ASSUME DeclaredInv, ScanExact, phase = "declared", shader.sound,
           NEW i \in DOMAIN soDecl, NEW d \in shader.declares,
           d.cls = "out", SamePlace(d, SoSource[i]), Start(SoSource[i].mask) \in d.mask,
           EntriesFor(entries, d) # {}
    PROVE  LET e == EntryFor(entries, d) IN
           /\ soDecl[i].name = e.name /\ soDecl[i].semIdx = e.semIdx
           /\ soDecl[i].start + FirstComp(e.mask) = Start(SoSource[i].mask)
           /\ Cardinality({k \in DOMAIN entries.out :
                              /\ entries.out[k].stream = soDecl[i].stream
                              /\ entries.out[k].name = soDecl[i].name
                              /\ entries.out[k].semIdx = soDecl[i].semIdx}) = 1
  <1> DEFINE es == entries.out
             n == Len(es)
             sigs == ParseSig(container, FALSE)
             src == SoSource[i]
             start == Start(src.mask)
  <1>1. Finished /\ phase \in ReadyPhase
    BY DEF Finished, ReadyPhase
  <1>2. /\ WellScanned /\ es \in ReadyLists /\ EntriesFromScan(es, "out")
    <2>1. WellScanned /\ entries[d.cls] \in ReadyLists /\ EntriesFromScan(entries[d.cls], d.cls)
      BY <1>1, ReadyScanned DEF DeclaredInv
    <2> QED
      BY <2>1
  <1>3. shader \in Shader /\ shader.stage = "GS"
    <2>1. shader \in Shader /\ WithSo(shader)
      BY <1>2 DEF WellScanned, DeclaredInv, ContainerInv
    <2> QED
      BY <2>1, ShaderContainerAssumption DEF WithSo
  <1>4. Numbered(es) /\ Sourced(es, "out")
    BY <1>1, <1>3 DEF DeclaredInv, NumbersInv
  <1>5. \A j \in 1 .. n : es[j].reg # NoReg /\ (~ HasStream(Tag("out")) => es[j].stream = 0)
    BY <1>2, <1>3, <1>4, OutputsPlaced
  <1>6. soDecl[i] = SoEntry(sigs, src)
    <2>1. soDecl = [j \in DOMAIN SoSource |-> SoEntry(sigs, SoSource[j])]
      BY DEF DeclaredInv, ContainerInv
    <2> HIDE DEF sigs
    <2> QED
      BY <2>1
  <1>7. Reads(sigs, es) /\ StreamsRead(sigs, es, Tag("out"))
    <2>1. container = Made(Chunks) /\ \A c \in Class : entries[c] \in ReadyLists
      BY <1>1 DEF DeclaredInv, ContainerInv, ReadyInv, SigTypes
    <2> QED
      BY <1>3, <2>1, ContainerReads
  <1> HIDE DEF sigs, src
  <1>8. /\ n \in Nat /\ Len(sigs) = n /\ DOMAIN sigs = 1 .. n /\ DOMAIN es = 1 .. n
        /\ \A j \in 1 .. n :
              /\ sigs[j].stream = es[j].stream /\ sigs[j].reg = es[j].reg /\ sigs[j].mask = es[j].mask
              /\ sigs[j].name = es[j].name /\ sigs[j].semIdx = es[j].semIdx
    BY <1>2, <1>5, <1>7, LenProperties DEF Reads, StreamsRead, ReadyLists
  <1>9. /\ \A j \in EntriesFor(entries, d) : j \in 1 .. n /\ Matches(es[j], d)
        /\ \A j, m \in EntriesFor(entries, d) : j = m
    BY <1>2, ElementEntries
  <1>10. PICK k \in EntriesFor(entries, d) : EntryFor(entries, d) = es[k]
    BY EntryForIs
  <1>11. k \in 1 .. n /\ es[k].mask = d.mask /\ es[k].stream = src.stream /\ es[k].reg = src.reg
    BY <1>9, <1>10 DEF Matches, EntriesFor, SamePlace, src
  <1>12. d.mask \in SUBSET Component /\ start \in d.mask
    BY <1>2, SoundShader DEF DeclaredElement, src
  <1> HIDE DEF start, es, n
  <1>13. \A j \in 1 .. n :
            sigs[j].stream = src.stream /\ sigs[j].reg = src.reg /\ start \in sigs[j].mask <=> j = k
    <2>1. ASSUME NEW j \in 1 .. n, sigs[j].stream = src.stream, sigs[j].reg = src.reg, start \in sigs[j].mask
          PROVE  j = k
      <3>1. SamePlace(es[j], d) /\ Overlap(es[j].mask, d.mask)
        BY <1>8, <1>12, <2>1 DEF SamePlace, Overlap, src
      <3>2. j \in EntriesFor(entries, d)
        BY <1>8, <3>1 DEF EntriesFor, es
      <3> QED
        BY <1>9, <1>10, <3>2
    <2> QED
      BY <1>8, <1>11, <1>12, <2>1
  <1>14. FindSig(sigs, src.stream, src.reg, start) = k
    BY <1>8, <1>11, <1>13, FindSigIs
  <1>15. /\ soDecl[i].stream = src.stream /\ soDecl[i].name = es[k].name /\ soDecl[i].semIdx = es[k].semIdx
         /\ soDecl[i].start = start - Min({start, Start(es[k].mask)})
    <2>1. ~ (k > Len(sigs))
      BY <1>8, <1>11
    <2>2. soDecl[i] = [stream |-> src.stream, name |-> sigs[k].name, semIdx |-> sigs[k].semIdx,
                       start |-> start - Min({start, Start(sigs[k].mask)}),
                       count |-> Cardinality(src.mask), slot |-> src.slot]
      BY <1>6, <1>14, <2>1 DEF SoEntry, start
    <2>3. sigs[k].name = es[k].name /\ sigs[k].semIdx = es[k].semIdx /\ sigs[k].mask = es[k].mask
      BY <1>8, <1>11
    <2> QED
      BY <2>2, <2>3
  <1>16. soDecl[i].start + FirstComp(es[k].mask) = start
    <2>1. start - Min({start, Start(d.mask)}) + FirstComp(d.mask) = start
      BY <1>12, StartInside
    <2> QED
      BY <1>11, <1>15, <2>1
  <1>17. Cardinality({j \in DOMAIN es : /\ es[j].stream = soDecl[i].stream /\ es[j].name = soDecl[i].name
                                        /\ es[j].semIdx = soDecl[i].semIdx}) = 1
    <2> DEFINE S == {j \in DOMAIN es : /\ es[j].stream = soDecl[i].stream /\ es[j].name = soDecl[i].name
                                       /\ es[j].semIdx = soDecl[i].semIdx}
    <2>1. k \in S
      BY <1>8, <1>11, <1>15
    <2>2. ASSUME NEW j \in S PROVE j = k
      <3>1. j \in 1 .. n /\ es[j].stream = es[k].stream /\ es[j].name = es[k].name /\ es[j].semIdx = es[k].semIdx
        BY <1>8, <1>11, <1>15, <2>2
      <3>2. \A m \in 1 .. Len(es) : es[m].reg # NoReg
        BY <1>5 DEF n
      <3> QED
        BY <1>2, <1>4, <1>11, <3>1, <3>2, NumbersDiffer DEF n
    <2> HIDE DEF S
    <2>3. S = {k}
      BY <2>1, <2>2
    <2>4. Cardinality(S) = 1
      BY <2>3, FS_Singleton
    <2> QED
      BY <2>4 DEF S
  <1> QED
    BY <1>10, <1>15, <1>16, <1>17 DEF es, start, src

\* What is declared for the host is what the entries say.
LEMMA ReadersFind == DeclaredInv /\ ScanExact => ReadersFindElements
  <1> SUFFICES ASSUME DeclaredInv, ScanExact PROVE ReadersFindElements
    OBVIOUS
  <1>1. ASSUME layoutSig # Nothing, NEW i \in DOMAIN layoutSig.elements
        PROVE  LET x == layoutSig.elements[i] IN
               \E k \in DOMAIN created[layoutSig.vs].entries.in :
                  LET e == created[layoutSig.vs].entries.in[k] IN
                  e.reg = x.reg /\ e.name = x.name /\ e.semIdx = x.semIdx
    <2> DEFINE es == created[layoutSig.vs].entries.in
               ls == layoutSig.elements
    <2>1. layoutSig.vs \in DOMAIN created /\ LayoutNames(ls, es)
      BY <1>1 DEF DeclaredInv, ContainerInv
    <2>2. DOMAIN es = 1 .. Len(es)
      <3>1. created[layoutSig.vs].entries["in"] \in ReadyLists
        BY <2>1 DEF DeclaredInv, ContainerInv, CreatedSound, Class
      <3> QED
        BY <3>1, LenProperties DEF ReadyLists
    <2>3. i \in 1 .. Len(ls)
      BY <1>1, <2>1 DEF LayoutNames, HasNames
    <2> HIDE DEF es, ls
    <2>4. PICK k \in 1 .. Len(es) : es[k].reg = ls[i].reg /\ es[k].name = ls[i].name /\ es[k].semIdx = ls[i].semIdx
      BY <2>1, <2>3 DEF LayoutNames
    <2> QED
      BY <2>2, <2>4 DEF es, ls
  <1>2. ASSUME phase = "declared", shader.sound, NEW i \in DOMAIN soDecl, NEW d \in shader.declares,
               d.cls = "out", SamePlace(d, SoSource[i]), Start(SoSource[i].mask) \in d.mask,
               EntriesFor(entries, d) # {}
        PROVE  LET e == EntryFor(entries, d) IN
               /\ soDecl[i].name = e.name /\ soDecl[i].semIdx = e.semIdx
               /\ soDecl[i].start + FirstComp(e.mask) = Start(SoSource[i].mask)
               /\ Cardinality({k \in DOMAIN entries.out :
                                  /\ entries.out[k].stream = soDecl[i].stream
                                  /\ entries.out[k].name = soDecl[i].name
                                  /\ entries.out[k].semIdx = soDecl[i].semIdx}) = 1
    BY <1>2, DeclarationFinds
  <1> QED
    BY <1>1, <1>2 DEF ReadersFindElements

\* Every entry of a stream-output declaration names the one element that holds
\* its first component, and every element of an input layout the name its
\* register has in the vertex shader (tritonShader.c:374-493, 597-644, 759-787).
THEOREM ReadersFindTheirElements == Spec => []ReadersFindElements
  <1>1. Spec => []DeclaredInv
    BY ScanInvariant, SignatureTypes, EntriesFollow, OutputStreamsCounted, SysOutsComplete, OutputsNumbered,
       ContainerInvariant, PTL DEF DeclaredInv, ReadyInv
  <1> QED
    BY <1>1, ReadersFind, DeclarationsFound, PTL
=============================================================================

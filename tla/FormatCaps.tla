----------------------------- MODULE FormatCaps -----------------------------
(***************************************************************************)
(* Format support and multisample quality (tritonQuery.c).  Threads of any *)
(* device ask tritonCheckFormatSupport and                                 *)
(* tritonCheckMultisampleQualityLevels; both answer from caches that the   *)
(* whole process shares, and a multisample answer is worked out for all    *)
(* members of a typeless family at once and published one by one.  What    *)
(* the host says is fixed, but a query of it can be lost on the way.       *)
(***************************************************************************)
EXTENDS Integers, Sequences, FiniteSets, SequencesExt, FiniteSetsExt

CONSTANTS
    Thread,
    Format,              \* formats below 256: all of them are cached
    Families,            \* k_msaaGroups, each family in the order of its row
    Forbidden,           \* tritonMsaaForbidden
    ReadOnly,            \* tritonMsaaReadOnlyDepthView
    Setting,             \* what the host says, what is blacklisted, what can be lost
    Count,               \* the sample counts that are asked for
    Invalid,             \* a cache entry without TRITON_CACHE_VALID
    MaxUint,             \* the greatest quality a host can tell
    MaxCalls             \* bound on the calls of a behaviour

Bit == {"sample", "rt", "blend", "ds", "ms", "load"}

Uint == 0 .. MaxUint

Cacheable == (Count \union {4}) \intersect 0 .. 32

ASSUME FormatCapsAssumption ==
    /\ Families \subseteq Seq(Format) /\ Count \subseteq Nat
    /\ \A g, h \in Families : g # h => ToSet(g) \intersect ToSet(h) = {}
    /\ ReadOnly \subseteq Forbidden /\ Forbidden \subseteq Format
    /\ \A f \in ReadOnly : \E g \in Families : f \in ToSet(g)
    /\ \A w \in Setting :
          /\ \A f \in Format : w.host[f].bits \subseteq Bit \ {"load"}
                               /\ w.host[f].quality \in [Cacheable -> Uint]
          /\ w.blacklisted \subseteq Format
          /\ w.losable \subseteq Format
    /\ MaxUint \in Nat \ {0} /\ MaxCalls \in Nat

VARIABLES
    setting,             \* the one that is true; it never changes
    msaaCache,           \* s_msaaCache
    fmtCache,            \* s_fmtCache
    call,                \* the call each thread is in
    calls,               \* the number of calls made
    masks, levels        \* the answers given so far

vars == <<setting, msaaCache, fmtCache, call, calls, masks, levels>>

Idle == [pc |-> "idle"]

\* The host's answer for each format: support bits and quality levels.
host == setting.host

\* tritonMsaaBlacklisted
Blacklisted == setting.blacklisted

\* tritonMsaaGroup: the family's row, or the empty one of a standalone format.
Group(f) ==
    IF \E g \in Families : f \in ToSet(g)
    THEN CHOOSE g \in Families : f \in ToSet(g)
    ELSE << >>

\* The formats whose query fails in a step; the caller takes that for "no".
Losses == SUBSET setting.losable

\* Mutant: the quality is believed without the host's multisample bit.
NativeUngated(f, n, lost) == IF f \in lost THEN 0 ELSE host[f].quality[n]

\* tritonNativeMsaaQuality
Native(f, n, lost) ==
    IF f \in lost \/ "ms" \notin host[f].bits THEN 0 ELSE host[f].quality[n]

\* tritonHostRenderTargetable
RenderTargetable(f, lost) == f \notin lost /\ {"rt", "ds"} \intersect host[f].bits # {}

\* Mutant: the typeless parent's own mapping raises the family's value.
FamilyMaxOfAll(f, n, lost) == Max({Native(m, n, lost) : m \in ToSet(Group(f))} \union {0})

\* The greatest quality among the typed targets of the family.
FamilyMax(f, n, lost) ==
    Max({Native(m, n, lost) : m \in ToSet(Group(f)) \ Forbidden} \union {0})

\* What the family loop publishes for a member.
Published(m, n, famMax, lost) ==
    IF m \notin ReadOnly /\ RenderTargetable(m, lost) THEN famMax ELSE 0

\* tritonMsaaFamilyQuality
FamilyQuality(f, n, lost) ==
    IF Group(f) = << >> THEN Native(f, n, lost) ELSE FamilyMax(f, n, lost)

\* Mutant: the host's bits are forwarded as they are.
TranslateVerbatim(s) == s

\* tritonTranslateFormatSupport: no multisample bits, no depth bit in the DDI.
Translate(s) == IF "rt" \in s THEN s \ {"ds", "ms"} ELSE s \ {"ds", "ms", "blend"}

\* The end of tritonCheckFormatSupport; q is the quality at four samples.
Mask(f, q, lost) ==
    LET caps == Translate(host[f].bits)
        targetable == "rt" \in caps \/ "ds" \in host[f].bits
    IN  IF q > 0 /\ targetable THEN caps \union {"ms", "load"}
        ELSE IF f \in ReadOnly /\ FamilyQuality(f, 4, lost) > 0 THEN caps \union {"load"}
        ELSE caps

Init ==
    /\ setting \in Setting
    /\ msaaCache = [f \in Format |-> [n \in Cacheable |-> Invalid]]
    /\ fmtCache = [f \in Format |-> Invalid]
    /\ call = [t \in Thread |-> Idle]
    /\ calls = 0
    /\ masks = {} /\ levels = {}

-----------------------------------------------------------------------------
Begin(t) ==
    /\ call[t].pc = "idle" /\ calls < MaxCalls
    /\ \E f \in Format :
          \/ call' = [call EXCEPT ![t] = [pc |-> "support", op |-> "support", fmt |-> f, n |-> 4]]
          \/ \E n \in Count :
                call' = [call EXCEPT ![t] = [pc |-> "support", op |-> "levels", fmt |-> f, n |-> n]]
    /\ calls' = calls + 1
    /\ UNCHANGED <<setting, msaaCache, fmtCache, masks, levels>>

\* *pNumQualityLevels = q
ReturnLevels(t, q) ==
    /\ levels' = levels \union {<<call[t].fmt, call[t].n, q>>}
    /\ call' = [call EXCEPT ![t] = Idle]
    /\ UNCHANGED masks

\* The support mask is known: tritonCheckFormatSupport returns it, or
\* tritonCheckMultisampleQualityLevels goes on with it.
SupportAnswered(t, mask) ==
    LET c == call[t] IN
    \/ /\ c.op = "support"
       /\ masks' = masks \union {<<c.fmt, mask>>}
       /\ call' = [call EXCEPT ![t] = Idle]
       /\ UNCHANGED levels
    \/ /\ c.op = "levels" /\ "ms" \notin mask
       /\ ReturnLevels(t, IF c.n <= 1 /\ mask # {} THEN 1 ELSE 0)
    \/ /\ c.op = "levels" /\ "ms" \in mask
       /\ call' = [call EXCEPT ![t] = [@ EXCEPT !.pc = "levels"]]
       /\ UNCHANGED <<masks, levels>>

\* tritonCheckFormatSupport up to its use of tritonMsaaQuality.
CheckFormatSupport(t) ==
    /\ call[t].pc = "support"
    /\ LET f == call[t].fmt IN
       \/ /\ fmtCache[f] # Invalid
          /\ SupportAnswered(t, fmtCache[f])
       \/ /\ fmtCache[f] = Invalid
          /\ call' = [call EXCEPT ![t] = [@ EXCEPT !.pc = "quality"]]
          /\ UNCHANGED <<masks, levels>>
       \/ /\ fmtCache[f] = Invalid /\ f \in setting.losable
          /\ SupportAnswered(t, {})
    /\ UNCHANGED <<setting, msaaCache, fmtCache, calls>>

\* The host answers for the format itself: the mask is built and published.
FinishSupport(t) ==
    /\ call[t].pc = "mask"
    /\ \E lost \in Losses :
          LET f == call[t].fmt
              mask == Mask(f, call[t].q, lost)
          IN  /\ fmtCache' = [fmtCache EXCEPT ![f] = mask]
              /\ SupportAnswered(t, mask)
    /\ UNCHANGED <<setting, msaaCache, calls>>

\* The sample count tritonMsaaQuality is asked for.
Samples(t) == IF call[t].pc = "quality" THEN 4 ELSE call[t].n

\* tritonMsaaQuality has its result.
QualityKnown(t, q) ==
    \/ /\ call[t].pc \in {"quality", "publish"}
       /\ call' = [call EXCEPT ![t] =
                      [pc |-> "mask", op |-> @.op, fmt |-> @.fmt, n |-> @.n, q |-> q]]
       /\ UNCHANGED <<masks, levels>>
    \/ /\ call[t].pc \in {"levels", "publish levels"}
       /\ ReturnLevels(t, q)

\* tritonMsaaQuality answered without work: the cache, the edge cases, and the
\* blacklist, in that order.
MsaaQualityAtOnce(t) ==
    /\ call[t].pc \in {"quality", "levels"}
    /\ LET f == call[t].fmt
           n == Samples(t)
           cached == n \in Cacheable /\ msaaCache[f][n] # Invalid
       IN  \/ cached /\ QualityKnown(t, msaaCache[f][n])
           \/ ~cached /\ n = 1 /\ QualityKnown(t, 1)
           \/ ~cached /\ (n = 0 \/ n > 32) /\ QualityKnown(t, 0)
           \/ ~cached /\ n \in 2 .. 32 /\ f \in Blacklisted /\ QualityKnown(t, 0)
    /\ UNCHANGED <<setting, msaaCache, fmtCache, calls>>

\* tritonMsaaQuality asks the host for the family, or for a standalone format.
MeasureFamily(t) ==
    /\ call[t].pc \in {"quality", "levels"}
    /\ LET f == call[t].fmt
           n == Samples(t)
       IN  /\ n \in 2 .. 32 /\ f \notin Blacklisted /\ msaaCache[f][n] = Invalid
           /\ \E lost \in Losses :
                 call' = [call EXCEPT ![t] =
                    [pc |-> IF @.pc = "quality" THEN "publish" ELSE "publish levels",
                     op |-> @.op, fmt |-> f, n |-> @.n, samples |-> n, next |-> 1,
                     q |-> FamilyQuality(f, n, lost)]]
    /\ UNCHANGED <<setting, msaaCache, fmtCache, calls, masks, levels>>

\* One member of the family is published.
PublishMember(t) ==
    /\ call[t].pc \in {"publish", "publish levels"}
    /\ LET c == call[t] IN
       /\ c.next <= Len(Group(c.fmt))
       /\ \E lost \in Losses :
             msaaCache' = [msaaCache EXCEPT ![Group(c.fmt)[c.next]][c.samples] =
                              Published(Group(c.fmt)[c.next], c.samples, c.q, lost)]
       /\ call' = [call EXCEPT ![t].next = @ + 1]
    /\ UNCHANGED <<setting, fmtCache, calls, masks, levels>>

\* All members are published, and the format's own value is worked out again.
FamilyPublished(t) ==
    /\ call[t].pc \in {"publish", "publish levels"}
    /\ LET c == call[t] IN
       /\ Group(c.fmt) # << >> /\ c.next = Len(Group(c.fmt)) + 1
       /\ \E lost \in Losses : QualityKnown(t, Published(c.fmt, c.samples, c.q, lost))
    /\ UNCHANGED <<setting, msaaCache, fmtCache, calls>>

\* A standalone format publishes its own quality.
PublishStandalone(t) ==
    /\ call[t].pc \in {"publish", "publish levels"}
    /\ LET c == call[t] IN
       /\ Group(c.fmt) = << >>
       /\ msaaCache' = [msaaCache EXCEPT ![c.fmt][c.samples] = c.q]
       /\ QualityKnown(t, c.q)
    /\ UNCHANGED <<setting, fmtCache, calls>>

Step(t) ==
    \/ CheckFormatSupport(t) \/ FinishSupport(t) \/ MsaaQualityAtOnce(t)
    \/ MeasureFamily(t) \/ PublishMember(t) \/ FamilyPublished(t) \/ PublishStandalone(t)

Next == \E t \in Thread : Begin(t) \/ Step(t)

Spec == Init /\ [][Next]_vars

-----------------------------------------------------------------------------
\* A call by where it is: begun, with the quality at four samples, and between
\* the publications of a family.
Call ==
    {Idle}
    \union [pc : {"support", "quality", "levels"}, op : {"support", "levels"},
            fmt : Format, n : Count \union {4}]
    \union [pc : {"mask", "levels"}, op : {"support", "levels"},
            fmt : Format, n : Count \union {4}, q : Uint]
    \union [pc : {"publish", "publish levels"}, op : {"support", "levels"},
            fmt : Format, n : Count \union {4}, samples : Cacheable, next : Nat \ {0}, q : Uint]

TypeOK ==
    /\ setting \in Setting
    /\ msaaCache \in [Format -> [Cacheable -> {Invalid} \union Uint]]
    /\ fmtCache \in [Format -> {Invalid} \union SUBSET (Bit \ {"ds"})]
    /\ call \in [Thread -> Call]
    /\ calls \in 0 .. MaxCalls
    /\ masks \subseteq Format \X SUBSET (Bit \ {"ds"})
    /\ levels \subseteq Format \X Count \X Uint

\* What the family of a format can do, by what the host says alone.
Relatives(f) == IF Group(f) = << >> THEN {f} ELSE ToSet(Group(f)) \ Forbidden

Multisamples(f, n) ==
    LET Told == {host[m].quality[n] : m \in {r \in Relatives(f) : "ms" \in host[r].bits}}
    IN  Max(Told \union {0})

Target(f) == f \notin ReadOnly /\ {"rt", "ds"} \intersect host[f].bits # {}

ReaderLoads(f) == f \in ReadOnly /\ Multisamples(f, 4) > 0

TargetSupport(f) == Target(f) /\ f \notin Blacklisted /\ Multisamples(f, 4) > 0

Supported(f) == Translate(host[f].bits) # {} \/ TargetSupport(f) \/ ReaderLoads(f)

NothingLost == setting.losable = {}

\* When no query is lost, every answer is the one the host's capabilities
\* determine, whatever was asked before, whatever another thread is publishing
\* meanwhile, and however often it is asked again ("Cap-query results are
\* constant per host device", tritonQuery.c:160-172).  What the runtime compares
\* before it accepts the device follows: TargetSupport is one for all targets of
\* a family, the typeless parent included; a quality above 1x comes never without
\* the support bit, nor the bit without a quality (tritonQuery.c:140-149); and a
\* view that only reads has MULTISAMPLE_LOAD whenever its family multisamples
\* (516-527).  Blacklisted formats are excepted: their quality is zero or the
\* family's, as it was asked for before or after a sibling's, which is published
\* for them, too (376-385) and found before the blacklist is (337-348).
AnswersIndependentOfCache ==
    NothingLost =>
    /\ \A a \in masks : a[1] \notin Blacklisted =>
          /\ "ms" \in a[2] <=> TargetSupport(a[1])
          /\ "load" \in a[2] <=> TargetSupport(a[1]) \/ ReaderLoads(a[1])
          /\ a[2] \ {"ms", "load"} = Translate(host[a[1]].bits)
    /\ \A a \in levels : a[1] \notin Blacklisted =>
          a[3] = IF ~TargetSupport(a[1])
                 THEN IF a[2] <= 1 /\ Supported(a[1]) THEN 1 ELSE 0
                 ELSE CASE a[2] = 1 -> 1
                        [] a[2] \in 2 .. 32 -> Multisamples(a[1], a[2])
                        [] OTHER -> 0
    /\ \A a \in levels : a[1] \in Blacklisted /\ a[2] \in 2 .. 32 =>
          a[3] \in {0, Multisamples(a[1], a[2])}

\* Whatever is lost on the way, no more is claimed than the family's targets
\* can do, and only of a target (tritonQuery.c:497-500): a wrong entry that
\* stays in the cache errs on the safe side.
NeverOverclaims ==
    /\ \A a \in masks : "ms" \in a[2] => Target(a[1]) /\ Multisamples(a[1], 4) > 0
    /\ \A a \in levels : a[2] \in 2 .. 32 => a[3] <= Multisamples(a[1], a[2])
=============================================================================

-------------------------- MODULE FormatCaps_proofs --------------------------
(***************************************************************************)
(* Proofs about FormatCaps: for any host, any families of formats and any  *)
(* number of threads, what the shared caches hold is what a call that      *)
(* found them empty would have worked out, and never more than the family  *)
(* can do.                                                                 *)
(***************************************************************************)
EXTENDS FormatCaps, WellFoundedInduction, TLAPS

\* A value for format f at n samples, as the cache may hold it.
GoodValue(f, n, v) ==
    /\ v <= Multisamples(f, n)
    /\ v > 0 => f \notin ReadOnly
    /\ NothingLost =>
          v = IF Target(f) \/ Group(f) = << >> THEN Multisamples(f, n) ELSE 0

\* The quality at four samples that a mask is built with.
GoodQuality(f, q) ==
    /\ q <= Multisamples(f, 4)
    /\ q > 0 => f \notin ReadOnly
    /\ NothingLost /\ f \notin Blacklisted =>
          q = IF Target(f) \/ Group(f) = << >> THEN Multisamples(f, 4) ELSE 0

\* What the family's measurement gave, before it is published.
GoodFamily(f, n, q) ==
    q <= Multisamples(f, n) /\ (NothingLost => q = Multisamples(f, n))

\* A mask as it is cached and answered.
GoodMask(f, s) ==
    /\ "ms" \in s => Target(f) /\ Multisamples(f, 4) > 0
    /\ NothingLost /\ f \notin Blacklisted =>
          /\ "ms" \in s <=> TargetSupport(f)
          /\ "load" \in s <=> TargetSupport(f) \/ ReaderLoads(f)
          /\ s \ {"ms", "load"} = Translate(host[f].bits)

\* A number of quality levels as it is answered.
GoodLevel(f, n, q) ==
    /\ n \in 2 .. 32 => q <= Multisamples(f, n)
    /\ NothingLost /\ n \in 2 .. 32 => q \in {0, Multisamples(f, n)}
    /\ NothingLost /\ f \notin Blacklisted =>
          q = IF ~TargetSupport(f)
              THEN IF n <= 1 /\ Supported(f) THEN 1 ELSE 0
              ELSE CASE n = 1 -> 1
                     [] n \in 2 .. 32 -> Multisamples(f, n)
                     [] OTHER -> 0

\* What a call knows, by where it is.
GoodCall(c) ==
    /\ c.pc # "idle" /\ c.op = "levels" => c.n \in Count
    /\ c.pc = "mask" => GoodQuality(c.fmt, c.q)
    /\ c.pc \in {"publish", "publish levels"} =>
          /\ c.samples \in 2 .. 32 /\ c.fmt \notin Blacklisted
          /\ c.samples = IF c.pc = "publish" THEN 4 ELSE c.n
          /\ GoodFamily(c.fmt, c.samples, c.q)
    /\ c.pc \in {"levels", "publish levels"} =>
          /\ c.op = "levels"
          /\ NothingLost /\ c.fmt \notin Blacklisted => TargetSupport(c.fmt)

CacheInv ==
    /\ \A f \in Format : \A n \in Cacheable : \A v \in Uint :
          msaaCache[f][n] = v => v = Invalid \/ (n \in 2 .. 32 /\ GoodValue(f, n, v))
    /\ \A f \in Format : \A s \in SUBSET (Bit \ {"ds"}) :
          fmtCache[f] = s => s = Invalid \/ GoodMask(f, s)

CallInv == \A t \in Thread : \A c \in Call : call[t] = c => GoodCall(c)

AnswerInv ==
    /\ \A f \in Format : \A s \in SUBSET (Bit \ {"ds"}) : <<f, s>> \in masks => GoodMask(f, s)
    /\ \A f \in Format : \A n \in Count : \A q \in Uint :
          <<f, n, q>> \in levels => GoodLevel(f, n, q)

\* The inductive invariant.
FormatInv == TypeOK /\ CacheInv /\ CallInv /\ AnswerInv

-----------------------------------------------------------------------------
\* A nonempty set of naturals has a least element.
LEMMA LeastExists ==
    ASSUME NEW T, T \subseteq Nat, T # {}
    PROVE  \E x \in T : \A y \in T : x <= y
  <1> DEFINE R == OpToRel(<, Nat)
  <1>1. IsWellFoundedOn(R, Nat)
    BY NatLessThanWellFounded
  <1>2. \A x, y \in Nat : y < x => <<y, x>> \in R
    BY DEF OpToRel
  <1> HIDE DEF R
  <1>3. PICK x \in T : \A y \in T : ~ (<<y, x>> \in R)
    BY <1>1, WFMin
  <1>4. \A y \in T : x \in Nat /\ y \in Nat /\ ~ (y < x)
    BY <1>2, <1>3
  <1> QED
    BY <1>4

\* A nonempty bounded set of naturals has a greatest element, and Max finds it.
LEMMA GreatestExists ==
    ASSUME NEW S, S \subseteq Nat, S # {}, NEW b \in Nat, \A x \in S : x <= b
    PROVE  Max(S) \in S /\ \A x \in S : x <= Max(S)
  <1> DEFINE U == {u \in Nat : \A x \in S : x <= u}
  <1>1. PICK u \in U : \A v \in U : u <= v
    BY LeastExists
  <1>2. u \in S
    <2> SUFFICES ASSUME u \notin S PROVE FALSE
      OBVIOUS
    <2>1. PICK s \in S : TRUE
      OBVIOUS
    <2>2. u - 1 \in U
      BY <2>1
    <2> QED
      BY <1>1, <2>2
  <1>3. \E m \in S : \A y \in S : m >= y
    BY <1>2
  <1> QED
    BY <1>3 DEF Max

LEMMA Shape ==
    /\ Cacheable \subseteq Nat /\ 4 \in Cacheable /\ 4 \in Nat
    /\ MaxUint \in Nat /\ 0 \in Uint /\ 1 \in Uint /\ Uint \subseteq Nat
    /\ \A n \in Count : n \in Nat /\ (n \in 2 .. 32 => n \in Cacheable)
    /\ ReadOnly \subseteq Format
  BY FormatCapsAssumption DEF FormatCapsAssumption, Cacheable, Uint

LEMMA ManyIsNotOne == \A k \in 2 .. 32 : k # 1
  OBVIOUS

\* The members of a family are formats and have the same family.
LEMMA FamilyOfMember ==
    ASSUME NEW f \in Format
    PROVE  /\ Group(f) \in Seq(Format) /\ ToSet(Group(f)) \subseteq Format
           /\ Group(f) # << >> => f \in ToSet(Group(f))
           /\ \A m \in ToSet(Group(f)) : Group(m) = Group(f)
           /\ f \in ReadOnly => Group(f) # << >>
           /\ Relatives(f) \subseteq Format
  <1>1. CASE \E g \in Families : f \in ToSet(g)
    <2>1. PICK g \in Families : Group(f) = g /\ f \in ToSet(g)
      BY <1>1 DEF Group
    <2>2. g \in Seq(Format)
      BY FormatCapsAssumption DEF FormatCapsAssumption
    <2>3. \A m \in ToSet(g) : m \in Format
      BY <2>2 DEF ToSet
    <2>4. g # << >>
      BY <2>1, <2>2 DEF ToSet
    <2>5. ASSUME NEW m \in ToSet(g) PROVE Group(m) = g
      <3>1. PICK h \in Families : Group(m) = h /\ m \in ToSet(h)
        BY <2>5 DEF Group
      <3> QED
        BY <2>5, <3>1, FormatCapsAssumption DEF FormatCapsAssumption
    <2> QED
      BY <2>1, <2>2, <2>3, <2>4, <2>5 DEF Relatives
  <1>2. CASE ~ \E g \in Families : f \in ToSet(g)
    <2>1. Group(f) = << >>
      BY <1>2 DEF Group
    <2>2. ToSet(<< >>) = {}
      BY DEF ToSet
    <2>3. f \notin ReadOnly
      BY <1>2, FormatCapsAssumption DEF FormatCapsAssumption
    <2> QED
      BY <2>1, <2>2, <2>3 DEF Relatives
  <1> QED
    BY <1>1, <1>2

-----------------------------------------------------------------------------
\* A host tells qualities in Uint, and of support only bits.
LEMMA HostTells ==
    ASSUME setting \in Setting, NEW f \in Format
    PROVE  /\ host[f].bits \subseteq Bit \ {"load"}
           /\ \A n \in Cacheable : host[f].quality[n] \in Uint
           /\ Blacklisted \subseteq Format
  BY FormatCapsAssumption DEF FormatCapsAssumption, host, Blacklisted

\* What a family is measured to do is in range, never more than it can, and,
\* when nothing is lost, exactly that.
LEMMA Measured ==
    ASSUME setting \in Setting, NEW f \in Format, NEW n \in Cacheable, NEW lost \in Losses
    PROVE  /\ Multisamples(f, n) \in Uint
           /\ FamilyQuality(f, n, lost) \in Uint
           /\ GoodFamily(f, n, FamilyQuality(f, n, lost))
  <1> DEFINE Told == {host[m].quality[n] : m \in {r \in Relatives(f) : "ms" \in host[r].bits}}
             Can == Told \union {0}
             Had == {Native(m, n, lost) : m \in Relatives(f)} \union {0}
  <1>1. \A m \in Relatives(f) : m \in Format /\ host[m].quality[n] \in Uint
    BY FamilyOfMember, HostTells
  <1>2. Can \subseteq Uint /\ 0 \in Can
    BY <1>1, Shape
  <1>3. Max(Can) \in Can /\ \A x \in Can : x <= Max(Can)
    <2>1. \A x \in Can : x <= MaxUint
      BY <1>2 DEF Uint
    <2>2. Can \subseteq Nat /\ MaxUint \in Nat
      BY <1>2, Shape
    <2> HIDE DEF Can
    <2> QED
      BY <1>2, <2>1, <2>2, GreatestExists
  <1>4. Had \subseteq Can
    BY DEF Native
  <1>5. Max(Had) \in Had /\ \A x \in Had : x <= Max(Had)
    <2>1. \A x \in Had : x <= MaxUint
      BY <1>2, <1>4 DEF Uint
    <2>2. Had \subseteq Nat /\ MaxUint \in Nat /\ 0 \in Had
      BY <1>2, <1>4, Shape
    <2> HIDE DEF Had
    <2> QED
      BY <2>1, <2>2, GreatestExists
  <1>6. NothingLost => Had = Can
    <2> SUFFICES ASSUME NothingLost PROVE Can \subseteq Had
      BY <1>4
    <2>1. lost = {}
      BY DEF Losses, NothingLost
    <2> QED
      BY <2>1 DEF Native
  <1>7. Multisamples(f, n) = Max(Can)
    BY DEF Multisamples
  <1>8. Max(Had) \in Uint /\ Max(Can) \in Uint /\ Max(Had) <= Max(Can)
    <2> HIDE DEF Had, Can
    <2> QED
      BY <1>2, <1>3, <1>4, <1>5
  <1>9. FamilyQuality(f, n, lost) = Max(Had)
    <2>1. CASE Group(f) # << >>
      BY <2>1 DEF FamilyQuality, FamilyMax, Relatives
    <2>2. CASE Group(f) = << >>
      <3>1. Had = {Native(f, n, lost), 0}
        BY <2>2 DEF Relatives
      <3>2. Native(f, n, lost) \in Nat
        BY <1>2, <1>4, <3>1, Shape
      <3>3. Max(Had) = Native(f, n, lost)
        <4> HIDE DEF Had
        <4> QED
          BY <1>5, <3>1, <3>2
      <3> QED
        BY <2>2, <3>3 DEF FamilyQuality
    <2> QED
      BY <2>1, <2>2
  <1> HIDE DEF Had, Can
  <1> QED
    BY <1>6, <1>7, <1>8, <1>9 DEF GoodFamily

LEMMA CanIsNatural ==
    ASSUME setting \in Setting, NEW f \in Format, NEW n \in Cacheable
    PROVE  Multisamples(f, n) \in Nat
  <1>1. {} \in Losses
    BY DEF Losses
  <1> QED
    BY <1>1, Measured, Shape

\* The members of a family can do the same.
LEMMA SameFamily ==
    ASSUME NEW f \in Format, NEW n, NEW m \in ToSet(Group(f))
    PROVE  m \in Format /\ Multisamples(m, n) = Multisamples(f, n) /\ Group(m) # << >>
  <1>1. m \in Format /\ Group(m) = Group(f)
    BY FamilyOfMember
  <1>2. Group(f) # << >>
    BY DEF ToSet
  <1> QED
    BY <1>1, <1>2 DEF Multisamples, Relatives

\* What is published for a member is good.
LEMMA PublishedIsGood ==
    ASSUME setting \in Setting, NEW f \in Format, NEW n \in Cacheable, NEW q \in Uint,
           GoodFamily(f, n, q), NEW m \in ToSet(Group(f)), NEW lost \in Losses
    PROVE  Published(m, n, q, lost) \in Uint /\ GoodValue(m, n, Published(m, n, q, lost))
  <1>1. m \in Format /\ Multisamples(m, n) = Multisamples(f, n) /\ Group(m) # << >>
    BY SameFamily
  <1>2. Multisamples(m, n) \in Nat
    BY <1>1, CanIsNatural
  <1>3. RenderTargetable(m, lost) => {"rt", "ds"} \intersect host[m].bits # {}
    BY DEF RenderTargetable
  <1>4. NothingLost => lost = {}
    BY DEF Losses, NothingLost
  <1>5. NothingLost => (m \notin ReadOnly /\ RenderTargetable(m, lost) <=> Target(m))
    BY <1>4 DEF RenderTargetable, Target
  <1> QED
    BY <1>1, <1>2, <1>3, <1>5, Shape DEF GoodFamily, GoodValue, Published

\* A standalone format's own quality is good.
LEMMA StandaloneIsGood ==
    ASSUME setting \in Setting, NEW f \in Format, NEW n \in Cacheable, NEW q \in Uint,
           GoodFamily(f, n, q), Group(f) = << >>
    PROVE  GoodValue(f, n, q)
  <1>1. f \notin ReadOnly
    BY FamilyOfMember
  <1> QED
    BY <1>1 DEF GoodFamily, GoodValue

\* The translated bits have neither of the multisample bits.
LEMMA Translated ==
    ASSUME setting \in Setting, NEW f \in Format
    PROVE  /\ Translate(host[f].bits) \subseteq Bit \ {"ds", "ms", "load"}
           /\ "rt" \in Translate(host[f].bits) <=> "rt" \in host[f].bits
  BY HostTells DEF Translate

\* A mask built with a good quality is good.
LEMMA MaskIsGood ==
    ASSUME setting \in Setting, NEW f \in Format, NEW q \in Uint, GoodQuality(f, q),
           NEW lost \in Losses
    PROVE  Mask(f, q, lost) \subseteq Bit \ {"ds"} /\ GoodMask(f, Mask(f, q, lost))
  <1> DEFINE caps == Translate(host[f].bits)
  <1>1. caps \subseteq Bit \ {"ds", "ms", "load"}
    BY Translated
  <1>2. PICK able \in BOOLEAN : able = ("rt" \in caps \/ "ds" \in host[f].bits)
    OBVIOUS
  <1>3. able <=> {"rt", "ds"} \intersect host[f].bits # {}
    BY <1>2, Translated
  <1>4. Multisamples(f, 4) \in Nat /\ q \in Nat
    BY CanIsNatural, Shape
  <1>5. q > 0 /\ able => Target(f) /\ Multisamples(f, 4) > 0
    BY <1>3, <1>4 DEF GoodQuality, Target
  <1>6. ASSUME NothingLost, f \notin Blacklisted
        PROVE  q > 0 /\ able <=> TargetSupport(f)
    <2>1. q = IF Target(f) \/ Group(f) = << >> THEN Multisamples(f, 4) ELSE 0
      BY <1>6 DEF GoodQuality
    <2>2. Target(f) => able
      BY <1>3 DEF Target
    <2> QED
      BY <1>4, <1>5, <1>6, <2>1, <2>2 DEF TargetSupport
  <1>7. PICK reads \in BOOLEAN : reads = (f \in ReadOnly /\ FamilyQuality(f, 4, lost) > 0)
    OBVIOUS
  <1>8. NothingLost => (reads <=> ReaderLoads(f))
    BY <1>7, Measured, Shape DEF ReaderLoads, GoodFamily
  <1>9. Mask(f, q, lost) = IF q > 0 /\ able THEN caps \union {"ms", "load"}
                           ELSE IF reads THEN caps \union {"load"} ELSE caps
    BY <1>2, <1>7 DEF Mask
  <1>10. Mask(f, q, lost) \subseteq Bit \ {"ds"} /\ Mask(f, q, lost) \ {"ms", "load"} = caps
    BY <1>1, <1>9 DEF Bit
  <1>11. "ms" \in Mask(f, q, lost) <=> q > 0 /\ able
    BY <1>1, <1>9
  <1>12. "load" \in Mask(f, q, lost) <=> (q > 0 /\ able) \/ reads
    BY <1>1, <1>9
  <1> QED
    BY <1>5, <1>6, <1>8, <1>10, <1>11, <1>12 DEF GoodMask

-----------------------------------------------------------------------------
\* What a value means depends on the setting alone, which never changes.
LEMMA Fixed ==
    ASSUME setting' = setting
    PROVE  /\ \A f, n, v : GoodValue(f, n, v)' <=> GoodValue(f, n, v)
           /\ \A f, s : GoodMask(f, s)' <=> GoodMask(f, s)
           /\ \A f, n, q : GoodLevel(f, n, q)' <=> GoodLevel(f, n, q)
           /\ \A c : GoodCall(c)' <=> GoodCall(c)
  <1>1. host' = host /\ (NothingLost' <=> NothingLost) /\ Blacklisted' = Blacklisted
    BY DEF host, NothingLost, Blacklisted
  <1>2. \A f, n : Multisamples(f, n)' = Multisamples(f, n)
    BY <1>1 DEF Multisamples
  <1>3. \A f : Target(f)' <=> Target(f)
    BY <1>1 DEF Target
  <1>4. \A f : /\ TargetSupport(f)' <=> TargetSupport(f)
               /\ ReaderLoads(f)' <=> ReaderLoads(f)
    BY <1>1, <1>2, <1>3 DEF TargetSupport, ReaderLoads
  <1>5. \A f : Supported(f)' <=> Supported(f)
    BY <1>1, <1>4 DEF Supported
  <1>6. \A f, q : GoodQuality(f, q)' <=> GoodQuality(f, q)
    BY <1>1, <1>2, <1>3 DEF GoodQuality
  <1>7. \A f, n, q : GoodFamily(f, n, q)' <=> GoodFamily(f, n, q)
    BY <1>1, <1>2 DEF GoodFamily
  <1>8. \A f, n, v : GoodValue(f, n, v)' <=> GoodValue(f, n, v)
    BY <1>1, <1>2, <1>3 DEF GoodValue
  <1>9. \A f, s : GoodMask(f, s)' <=> GoodMask(f, s)
    BY <1>1, <1>2, <1>3, <1>4 DEF GoodMask
  <1>10. \A f, n, q : GoodLevel(f, n, q)' <=> GoodLevel(f, n, q)
    BY <1>1, <1>2, <1>4, <1>5 DEF GoodLevel
  <1>11. \A c : GoodCall(c)' <=> GoodCall(c)
    BY <1>1, <1>4, <1>6, <1>7 DEF GoodCall
  <1> QED
    BY <1>8, <1>9, <1>10, <1>11

\* A step that leaves the caches alone keeps what is in them.
LEMMA CachesKept ==
    ASSUME CacheInv, setting' = setting, msaaCache' = msaaCache, fmtCache' = fmtCache
    PROVE  CacheInv'
  BY Fixed DEF CacheInv

\* What every call knows that is not idle.
LEMMA CallFields ==
    ASSUME NEW c \in Call, c.pc # "idle"
    PROVE  c.op \in {"support", "levels"} /\ c.fmt \in Format /\ c.n \in Count \union {4}
  <1>1. c # Idle
    BY DEF Idle
  <1> QED
    BY <1>1 DEF Call

\* And what it has got besides.
LEMMA CallShapes ==
    ASSUME NEW c \in Call
    PROVE  /\ c.pc = "support" =>
                 c \in [pc : {"support", "quality", "levels"}, op : {"support", "levels"},
                       fmt : Format, n : Count \union {4}]
           /\ c.pc = "mask" =>
                 c \in [pc : {"mask", "levels"}, op : {"support", "levels"},
                       fmt : Format, n : Count \union {4}, q : Uint]
           /\ c.pc \in {"publish", "publish levels"} =>
                 c \in [pc : {"publish", "publish levels"}, op : {"support", "levels"},
                       fmt : Format, n : Count \union {4}, samples : Cacheable,
                       next : Nat \ {0}, q : Uint]
  <1>1. CASE c = Idle
    BY <1>1 DEF Idle
  <1>2. CASE c \in [pc : {"support", "quality", "levels"}, op : {"support", "levels"},
                   fmt : Format, n : Count \union {4}]
    BY <1>2
  <1>3. CASE c \in [pc : {"mask", "levels"}, op : {"support", "levels"},
                   fmt : Format, n : Count \union {4}, q : Uint]
    BY <1>3
  <1>4. CASE c \in [pc : {"publish", "publish levels"}, op : {"support", "levels"},
                   fmt : Format, n : Count \union {4}, samples : Cacheable,
                   next : Nat \ {0}, q : Uint]
    BY <1>4
  <1> QED
    BY <1>1, <1>2, <1>3, <1>4 DEF Call

\* The other threads' calls stay as they are.
LEMMA OneCallMoves ==
    ASSUME FormatInv, setting' = setting, NEW t \in Thread, NEW d \in Call, GoodCall(d),
           call' = [call EXCEPT ![t] = d]
    PROVE  call' \in [Thread -> Call] /\ CallInv'
  <1>1. call \in [Thread -> Call] /\ CallInv
    BY DEF FormatInv, TypeOK
  <1>2. \A u \in Thread : \A c \in Call : call'[u] = c => GoodCall(c)
    BY <1>1 DEF CallInv
  <1> QED
    BY <1>1, <1>2, Fixed DEF CallInv

\* Answers that are not added to stay good.
LEMMA AnswersKept ==
    ASSUME AnswerInv, setting' = setting, masks' = masks, levels' = levels
    PROVE  AnswerInv'
  BY Fixed DEF AnswerInv

\* An answer of levels that is good joins good ones.
LEMMA LevelsReturned ==
    ASSUME FormatInv, setting' = setting, NEW t \in Thread, NEW q \in Uint,
           call[t].pc # "idle", call[t].fmt \in Format, call[t].n \in Count,
           GoodLevel(call[t].fmt, call[t].n, q), ReturnLevels(t, q)
    PROVE  /\ call' \in [Thread -> Call] /\ CallInv' /\ AnswerInv'
           /\ masks' = masks /\ levels' \subseteq Format \X Count \X Uint
  <1>1. PICK f \in Format, n \in Count : f = call[t].fmt /\ n = call[t].n
    OBVIOUS
  <1>2. levels' = levels \union {<<f, n, q>>} /\ masks' = masks
    BY <1>1 DEF ReturnLevels
  <1>3. Idle \in Call /\ GoodCall(Idle)
    BY DEF Idle, Call, GoodCall
  <1>4. call' \in [Thread -> Call] /\ CallInv'
    BY <1>3, OneCallMoves DEF ReturnLevels
  <1>5. GoodLevel(f, n, q)
    BY <1>1
  <1>6. levels' \subseteq Format \X Count \X Uint
    BY <1>2 DEF FormatInv, TypeOK
  <1>7. AnswerInv'
    <2>1. AnswerInv
      BY DEF FormatInv
    <2>2. \A g \in Format : \A k \in Count : \A p \in Uint :
             <<g, k, p>> \in levels' => GoodLevel(g, k, p)
      BY <1>2, <1>5, <2>1 DEF AnswerInv
    <2> QED
      BY <1>2, <2>1, <2>2, Fixed DEF AnswerInv
  <1> QED
    BY <1>2, <1>4, <1>6, <1>7

\* A call that has a mask ends with it, or goes on to the quality levels.
LEMMA MaskAnswered ==
    ASSUME FormatInv, setting' = setting, NEW t \in Thread,
           NEW s \in SUBSET (Bit \ {"ds"}), GoodMask(call[t].fmt, s),
           call[t].pc \in {"support", "mask"}, SupportAnswered(t, s)
    PROVE  /\ call' \in [Thread -> Call] /\ CallInv' /\ AnswerInv'
           /\ masks' \subseteq Format \X SUBSET (Bit \ {"ds"})
           /\ levels' \subseteq Format \X Count \X Uint
  <1>t. /\ TypeOK /\ setting \in Setting /\ AnswerInv
        /\ masks \subseteq Format \X SUBSET (Bit \ {"ds"})
        /\ levels \subseteq Format \X Count \X Uint
    BY DEF FormatInv, TypeOK
  <1>1. PICK c \in Call : c = call[t]
    BY <1>t DEF TypeOK
  <1>2. GoodCall(c)
    BY <1>1 DEF FormatInv, CallInv
  <1>a. c.pc \in {"support", "mask"}
    BY <1>1
  <1>b. c.op \in {"support", "levels"} /\ c.fmt \in Format /\ c.n \in Count \union {4}
    BY <1>a, CallFields
  <1>3. ASSUME c.op = "support", masks' = masks \union {<<c.fmt, s>>},
               call' = [call EXCEPT ![t] = Idle], levels' = levels
        PROVE  /\ call' \in [Thread -> Call] /\ CallInv' /\ AnswerInv'
               /\ masks' \subseteq Format \X SUBSET (Bit \ {"ds"})
    <2>1. Idle \in Call /\ GoodCall(Idle)
      BY DEF Idle, Call, GoodCall
    <2>2. call' \in [Thread -> Call] /\ CallInv'
      BY <1>3, <2>1, OneCallMoves
    <2>3. \A g \in Format : \A z \in SUBSET (Bit \ {"ds"}) :
             <<g, z>> \in masks' => GoodMask(g, z)
      BY <1>1, <1>3, <1>t DEF AnswerInv
    <2>4. AnswerInv'
      BY <1>3, <1>t, <2>3, Fixed DEF AnswerInv
    <2> QED
      BY <1>b, <1>3, <1>t, <2>2, <2>4
  <1>4. ASSUME c.op = "levels", "ms" \notin s,
               ReturnLevels(t, IF c.n <= 1 /\ s # {} THEN 1 ELSE 0)
        PROVE  /\ call' \in [Thread -> Call] /\ CallInv' /\ AnswerInv'
               /\ masks' = masks /\ levels' \subseteq Format \X Count \X Uint
    <2> DEFINE q == IF c.n <= 1 /\ s # {} THEN 1 ELSE 0
    <2>1. c.n \in Count /\ c.n \in Nat
      BY <1>2, <1>a, <1>4, Shape DEF GoodCall
    <2>2. q \in Uint /\ (c.n \in 2 .. 32 => q = 0)
      BY <2>1, Shape
    <2>3. c.n \in 2 .. 32 => Multisamples(c.fmt, c.n) \in Nat
      BY <1>b, <1>t, <2>1, CanIsNatural, Shape
    <2>4. NothingLost /\ c.fmt \notin Blacklisted =>
             ~TargetSupport(c.fmt) /\ (s # {} <=> Supported(c.fmt))
      BY <1>1, <1>4 DEF GoodMask, Supported
    <2>5. GoodLevel(c.fmt, c.n, q)
      BY <2>2, <2>3, <2>4 DEF GoodLevel
    <2> HIDE DEF q
    <2> QED
      BY <1>1, <1>a, <1>b, <1>4, <2>1, <2>2, <2>5, LevelsReturned DEF q
  <1>5. ASSUME c.op = "levels", "ms" \in s, call' = [call EXCEPT ![t] = [c EXCEPT !.pc = "levels"]],
               masks' = masks, levels' = levels
        PROVE  call' \in [Thread -> Call] /\ CallInv' /\ AnswerInv'
    <2> DEFINE d == [c EXCEPT !.pc = "levels"]
    <2>1. d \in Call /\ d.pc = "levels" /\ d.op = "levels" /\ d.n = c.n /\ d.fmt = c.fmt
      <3>1. CASE c.pc = "support"
        BY <1>5, <3>1, CallShapes DEF Call
      <3>2. CASE c.pc = "mask"
        BY <1>5, <3>2, CallShapes DEF Call
      <3> QED
        BY <1>a, <3>1, <3>2
    <2>2. NothingLost /\ c.fmt \notin Blacklisted => TargetSupport(c.fmt)
      BY <1>1, <1>5 DEF GoodMask
    <2>3. GoodCall(d)
      BY <1>2, <1>a, <1>5, <2>1, <2>2 DEF GoodCall
    <2> HIDE DEF d
    <2>4. call' \in [Thread -> Call] /\ CallInv'
      BY <1>5, <2>1, <2>3, OneCallMoves DEF d
    <2> QED
      BY <1>5, <1>t, <2>4, AnswersKept
  <1>6. \/ /\ c.op = "support" /\ masks' = masks \union {<<c.fmt, s>>}
           /\ call' = [call EXCEPT ![t] = Idle] /\ levels' = levels
        \/ /\ c.op = "levels" /\ "ms" \notin s
           /\ ReturnLevels(t, IF c.n <= 1 /\ s # {} THEN 1 ELSE 0)
        \/ /\ c.op = "levels" /\ "ms" \in s
           /\ call' = [call EXCEPT ![t] = [c EXCEPT !.pc = "levels"]]
           /\ masks' = masks /\ levels' = levels
    BY <1>1 DEF SupportAnswered
  <1> QED
    BY <1>3, <1>4, <1>5, <1>6, <1>t

\* A call that has its quality goes on to the mask, or returns.
LEMMA QualityAnswered ==
    ASSUME FormatInv, setting' = setting, NEW t \in Thread, NEW q \in Uint,
           call[t].pc \in {"quality", "publish"} => GoodQuality(call[t].fmt, q),
           call[t].pc \in {"levels", "publish levels"} =>
              GoodLevel(call[t].fmt, call[t].n, q),
           QualityKnown(t, q)
    PROVE  /\ call' \in [Thread -> Call] /\ CallInv' /\ AnswerInv'
           /\ masks' \subseteq Format \X SUBSET (Bit \ {"ds"})
           /\ levels' \subseteq Format \X Count \X Uint
  <1>t. /\ TypeOK /\ AnswerInv
        /\ masks \subseteq Format \X SUBSET (Bit \ {"ds"})
        /\ levels \subseteq Format \X Count \X Uint
    BY DEF FormatInv, TypeOK
  <1>1. PICK c \in Call : c = call[t]
    BY <1>t DEF TypeOK
  <1>2. GoodCall(c)
    BY <1>1 DEF FormatInv, CallInv
  <1>3. CASE c.pc \in {"quality", "publish"}
    <2> DEFINE d == [pc |-> "mask", op |-> c.op, fmt |-> c.fmt, n |-> c.n, q |-> q]
    <2>1. d \in Call
      <3>1. c.op \in {"support", "levels"} /\ c.fmt \in Format /\ c.n \in Count \union {4}
        BY <1>3, CallFields
      <3> QED
        BY <3>1 DEF Call
    <2>2. GoodCall(d)
      BY <1>1, <1>2, <1>3 DEF GoodCall
    <2>3. call' = [call EXCEPT ![t] = d] /\ masks' = masks /\ levels' = levels
      BY <1>1, <1>3 DEF QualityKnown
    <2> HIDE DEF d
    <2>4. call' \in [Thread -> Call] /\ CallInv'
      BY <2>1, <2>2, <2>3, OneCallMoves
    <2> QED
      BY <1>t, <2>3, <2>4, AnswersKept
  <1>4. CASE c.pc \in {"levels", "publish levels"}
    <2>1. c.fmt \in Format /\ c.n \in Count
      BY <1>2, <1>4, CallFields DEF GoodCall
    <2>2. ReturnLevels(t, q)
      BY <1>1, <1>4 DEF QualityKnown
    <2> QED
      BY <1>1, <1>4, <1>t, <2>1, <2>2, LevelsReturned
  <1> QED
    BY <1>1, <1>3, <1>4 DEF QualityKnown

-----------------------------------------------------------------------------
LEMMA InitGood == Init => FormatInv
  <1> SUFFICES ASSUME Init PROVE FormatInv
    OBVIOUS
  <1>1. Idle \in Call /\ GoodCall(Idle)
    BY DEF Idle, Call, GoodCall
  <1>2. TypeOK
    BY <1>1, FormatCapsAssumption DEF Init, TypeOK, FormatCapsAssumption
  <1>3. CallInv
    BY <1>1 DEF Init, CallInv
  <1>4. CacheInv /\ AnswerInv
    BY DEF Init, CacheInv, AnswerInv
  <1> QED
    BY <1>2, <1>3, <1>4 DEF FormatInv

\* A call begins knowing nothing.
LEMMA BeginKeeps ==
    ASSUME FormatInv, NEW t \in Thread, Begin(t)
    PROVE  FormatInv'
  <1>1. /\ setting' = setting /\ msaaCache' = msaaCache /\ fmtCache' = fmtCache
        /\ masks' = masks /\ levels' = levels /\ calls' = calls + 1 /\ calls < MaxCalls
    BY DEF Begin
  <1>2. PICK d \in Call : GoodCall(d) /\ call' = [call EXCEPT ![t] = d]
    <2>1. ASSUME NEW f \in Format,
                 call' = [call EXCEPT ![t] = [pc |-> "support", op |-> "support", fmt |-> f, n |-> 4]]
          PROVE  \E d \in Call : GoodCall(d) /\ call' = [call EXCEPT ![t] = d]
      BY <2>1 DEF Call, GoodCall
    <2>2. ASSUME NEW f \in Format, NEW n \in Count,
                 call' = [call EXCEPT ![t] = [pc |-> "support", op |-> "levels", fmt |-> f, n |-> n]]
          PROVE  \E d \in Call : GoodCall(d) /\ call' = [call EXCEPT ![t] = d]
      BY <2>2 DEF Call, GoodCall
    <2> QED
      BY <2>1, <2>2 DEF Begin
  <1>3. call' \in [Thread -> Call] /\ CallInv'
    BY <1>1, <1>2, OneCallMoves
  <1>4. CacheInv' /\ AnswerInv'
    BY <1>1, CachesKept, AnswersKept DEF FormatInv
  <1>5. TypeOK'
    BY <1>1, <1>3, FormatCapsAssumption DEF FormatInv, TypeOK, FormatCapsAssumption
  <1> QED
    BY <1>3, <1>4, <1>5 DEF FormatInv

\* tritonCheckFormatSupport from its cache, or on to the quality; when the query
\* is lost, it answers with nothing.
LEMMA CheckFormatSupportKeeps ==
    ASSUME FormatInv, NEW t \in Thread, CheckFormatSupport(t)
    PROVE  FormatInv'
  <1>t. /\ TypeOK /\ setting \in Setting /\ calls \in 0 .. MaxCalls /\ CacheInv
        /\ fmtCache \in [Format -> {Invalid} \union SUBSET (Bit \ {"ds"})]
    BY DEF FormatInv, TypeOK
  <1>u. /\ setting' = setting /\ msaaCache' = msaaCache /\ fmtCache' = fmtCache
        /\ calls' = calls /\ call[t].pc = "support"
    BY DEF CheckFormatSupport
  <1>1. PICK c \in Call : c = call[t]
    BY <1>t DEF TypeOK
  <1>2. c.op \in {"support", "levels"} /\ c.fmt \in Format /\ c.n \in Count \union {4}
    BY <1>1, <1>u, CallFields
  <1>6. /\ call' \in [Thread -> Call] /\ CallInv' /\ AnswerInv'
        /\ masks' \subseteq Format \X SUBSET (Bit \ {"ds"})
        /\ levels' \subseteq Format \X Count \X Uint
    <2>1. CASE fmtCache[c.fmt] # Invalid /\ SupportAnswered(t, fmtCache[c.fmt])
      <3>1. PICK s \in SUBSET (Bit \ {"ds"}) : s = fmtCache[c.fmt]
        BY <1>2, <2>1, <1>t
      <3>2. GoodMask(c.fmt, s)
        BY <1>2, <2>1, <1>t, <3>1 DEF CacheInv
      <3>3. SupportAnswered(t, s)
        BY <2>1, <3>1
      <3> QED
        BY <1>1, <1>u, <3>2, <3>3, MaskAnswered
    <2>2. CASE /\ call' = [call EXCEPT ![t] = [c EXCEPT !.pc = "quality"]]
               /\ masks' = masks /\ levels' = levels
      <3>1. PICK d : d = [c EXCEPT !.pc = "quality"]
        OBVIOUS
      <3>2. d \in Call /\ d.pc = "quality" /\ d.op = c.op /\ d.n = c.n
        BY <1>1, <1>u, <3>1, CallShapes DEF Call
      <3>3. GoodCall(c)
        BY <1>1 DEF FormatInv, CallInv
      <3>4. GoodCall(d)
        BY <1>1, <1>u, <3>2, <3>3 DEF GoodCall
      <3>5. call' \in [Thread -> Call] /\ CallInv'
        BY <2>2, <1>u, <3>1, <3>2, <3>4, OneCallMoves
      <3>6. AnswerInv'
        BY <2>2, <1>u, AnswersKept DEF FormatInv
      <3> QED
        BY <2>2, <3>5, <3>6, <1>t DEF TypeOK
    <2>3. CASE c.fmt \in setting.losable /\ SupportAnswered(t, {})
      <3>1. GoodMask(c.fmt, {})
        BY <2>3 DEF GoodMask, NothingLost
      <3> QED
        BY <1>1, <2>3, <1>u, <3>1, MaskAnswered
    <2> QED
      BY <1>1, <2>1, <2>2, <2>3 DEF CheckFormatSupport
  <1>7. CacheInv'
    BY <1>t, <1>u, CachesKept
  <1>8. TypeOK'
    BY <1>t, <1>u, <1>6 DEF TypeOK
  <1> QED
    BY <1>6, <1>7, <1>8 DEF FormatInv

\* The mask that is built is published and answered.
LEMMA FinishSupportKeeps ==
    ASSUME FormatInv, NEW t \in Thread, FinishSupport(t)
    PROVE  FormatInv'
  <1>t. /\ TypeOK /\ setting \in Setting /\ CacheInv
        /\ fmtCache \in [Format -> {Invalid} \union SUBSET (Bit \ {"ds"})]
    BY DEF FormatInv, TypeOK
  <1>u. setting' = setting /\ msaaCache' = msaaCache /\ calls' = calls /\ call[t].pc = "mask"
    BY DEF FinishSupport
  <1>1. PICK c \in Call : c = call[t]
    BY <1>t DEF TypeOK
  <1>2. c.fmt \in Format /\ c.q \in Uint
    BY <1>1, <1>u, CallShapes
  <1>3. GoodQuality(c.fmt, c.q)
    BY <1>1, <1>u DEF FormatInv, CallInv, GoodCall
  <1>4. PICK lost \in Losses : /\ fmtCache' = [fmtCache EXCEPT ![c.fmt] = Mask(c.fmt, c.q, lost)]
                               /\ SupportAnswered(t, Mask(c.fmt, c.q, lost))
    BY <1>1 DEF FinishSupport
  <1>5. PICK s : s = Mask(c.fmt, c.q, lost)
    OBVIOUS
  <1>6. s \in SUBSET (Bit \ {"ds"}) /\ GoodMask(c.fmt, s)
    BY <1>2, <1>3, <1>5, <1>t, MaskIsGood
  <1>7. /\ call' \in [Thread -> Call] /\ CallInv' /\ AnswerInv'
        /\ masks' \subseteq Format \X SUBSET (Bit \ {"ds"})
        /\ levels' \subseteq Format \X Count \X Uint
    BY <1>1, <1>4, <1>5, <1>6, <1>u, MaskAnswered
  <1>8. fmtCache' = [fmtCache EXCEPT ![c.fmt] = s]
    BY <1>4, <1>5
  <1>9. CacheInv'
    <2>1. \A f \in Format : \A z \in SUBSET (Bit \ {"ds"}) :
             fmtCache'[f] = z => z = Invalid \/ GoodMask(f, z)
      BY <1>6, <1>8, <1>t DEF CacheInv
    <2> QED
      BY <1>t, <1>u, <2>1, Fixed DEF CacheInv
  <1>10. TypeOK'
    BY <1>2, <1>6, <1>7, <1>8, <1>t, <1>u DEF TypeOK
  <1> QED
    BY <1>7, <1>9, <1>10 DEF FormatInv

\* A quality from the cache, for the counts that need no work, or for a
\* blacklisted format.
LEMMA MsaaQualityAtOnceKeeps ==
    ASSUME FormatInv, NEW t \in Thread, MsaaQualityAtOnce(t)
    PROVE  FormatInv'
  <1>t. /\ TypeOK /\ setting \in Setting /\ CacheInv
        /\ msaaCache \in [Format -> [Cacheable -> {Invalid} \union Uint]]
    BY DEF FormatInv, TypeOK
  <1>u. /\ setting' = setting /\ msaaCache' = msaaCache /\ fmtCache' = fmtCache
        /\ calls' = calls /\ call[t].pc \in {"quality", "levels"}
    BY DEF MsaaQualityAtOnce
  <1>1. PICK c \in Call : c = call[t]
    BY <1>t DEF TypeOK
  <1>2. c.fmt \in Format /\ c.n \in Count \union {4}
    BY <1>1, <1>u, CallFields
  <1>3. GoodCall(c)
    BY <1>1 DEF FormatInv, CallInv
  <1>4. PICK n : n = Samples(t)
    OBVIOUS
  <1>5. n = IF c.pc = "quality" THEN 4 ELSE c.n
    BY <1>1, <1>4 DEF Samples
  <1>6. n \in Nat /\ (n \in 2 .. 32 => n \in Cacheable)
    BY <1>2, <1>5, Shape
  <1>7. PICK q \in Uint :
           /\ QualityKnown(t, q)
           /\ \/ n \in 2 .. 32 /\ GoodValue(c.fmt, n, q)
              \/ n = 1 /\ q = 1
              \/ (n = 0 \/ n > 32) /\ q = 0
              \/ n \in 2 .. 32 /\ c.fmt \in Blacklisted /\ q = 0
    <2>1. CASE n \in Cacheable /\ msaaCache[c.fmt][n] # Invalid /\ QualityKnown(t, msaaCache[c.fmt][n])
      <3>1. PICK q \in Uint : q = msaaCache[c.fmt][n]
        BY <1>2, <1>t, <2>1
      <3>2. n \in 2 .. 32 /\ GoodValue(c.fmt, n, q)
        BY <1>2, <1>t, <2>1, <3>1 DEF CacheInv
      <3> QED
        BY <2>1, <3>1, <3>2
    <2>2. CASE n = 1 /\ QualityKnown(t, 1)
      BY <2>2, Shape
    <2>3. CASE (n = 0 \/ n > 32) /\ QualityKnown(t, 0)
      BY <2>3, Shape
    <2>4. CASE n \in 2 .. 32 /\ c.fmt \in Blacklisted /\ QualityKnown(t, 0)
      BY <2>4, Shape
    <2> QED
      BY <1>1, <1>4, <2>1, <2>2, <2>3, <2>4 DEF MsaaQualityAtOnce
  <1>8. n \in 2 .. 32 => Multisamples(c.fmt, n) \in Nat
    BY <1>2, <1>6, <1>t, CanIsNatural
  <1>9. c.pc = "quality" => GoodQuality(c.fmt, q)
    BY <1>5, <1>7, <1>8 DEF GoodQuality, GoodValue
  <1>10. c.pc = "levels" => GoodLevel(c.fmt, c.n, q)
    <2> SUFFICES ASSUME c.pc = "levels" PROVE GoodLevel(c.fmt, n, q)
      BY <1>5
    <2>1. NothingLost /\ c.fmt \notin Blacklisted => TargetSupport(c.fmt)
      BY <1>3 DEF GoodCall
    <2>2. n \in 2 .. 32 => q <= Multisamples(c.fmt, n)
      BY <1>6, <1>7, <1>8 DEF GoodValue
    <2>3. n \in 2 .. 32 /\ NothingLost /\ c.fmt \notin Blacklisted => q = Multisamples(c.fmt, n)
      BY <1>6, <1>7, <2>1 DEF GoodValue, TargetSupport
    <2>4. NothingLost /\ n \in 2 .. 32 => q \in {0, Multisamples(c.fmt, n)}
      BY <1>6, <1>7 DEF GoodValue
    <2> QED
      BY <1>6, <1>7, <2>1, <2>2, <2>3, <2>4 DEF GoodLevel
  <1>11. /\ call' \in [Thread -> Call] /\ CallInv' /\ AnswerInv'
         /\ masks' \subseteq Format \X SUBSET (Bit \ {"ds"})
         /\ levels' \subseteq Format \X Count \X Uint
    BY <1>1, <1>7, <1>9, <1>10, <1>u, QualityAnswered
  <1>12. CacheInv'
    BY <1>t, <1>u, CachesKept
  <1>13. TypeOK'
    BY <1>11, <1>t, <1>u DEF TypeOK
  <1> QED
    BY <1>11, <1>12, <1>13 DEF FormatInv

\* The host is asked for the family.
LEMMA MeasureFamilyKeeps ==
    ASSUME FormatInv, NEW t \in Thread, MeasureFamily(t)
    PROVE  FormatInv'
  <1>t. TypeOK /\ setting \in Setting /\ CacheInv /\ AnswerInv
    BY DEF FormatInv, TypeOK
  <1>u. /\ setting' = setting /\ msaaCache' = msaaCache /\ fmtCache' = fmtCache
        /\ calls' = calls /\ masks' = masks /\ levels' = levels
        /\ call[t].pc \in {"quality", "levels"}
    BY DEF MeasureFamily
  <1>1. PICK c \in Call : c = call[t]
    BY <1>t DEF TypeOK
  <1>2. c.op \in {"support", "levels"} /\ c.fmt \in Format /\ c.n \in Count \union {4}
    BY <1>1, <1>u, CallFields
  <1>3. GoodCall(c)
    BY <1>1 DEF FormatInv, CallInv
  <1>4. PICK n : n = Samples(t)
    OBVIOUS
  <1>5. n = IF c.pc = "quality" THEN 4 ELSE c.n
    BY <1>1, <1>4 DEF Samples
  <1>6. n \in 2 .. 32 /\ c.fmt \notin Blacklisted /\ n \in Cacheable
    BY <1>1, <1>2, <1>4, <1>5, Shape DEF MeasureFamily
  <1>7. PICK lost \in Losses : call' = [call EXCEPT ![t] =
           [pc |-> IF c.pc = "quality" THEN "publish" ELSE "publish levels",
            op |-> c.op, fmt |-> c.fmt, n |-> c.n, samples |-> n, next |-> 1,
            q |-> FamilyQuality(c.fmt, n, lost)]]
    BY <1>1, <1>4 DEF MeasureFamily
  <1>8. PICK q \in Uint : q = FamilyQuality(c.fmt, n, lost) /\ GoodFamily(c.fmt, n, q)
    BY <1>2, <1>6, <1>t, Measured
  <1>9. PICK d : d = [pc |-> IF c.pc = "quality" THEN "publish" ELSE "publish levels",
                      op |-> c.op, fmt |-> c.fmt, n |-> c.n, samples |-> n, next |-> 1, q |-> q]
    OBVIOUS
  <1>10. d \in Call
    <2>1. 1 \in Nat \ {0}
      OBVIOUS
    <2>2. d \in [pc : {"publish", "publish levels"}, op : {"support", "levels"},
                fmt : Format, n : Count \union {4}, samples : Cacheable,
                next : Nat \ {0}, q : Uint]
      BY <1>2, <1>6, <1>9, <2>1
    <2> QED
      BY <2>2 DEF Call
  <1>11. GoodCall(d)
    <2>1. c.pc \in {"quality", "levels"}
      BY <1>1, <1>u
    <2>2. /\ d.pc = IF c.pc = "quality" THEN "publish" ELSE "publish levels"
          /\ d.op = c.op /\ d.fmt = c.fmt /\ d.n = c.n /\ d.samples = n /\ d.next = 1 /\ d.q = q
      BY <1>9
    <2>3. CASE c.pc = "quality"
      BY <1>3, <1>5, <1>6, <1>8, <2>2, <2>3 DEF GoodCall
    <2>4. CASE c.pc = "levels"
      <3>1. c.op = "levels" /\ (NothingLost /\ c.fmt \notin Blacklisted => TargetSupport(c.fmt))
        BY <1>3, <2>4 DEF GoodCall
      <3>2. c.n \in Count
        BY <1>3, <2>4, <3>1 DEF GoodCall
      <3>3. d.pc = "publish levels" /\ c.n = n
        BY <1>5, <2>2, <2>4
      <3> QED
        BY <1>6, <1>8, <2>2, <3>1, <3>2, <3>3 DEF GoodCall
    <2> QED
      BY <2>1, <2>3, <2>4
  <1>12. call' \in [Thread -> Call] /\ CallInv'
    BY <1>7, <1>8, <1>9, <1>10, <1>11, <1>u, OneCallMoves
  <1>13. CacheInv' /\ AnswerInv'
    BY <1>t, <1>u, CachesKept, AnswersKept
  <1>14. TypeOK'
    BY <1>12, <1>t, <1>u DEF TypeOK
  <1> QED
    BY <1>12, <1>13, <1>14 DEF FormatInv

\* What a publishing call knows of the family.
LEMMA Publishing ==
    ASSUME FormatInv, NEW t \in Thread, call[t].pc \in {"publish", "publish levels"}
    PROVE  \E c \in Call :
              /\ c = call[t] /\ GoodCall(c) /\ c.fmt \in Format /\ c.q \in Uint
              /\ c.op \in {"support", "levels"} /\ c.n \in Count \union {4}
              /\ c.samples \in Cacheable /\ c.samples \in 2 .. 32 /\ c.fmt \notin Blacklisted
              /\ c.samples = IF c.pc = "publish" THEN 4 ELSE c.n
              /\ c.next \in Nat \ {0} /\ GoodFamily(c.fmt, c.samples, c.q)
  <1>1. PICK c \in Call : c = call[t]
    BY DEF FormatInv, TypeOK
  <1>2. GoodCall(c)
    BY <1>1 DEF FormatInv, CallInv
  <1>3. /\ c.fmt \in Format /\ c.q \in Uint /\ c.samples \in Cacheable /\ c.next \in Nat \ {0}
        /\ c.op \in {"support", "levels"} /\ c.n \in Count \union {4}
    BY <1>1, CallShapes
  <1>4. /\ c.samples \in 2 .. 32 /\ c.fmt \notin Blacklisted
        /\ c.samples = IF c.pc = "publish" THEN 4 ELSE c.n
        /\ GoodFamily(c.fmt, c.samples, c.q)
    BY <1>1, <1>2 DEF GoodCall
  <1> WITNESS c \in Call
  <1> QED
    BY <1>1, <1>2, <1>3, <1>4

\* A good value joins the cache.
LEMMA ValueCached ==
    ASSUME FormatInv, setting' = setting, fmtCache' = fmtCache,
           NEW f \in Format, NEW n \in Cacheable, n \in 2 .. 32, NEW v \in Uint,
           GoodValue(f, n, v), msaaCache' = [msaaCache EXCEPT ![f][n] = v]
    PROVE  CacheInv' /\ msaaCache' \in [Format -> [Cacheable -> {Invalid} \union Uint]]
  <1>1. /\ CacheInv /\ msaaCache \in [Format -> [Cacheable -> {Invalid} \union Uint]]
    BY DEF FormatInv, TypeOK
  <1>2. \A g \in Format : \A k \in Cacheable :
           msaaCache'[g][k] = IF g = f /\ k = n THEN v ELSE msaaCache[g][k]
    BY <1>1
  <1>3. \A g \in Format : \A k \in Cacheable : \A w \in Uint :
           msaaCache'[g][k] = w => w = Invalid \/ (k \in 2 .. 32 /\ GoodValue(g, k, w))
    BY <1>1, <1>2 DEF CacheInv
  <1>4. CacheInv'
    BY <1>1, <1>3, Fixed DEF CacheInv
  <1> QED
    BY <1>1, <1>4

\* The value of one member is published.
LEMMA PublishMemberKeeps ==
    ASSUME FormatInv, NEW t \in Thread, PublishMember(t)
    PROVE  FormatInv'
  <1>t. TypeOK /\ setting \in Setting /\ AnswerInv
    BY DEF FormatInv, TypeOK
  <1>u. /\ setting' = setting /\ fmtCache' = fmtCache /\ calls' = calls
        /\ masks' = masks /\ levels' = levels /\ call[t].pc \in {"publish", "publish levels"}
    BY DEF PublishMember
  <1>1. PICK c \in Call :
           /\ c = call[t] /\ GoodCall(c) /\ c.fmt \in Format /\ c.q \in Uint
           /\ c.samples \in Cacheable /\ c.samples \in 2 .. 32
           /\ c.next \in Nat \ {0} /\ GoodFamily(c.fmt, c.samples, c.q)
    BY <1>u, Publishing
  <1>2. c.next \in 1 .. Len(Group(c.fmt)) /\ call' = [call EXCEPT ![t].next = c.next + 1]
    <2>1. Group(c.fmt) \in Seq(Format) /\ c.next <= Len(Group(c.fmt))
      BY <1>1, FamilyOfMember DEF PublishMember
    <2>2. call' = [call EXCEPT ![t].next = c.next + 1]
      BY <1>1 DEF PublishMember
    <2> QED
      BY <1>1, <2>1, <2>2
  <1>3. PICK m : m = Group(c.fmt)[c.next]
    OBVIOUS
  <1>4. m \in ToSet(Group(c.fmt)) /\ m \in Format
    <2>1. Group(c.fmt) \in Seq(Format)
      BY <1>1, FamilyOfMember
    <2> QED
      BY <1>2, <1>3, <2>1 DEF ToSet
  <1>5. PICK lost \in Losses :
           msaaCache' = [msaaCache EXCEPT ![m][c.samples] = Published(m, c.samples, c.q, lost)]
    BY <1>1, <1>3 DEF PublishMember
  <1>6. PICK v \in Uint : v = Published(m, c.samples, c.q, lost) /\ GoodValue(m, c.samples, v)
    BY <1>1, <1>4, <1>t, PublishedIsGood
  <1>7. CacheInv' /\ msaaCache' \in [Format -> [Cacheable -> {Invalid} \union Uint]]
    BY <1>1, <1>4, <1>5, <1>6, <1>u, ValueCached
  <1>8. PICK d : d = [c EXCEPT !.next = c.next + 1]
    OBVIOUS
  <1>9. d \in Call
    <2>1. c \in [pc : {"publish", "publish levels"}, op : {"support", "levels"},
                fmt : Format, n : Count \union {4}, samples : Cacheable, next : Nat \ {0}, q : Uint]
      BY <1>1, <1>u, CallShapes
    <2>2. c.next + 1 \in Nat \ {0}
      BY <1>1
    <2>3. d \in [pc : {"publish", "publish levels"}, op : {"support", "levels"},
                fmt : Format, n : Count \union {4}, samples : Cacheable, next : Nat \ {0}, q : Uint]
      BY <1>8, <2>1, <2>2
    <2> QED
      BY <2>3 DEF Call
  <1>10. GoodCall(d)
    <2>1. c.pc \in {"publish", "publish levels"}
      BY <1>1, <1>u
    <2>2. /\ d.pc = c.pc /\ d.op = c.op /\ d.fmt = c.fmt /\ d.n = c.n
          /\ d.samples = c.samples /\ d.q = c.q /\ d.next = c.next + 1
      BY <1>1, <1>8, <1>u, CallShapes
    <2>4. GoodCall(c) /\ d.pc = c.pc
      BY <1>1, <2>2
    <2>5. /\ c.samples \in 2 .. 32 /\ c.fmt \notin Blacklisted
          /\ c.samples = IF c.pc = "publish" THEN 4 ELSE c.n
          /\ GoodFamily(c.fmt, c.samples, c.q)
          /\ c.op = "levels" => c.n \in Count
          /\ c.pc = "publish levels" =>
                c.op = "levels" /\ (NothingLost /\ c.fmt \notin Blacklisted => TargetSupport(c.fmt))
      BY <2>1, <2>4 DEF GoodCall
    <2> QED
      BY <2>1, <2>2, <2>5 DEF GoodCall
  <1>11. call' = [call EXCEPT ![t] = d]
    BY <1>1, <1>2, <1>8, <1>t DEF TypeOK
  <1>12. call' \in [Thread -> Call] /\ CallInv'
    BY <1>9, <1>10, <1>11, <1>u, OneCallMoves
  <1>13. AnswerInv'
    BY <1>t, <1>u, AnswersKept
  <1>14. TypeOK'
    BY <1>7, <1>12, <1>t, <1>u DEF TypeOK
  <1> QED
    BY <1>7, <1>12, <1>13, <1>14 DEF FormatInv

\* The family is published; the format's own value is worked out again.
LEMMA FamilyPublishedKeeps ==
    ASSUME FormatInv, NEW t \in Thread, FamilyPublished(t)
    PROVE  FormatInv'
  <1>t. TypeOK /\ setting \in Setting /\ CacheInv
    BY DEF FormatInv, TypeOK
  <1>u. /\ setting' = setting /\ msaaCache' = msaaCache /\ fmtCache' = fmtCache
        /\ calls' = calls /\ call[t].pc \in {"publish", "publish levels"}
    BY DEF FamilyPublished
  <1>1. PICK c \in Call :
           /\ c = call[t] /\ GoodCall(c) /\ c.fmt \in Format /\ c.q \in Uint
           /\ c.samples \in Cacheable /\ c.samples \in 2 .. 32
           /\ c.samples = IF c.pc = "publish" THEN 4 ELSE c.n
           /\ GoodFamily(c.fmt, c.samples, c.q)
    BY <1>u, Publishing
  <1>2. c.fmt \in ToSet(Group(c.fmt))
    BY <1>1, FamilyOfMember DEF FamilyPublished
  <1>3. PICK lost \in Losses : QualityKnown(t, Published(c.fmt, c.samples, c.q, lost))
    BY <1>1 DEF FamilyPublished
  <1>4. PICK q \in Uint : q = Published(c.fmt, c.samples, c.q, lost)
                          /\ GoodValue(c.fmt, c.samples, q)
    BY <1>1, <1>2, <1>t, PublishedIsGood
  <1>5. c.pc = "publish" => GoodQuality(c.fmt, q)
    BY <1>1, <1>4 DEF GoodQuality, GoodValue
  <1>6. c.pc = "publish levels" => GoodLevel(c.fmt, c.n, q)
    <2> SUFFICES ASSUME c.pc = "publish levels" PROVE GoodLevel(c.fmt, c.samples, q)
      BY <1>1
    <2>1. NothingLost /\ c.fmt \notin Blacklisted => TargetSupport(c.fmt)
      BY <1>1 DEF GoodCall
    <2>2. NothingLost /\ c.fmt \notin Blacklisted => q = Multisamples(c.fmt, c.samples)
      BY <1>4, <2>1 DEF GoodValue, TargetSupport
    <2>3. q <= Multisamples(c.fmt, c.samples)
      BY <1>4 DEF GoodValue
    <2>4. c.samples \in 2 .. 32 /\ c.samples # 1
      BY <1>1, ManyIsNotOne
    <2>5. NothingLost /\ c.fmt \notin Blacklisted =>
             q = CASE c.samples = 1 -> 1
                   [] c.samples \in 2 .. 32 -> Multisamples(c.fmt, c.samples)
                   [] OTHER -> 0
      BY <2>2, <2>4
    <2>6. NothingLost => q \in {0, Multisamples(c.fmt, c.samples)}
      BY <1>4 DEF GoodValue
    <2> QED
      BY <2>1, <2>3, <2>4, <2>5, <2>6 DEF GoodLevel
  <1>7. QualityKnown(t, q)
    BY <1>3, <1>4
  <1>8. /\ call' \in [Thread -> Call] /\ CallInv' /\ AnswerInv'
        /\ masks' \subseteq Format \X SUBSET (Bit \ {"ds"})
        /\ levels' \subseteq Format \X Count \X Uint
    BY <1>1, <1>5, <1>6, <1>7, <1>u, QualityAnswered
  <1>9. CacheInv'
    BY <1>t, <1>u, CachesKept
  <1>10. TypeOK'
    BY <1>8, <1>t, <1>u DEF TypeOK
  <1> QED
    BY <1>8, <1>9, <1>10 DEF FormatInv

\* A standalone format's quality is published and used.
LEMMA PublishStandaloneKeeps ==
    ASSUME FormatInv, NEW t \in Thread, PublishStandalone(t)
    PROVE  FormatInv'
  <1>t. TypeOK /\ setting \in Setting
    BY DEF FormatInv, TypeOK
  <1>u. /\ setting' = setting /\ fmtCache' = fmtCache /\ calls' = calls
        /\ call[t].pc \in {"publish", "publish levels"}
    BY DEF PublishStandalone
  <1>1. PICK c \in Call :
           /\ c = call[t] /\ GoodCall(c) /\ c.fmt \in Format /\ c.q \in Uint
           /\ c.samples \in Cacheable /\ c.samples \in 2 .. 32
           /\ c.samples = IF c.pc = "publish" THEN 4 ELSE c.n
           /\ GoodFamily(c.fmt, c.samples, c.q)
    BY <1>u, Publishing
  <1>2. /\ Group(c.fmt) = << >> /\ QualityKnown(t, c.q)
        /\ msaaCache' = [msaaCache EXCEPT ![c.fmt][c.samples] = c.q]
    BY <1>1 DEF PublishStandalone
  <1>3. PICK q \in Uint : q = c.q /\ GoodValue(c.fmt, c.samples, q)
    BY <1>1, <1>2, <1>t, StandaloneIsGood
  <1>4. CacheInv' /\ msaaCache' \in [Format -> [Cacheable -> {Invalid} \union Uint]]
    BY <1>1, <1>2, <1>3, <1>u, ValueCached
  <1>5. c.pc = "publish" => GoodQuality(c.fmt, q)
    BY <1>1, <1>3 DEF GoodQuality, GoodValue
  <1>6. c.pc = "publish levels" => GoodLevel(c.fmt, c.n, q)
    <2> SUFFICES ASSUME c.pc = "publish levels" PROVE GoodLevel(c.fmt, c.samples, q)
      BY <1>1
    <2>1. NothingLost /\ c.fmt \notin Blacklisted => TargetSupport(c.fmt)
      BY <1>1 DEF GoodCall
    <2>2. NothingLost /\ c.fmt \notin Blacklisted => q = Multisamples(c.fmt, c.samples)
      BY <1>3, <2>1 DEF GoodValue, TargetSupport
    <2>3. q <= Multisamples(c.fmt, c.samples)
      BY <1>3 DEF GoodValue
    <2>4. c.samples \in 2 .. 32 /\ c.samples # 1
      BY <1>1, ManyIsNotOne
    <2>5. NothingLost /\ c.fmt \notin Blacklisted =>
             q = CASE c.samples = 1 -> 1
                   [] c.samples \in 2 .. 32 -> Multisamples(c.fmt, c.samples)
                   [] OTHER -> 0
      BY <2>2, <2>4
    <2>6. NothingLost => q \in {0, Multisamples(c.fmt, c.samples)}
      BY <1>3 DEF GoodValue
    <2> QED
      BY <2>1, <2>3, <2>4, <2>5, <2>6 DEF GoodLevel
  <1>7. QualityKnown(t, q)
    BY <1>2, <1>3
  <1>8. /\ call' \in [Thread -> Call] /\ CallInv' /\ AnswerInv'
        /\ masks' \subseteq Format \X SUBSET (Bit \ {"ds"})
        /\ levels' \subseteq Format \X Count \X Uint
    BY <1>1, <1>5, <1>6, <1>7, <1>u, QualityAnswered
  <1>9. TypeOK'
    BY <1>4, <1>8, <1>t, <1>u DEF TypeOK
  <1> QED
    BY <1>4, <1>8, <1>9 DEF FormatInv

-----------------------------------------------------------------------------
LEMMA NextGood == FormatInv /\ [Next]_vars => FormatInv'
  <1> SUFFICES ASSUME FormatInv, [Next]_vars PROVE FormatInv'
    OBVIOUS
  <1>1. CASE UNCHANGED vars
    <2>1. /\ setting' = setting /\ msaaCache' = msaaCache /\ fmtCache' = fmtCache
          /\ call' = call /\ calls' = calls /\ masks' = masks /\ levels' = levels
      BY <1>1 DEF vars
    <2>2. CacheInv' /\ AnswerInv'
      BY <2>1, CachesKept, AnswersKept DEF FormatInv
    <2>3. CallInv'
      BY <2>1, Fixed DEF FormatInv, CallInv
    <2>4. TypeOK'
      BY <2>1 DEF FormatInv, TypeOK
    <2> QED
      BY <2>2, <2>3, <2>4 DEF FormatInv
  <1>2. ASSUME NEW t \in Thread, Begin(t) \/ Step(t) PROVE FormatInv'
    <2>1. CASE Begin(t)
      BY <2>1, BeginKeeps
    <2>2. CASE CheckFormatSupport(t)
      BY <2>2, CheckFormatSupportKeeps
    <2>3. CASE FinishSupport(t)
      BY <2>3, FinishSupportKeeps
    <2>4. CASE MsaaQualityAtOnce(t)
      BY <2>4, MsaaQualityAtOnceKeeps
    <2>5. CASE MeasureFamily(t)
      BY <2>5, MeasureFamilyKeeps
    <2>6. CASE PublishMember(t)
      BY <2>6, PublishMemberKeeps
    <2>7. CASE FamilyPublished(t)
      BY <2>7, FamilyPublishedKeeps
    <2>8. CASE PublishStandalone(t)
      BY <2>8, PublishStandaloneKeeps
    <2> QED
      BY <1>2, <2>1, <2>2, <2>3, <2>4, <2>5, <2>6, <2>7, <2>8 DEF Step
  <1> QED
    BY <1>1, <1>2 DEF Next

\* The caches and the calls hold what an empty cache would have given, and never
\* more than the family can do, in every reachable state (tritonQuery.c:160-176).
THEOREM FormatInvariant == Spec => []FormatInv
  BY InitGood, NextGood, PTL DEF Spec

\* Every reachable state of the caches is well typed: an answer never has the
\* depth bit of the host (tritonQuery.c:138-151).
THEOREM CapsTypeCorrect == Spec => []TypeOK
  <1>1. FormatInv => TypeOK
    BY DEF FormatInv
  <1> QED
    BY <1>1, FormatInvariant, PTL

\* Whatever was asked before and whoever else publishes meanwhile, an answer is the
\* one the host's capabilities determine, so that the runtime finds every family
\* in agreement (tritonQuery.c:140-172), for every host and every set of families.
THEOREM CachesChangeNothing == Spec => []AnswersIndependentOfCache
  <1>1. FormatInv => AnswersIndependentOfCache
    <2> SUFFICES ASSUME FormatInv, NothingLost PROVE AnswersIndependentOfCache
      BY DEF AnswersIndependentOfCache
    <2>1. AnswerInv /\ masks \subseteq Format \X SUBSET (Bit \ {"ds"})
          /\ levels \subseteq Format \X Count \X Uint
      BY DEF FormatInv, TypeOK
    <2>2. ASSUME NEW a \in masks, a[1] \notin Blacklisted
          PROVE  /\ "ms" \in a[2] <=> TargetSupport(a[1])
                 /\ "load" \in a[2] <=> TargetSupport(a[1]) \/ ReaderLoads(a[1])
                 /\ a[2] \ {"ms", "load"} = Translate(host[a[1]].bits)
      <3>1. PICK f \in Format, s \in SUBSET (Bit \ {"ds"}) : a = <<f, s>>
        BY <2>1
      <3>2. GoodMask(f, s) /\ a[1] = f /\ a[2] = s
        BY <2>1, <2>2, <3>1 DEF AnswerInv
      <3> QED
        BY <2>2, <3>2 DEF GoodMask
    <2>3. ASSUME NEW a \in levels, a[1] \notin Blacklisted
          PROVE  a[3] = IF ~TargetSupport(a[1])
                        THEN IF a[2] <= 1 /\ Supported(a[1]) THEN 1 ELSE 0
                        ELSE CASE a[2] = 1 -> 1
                               [] a[2] \in 2 .. 32 -> Multisamples(a[1], a[2])
                               [] OTHER -> 0
      <3>1. PICK f \in Format, n \in Count, q \in Uint : a = <<f, n, q>>
        BY <2>1
      <3>2. GoodLevel(f, n, q) /\ a[1] = f /\ a[2] = n /\ a[3] = q
        BY <2>1, <2>3, <3>1 DEF AnswerInv
      <3> QED
        BY <2>3, <3>2 DEF GoodLevel
    <2>4. ASSUME NEW a \in levels, a[1] \in Blacklisted, a[2] \in 2 .. 32
          PROVE  a[3] \in {0, Multisamples(a[1], a[2])}
      <3>1. PICK f \in Format, n \in Count, q \in Uint : a = <<f, n, q>>
        BY <2>1
      <3>2. GoodLevel(f, n, q) /\ a[1] = f /\ a[2] = n /\ a[3] = q
        BY <2>1, <2>4, <3>1 DEF AnswerInv
      <3> QED
        BY <2>4, <3>2 DEF GoodLevel
    <2> QED
      BY <2>2, <2>3, <2>4 DEF AnswersIndependentOfCache
  <1> QED
    BY <1>1, FormatInvariant, PTL

\* Whatever queries of the host are lost, nothing is claimed that the family's
\* targets cannot do: a wrong entry that stays in a cache errs on the safe side.
THEOREM ErrsOnTheSafeSide == Spec => []NeverOverclaims
  <1>1. FormatInv => NeverOverclaims
    <2> SUFFICES ASSUME FormatInv PROVE NeverOverclaims
      OBVIOUS
    <2>1. AnswerInv /\ masks \subseteq Format \X SUBSET (Bit \ {"ds"})
          /\ levels \subseteq Format \X Count \X Uint
      BY DEF FormatInv, TypeOK
    <2>2. ASSUME NEW a \in masks, "ms" \in a[2]
          PROVE  Target(a[1]) /\ Multisamples(a[1], 4) > 0
      <3>1. PICK f \in Format, s \in SUBSET (Bit \ {"ds"}) : a = <<f, s>>
        BY <2>1
      <3> QED
        BY <2>1, <2>2, <3>1 DEF AnswerInv, GoodMask
    <2>3. ASSUME NEW a \in levels, a[2] \in 2 .. 32
          PROVE  a[3] <= Multisamples(a[1], a[2])
      <3>1. PICK f \in Format, n \in Count, q \in Uint : a = <<f, n, q>>
        BY <2>1
      <3> QED
        BY <2>1, <2>3, <3>1 DEF AnswerInv, GoodLevel
    <2> QED
      BY <2>2, <2>3 DEF NeverOverclaims
  <1> QED
    BY <1>1, FormatInvariant, PTL
=============================================================================

---------------------------- MODULE MCFormatCaps ----------------------------
(* A family with a typeless parent, two targets and a view that only       *)
(* reads, and a standalone format.                                         *)
EXTENDS FormatCaps

CONSTANTS T1, T2, Parent, Typed, Other, Reader, Alone

Family == {<<Parent, Typed, Other, Reader>>}

Quality(q4, q8) == [n \in Cacheable |-> CASE n = 4 -> q4 [] n = 8 -> q8 [] OTHER -> 1]

\* What a host says: texture only; a colour target without and with
\* multisampling, whose quality the host tells in either case; a depth
\* target; a multisample bit on what is no target.
Texture == [bits |-> {"sample", "blend"}, quality |-> Quality(1, 1)]
Colour == [bits |-> {"sample", "rt", "blend"}, quality |-> Quality(2, 2)]
ColourMs == [bits |-> {"sample", "rt", "blend", "ms"}, quality |-> Quality(3, 2)]
DepthMs == [bits |-> {"ds", "ms"}, quality |-> Quality(1, 0)]
NoTargetMs == [bits |-> {"ms"}, quality |-> Quality(1, 1)]

Host(p, t, o, a) ==
    [f \in Format |-> CASE f = Parent -> p [] f = Typed -> t [] f = Other -> o
                        [] f = Reader -> Texture [] f = Alone -> a]

Reliable ==
    {[host |-> h, blacklisted |-> {}, losable |-> {}] :
        h \in {Host(p, t, o, a) : p \in {Colour, ColourMs}, t \in {Texture, ColourMs, DepthMs},
                                 o \in {Texture, Colour}, a \in {NoTargetMs}}}

Blacklisting ==
    {[host |-> Host(ColourMs, ColourMs, ColourMs, Texture),
      blacklisted |-> {Parent, Typed}, losable |-> {}]}

Lossy ==
    {[host |-> Host(ColourMs, ColourMs, Colour, NoTargetMs), blacklisted |-> {}, losable |-> {Parent, Typed}]}

EverySetting == Reliable \union Blacklisting \union Lossy

Symmetry == Permutations(Thread)
=============================================================================

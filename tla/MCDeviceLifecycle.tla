-------------------------- MODULE MCDeviceLifecycle --------------------------
(* Two threads that log, one device at a time with one or two state objects. *)
EXTENDS DeviceLifecycle, TLC

Symmetry == Permutations(Logger) \union Permutations(StateBlock)

Target(logic) == [blend |-> TRUE, logic |-> logic]

Faces(front, back) == [front |-> front, back |-> back]

\* The second target's blending is its own; the first has a logic operation.
Blend(independent, logic) ==
    [kind |-> "blend", independent |-> independent,
     target |-> <<Target(logic), Target(FALSE)>>]

DepthStencil(stencil, enabled) ==
    [kind |-> "depthStencil", stencil |-> stencil, enabled |-> enabled,
     test |-> Faces("less", "less")]

Sampler(anisotropic, n) == [kind |-> "sampler", anisotropic |-> anisotropic, anisotropy |-> n]

EveryDesc ==
    {Blend(TRUE, FALSE), Blend(FALSE, TRUE),
     DepthStencil(TRUE, Faces(TRUE, FALSE)), DepthStencil(FALSE, Faces(TRUE, TRUE)),
     [kind |-> "rasterizer", samples |-> 0], [kind |-> "rasterizer", samples |-> 4],
     Sampler(FALSE, 0), Sampler(TRUE, 16)}
=============================================================================

---------------------------- MODULE PipelineState ----------------------------
(***************************************************************************)
(* The state objects of the pipeline (tritonState.c): blend, depth-stencil *)
(* and rasterizer states and samplers, which the runtime describes in the  *)
(* structures of the interface its device was created with, and creates    *)
(* through that interface's table of functions (tritonDDI.c).  The state   *)
(* is that of one device while it is alive.                                *)
(***************************************************************************)
EXTENDS Integers

CONSTANTS
    StateBlock,          \* blocks of state objects
    StateDesc,           \* what the runtime describes, in the fullest form
    NoBlock

(* The fields of a description that are told apart; a state of the blend    *)
(* stage has an entry for each render target.                              *)

BlendDesc ==
    [kind : {"blend"}, independent : BOOLEAN,
     target : UNION {[1 .. n -> [blend : BOOLEAN, logic : BOOLEAN]] : n \in 1 .. 8}]

DepthStencilDesc ==
    [kind : {"depthStencil"}, stencil : BOOLEAN,
     enabled : [front : BOOLEAN, back : BOOLEAN], test : [front : STRING, back : STRING]]

RasterizerDesc == [kind : {"rasterizer"}, samples : Nat]

SamplerDesc == [kind : {"sampler"}, anisotropic : BOOLEAN, anisotropy : Nat]

\* The runtime validates a description: an anisotropic filter has its
\* anisotropy in range.
ASSUME PipelineStateAssumption ==
    /\ NoBlock \notin StateBlock
    /\ StateDesc \subseteq BlendDesc \union DepthStencilDesc \union RasterizerDesc \union SamplerDesc
    /\ \A d \in StateDesc : d \in SamplerDesc /\ d.anisotropic => d.anisotropy \in 1 .. 16

VARIABLES
    made,                \* per block: what was asked for and the host's object
    bound,               \* the host's object of each kind in the context
    set                  \* the block of each kind that the runtime set

pipelineVars == <<made, bound, set>>

-----------------------------------------------------------------------------
Kind == {"blend", "depthStencil", "rasterizer", "sampler"}

Face == {"front", "back"}

\* The canonical stencil test that does nothing: ALWAYS and KEEP.
NoTest == "none"

\* What is in the context before anything is set, and when NULL is.
Default == [kind |-> "default"]

Table11_0 ==
    [blend |-> "tritonCreateBlendState_10", depthStencil |-> "tritonCreateDepthStencilState",
     rasterizer |-> "tritonCreateRasterizerState_10", sampler |-> "tritonCreateSampler"]

\* The later table is the earlier one with some slots replaced.
Table11_1 ==
    [Table11_0 EXCEPT !.blend = "tritonCreateBlendState",
                      !.rasterizer = "tritonCreateRasterizerState"]

\* Mutant: the later table keeps the earlier rasterizer slot.
TableForBlendOnly(interface) ==
    IF interface = "11.0" THEN Table11_0
    ELSE [Table11_0 EXCEPT !.blend = "tritonCreateBlendState"]

Table(interface) == IF interface = "11.0" THEN Table11_0 ELSE Table11_1

\* The layout of the description that a runtime passes, and that a handler
\* reads; only two kinds have a later one.
Layout(interface, kind) ==
    IF interface # "11.0" /\ kind \in {"blend", "rasterizer"} THEN "11.1" ELSE "10"

LayoutRead(handler) ==
    IF handler \in {"tritonCreateBlendState", "tritonCreateRasterizerState"} THEN "11.1" ELSE "10"

\* The earlier layouts have no logic operations and no forced sample count.
Describable(interface, d) ==
    Layout(interface, d.kind) = "10" =>
        /\ d.kind = "blend" => \A t \in DOMAIN d.target : ~ d.target[t].logic
        /\ d.kind = "rasterizer" => d.samples = 0

Upgraded(handler, d) ==
    CASE handler = "tritonCreateBlendState_10" ->
           [d EXCEPT !.target = [t \in DOMAIN d.target |-> [d.target[t] EXCEPT !.logic = FALSE]]]
      [] handler = "tritonCreateRasterizerState_10" -> [d EXCEPT !.samples = 0]
      [] OTHER -> d

\* D3D11 has one StencilEnable, the DDI another for each face: a face that is
\* off by itself gets the test that does nothing.
HostTest(d, face) == IF d.stencil /\ ~ d.enabled[face] THEN NoTest ELSE d.test[face]

Clamped(n) == IF n < 1 THEN 1 ELSE IF n > 16 THEN 16 ELSE n

HostState(d) ==
    CASE d.kind = "depthStencil" ->
           [kind |-> d.kind, stencil |-> d.stencil, test |-> [f \in Face |-> HostTest(d, f)]]
      [] d.kind = "sampler" -> [d EXCEPT !.anisotropy = Clamped(@)]
      [] OTHER -> d

\* What a handler makes of a description; one in another layout is misread.
Translated(interface, d) ==
    LET handler == Table(interface)[d.kind] IN
    IF LayoutRead(handler) = Layout(interface, d.kind)
    THEN HostState(Upgraded(handler, d))
    ELSE [kind |-> "misread"]

-----------------------------------------------------------------------------
PipelineInit ==
    /\ made = [b \in StateBlock |-> NoBlock]
    /\ bound = [k \in Kind |-> Default]
    /\ set = [k \in Kind |-> NoBlock]

\* A creation that the host refuses sets the error and leaves nothing.
CreateState(interface, b, d) ==
    /\ made[b] = NoBlock /\ Describable(interface, d)
    /\ made' = [made EXCEPT ![b] = [asked |-> d, host |-> Translated(interface, d)]]
    /\ UNCHANGED <<bound, set>>

SetState(b) ==
    /\ made[b] # NoBlock
    /\ bound' = [bound EXCEPT ![made[b].asked.kind] = made[b].host]
    /\ set' = [set EXCEPT ![made[b].asked.kind] = b]
    /\ UNCHANGED made

SetNone(k) ==
    /\ bound' = [bound EXCEPT ![k] = Default]
    /\ set' = [set EXCEPT ![k] = NoBlock]
    /\ UNCHANGED made

\* The runtime keeps what is set; the context has a reference of its own.
DestroyState(b) ==
    /\ made[b] # NoBlock /\ \A k \in Kind : set[k] # b
    /\ made' = [made EXCEPT ![b] = NoBlock]
    /\ UNCHANGED <<bound, set>>

PipelineStep(interface) ==
    \/ \E b \in StateBlock, d \in StateDesc : CreateState(interface, b, d)
    \/ \E b \in StateBlock : SetState(b) \/ DestroyState(b)
    \/ \E k \in Kind : SetNone(k)

-----------------------------------------------------------------------------
(* What a state does to a draw.  The anisotropy counts for the filters that *)
(* are anisotropic, whose description has it in range.                      *)

Effect(d) ==
    CASE d.kind = "depthStencil" ->
           [f \in Face |-> IF d.stencil /\ d.enabled[f] THEN d.test[f] ELSE NoTest]
      [] d.kind = "blend" ->
           [t \in DOMAIN d.target |-> d.target[IF d.independent THEN t ELSE 1]]
      [] d.kind = "rasterizer" -> <<d.samples>>
      [] d.kind = "sampler" -> <<d.anisotropic, IF d.anisotropic THEN d.anisotropy ELSE 0>>

HostEffect(h) ==
    IF h.kind = "depthStencil"
    THEN [f \in Face |-> IF h.stencil THEN h.test[f] ELSE NoTest]
    ELSE Effect(h)

\* A draw is done with what the runtime described and set last, whichever
\* interface the device has: the table it was given reads that interface's
\* descriptions ("The 11.0 table uses the D3D10.1 blend desc (no LogicOp)",
\* tritonDDI.c:429-430), and a face that is individually disabled does
\* nothing (tritonState.c:180-183).
DrawsAsAsked ==
    \A k \in Kind :
        IF set[k] = NoBlock THEN bound[k] = Default
        ELSE bound[k].kind = k /\ HostEffect(bound[k]) = Effect(made[set[k]].asked)
=============================================================================

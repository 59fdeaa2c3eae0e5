----------------------------- MODULE InputLayout -----------------------------
(***************************************************************************)
(* The lazily created input layout of tritonShader.c and tritonState.c: a  *)
(* DDI element layout names shader registers, a host ID3D11InputLayout     *)
(* names semantics, so the host object is built when an element layout and *)
(* a vertex shader are first current together, cached in the element       *)
(* layout under the shader's cookie, and bound.  Where the build asks for  *)
(* it, a private copy of the shader retyped from the vertex formats is     *)
(* bound in the shader's place.  The runtime serialises these calls.       *)
(***************************************************************************)
EXTENDS Naturals

CONSTANTS
    Shader,              \* TRITON_SHADER blocks: addresses, reused once destroyed
    Layout,              \* TRITON_ELEMENTLAYOUT blocks, reused likewise
    Code,                \* vertex shader input signatures
    Elems,               \* element descriptor arrays
    NULL,                \* the null DDI handle
    Unresolvable,        \* pairs <<elems, code>> for which no host layout is asked
    Retyped,             \* pairs whose formats disagree with the signature's types
    Reconcile,           \* the code under #ifndef TRITON_BUILD_COMMON_TRANSLATION_LAYER
    MaxCookie            \* bound: no shader is created past this cookie

NoElems == "none"        \* an array of no elements, which is legal
NoCode == "none"

ASSUME InputLayoutAssumption ==
    /\ NULL \notin Shader \union Layout
    /\ NoElems \notin Elems
    /\ NoCode \notin Code
    /\ Unresolvable \subseteq Elems \X Code
    /\ Retyped \subseteq Elems \X Code
    /\ Reconcile \in BOOLEAN
    /\ MaxCookie \in Nat

VARIABLES
    nextShaderCookie,    \* pD->nextShaderCookie
    shader,              \* shader[s]: is it live, its cookie, its signature
    layout,              \* layout[e]: is it live, its elements, the cached objects
    pCurrentVS,          \* pD->pCurrentVS
    pCurrentLayout,      \* pD->pCurrentLayout
    pBoundReconVS,       \* pD->pBoundReconVS
    contextVS,           \* the vertex shader bound in the host context
    contextLayout        \* the input layout bound in the host context

current == <<pCurrentVS, pCurrentLayout>>
bound == <<pBoundReconVS, contextVS, contextLayout>>
vars == <<nextShaderCookie, shader, layout, current, bound>>

-----------------------------------------------------------------------------
(* Host objects are known by what they were made from: a shader instance   *)
(* (its cookie, 0 for no object), its input signature, and the elements.   *)

Cookie == 0..MaxCookie

HostObject == [cookie : Cookie, code : Code \union {NoCode}, elems : Elems \union {NoElems}]

NoHost == [cookie |-> 0, code |-> NoCode, elems |-> NoElems]

\* The application's own vertex shader.
AppVS(s) ==
    IF s = NULL THEN NoHost
    ELSE [cookie |-> shader[s].cookie, code |-> shader[s].code, elems |-> NoElems]

\* The input layout of e for s, or the copy of s retyped for e.
Built(e, s) ==
    [cookie |-> shader[s].cookie, code |-> shader[s].code, elems |-> layout[e].elems]

IsRecon(vs) == vs.elems # NoElems

LayoutBlock == [live : BOOLEAN, elems : Elems \union {NoElems}, pLayout : HostObject,
                LayoutVsCookie : Cookie, pReconVS : HostObject]

\* Mutant: a field of the block keeps what the allocator left in it.
UnsetLayout == [live |-> FALSE, elems |-> NoElems, pLayout |-> NoHost,
                LayoutVsCookie |-> MaxCookie + 1, pReconVS |-> NoHost]

EmptyLayout == [live |-> FALSE, elems |-> NoElems, pLayout |-> NoHost,
                LayoutVsCookie |-> 0, pReconVS |-> NoHost]

Init ==
    /\ nextShaderCookie = 0
    /\ shader = [s \in Shader |-> [live |-> FALSE, cookie |-> 0, code |-> NoCode]]
    /\ layout = [e \in Layout |-> EmptyLayout]
    /\ pCurrentVS = NULL
    /\ pCurrentLayout = NULL
    /\ pBoundReconVS = NoHost
    /\ contextVS = NoHost
    /\ contextLayout = NoHost

-----------------------------------------------------------------------------
(* tritonUnbindReconVs and tritonResolveInputLayout.  They are called in   *)
(* the middle of a handler, so they take what it has already decided: the  *)
(* current layout e and shader s, the host shader vs and the pBoundReconVS *)
(* recon that are bound when they are called.                              *)

\* Mutant: the retyped shader of the previous layout is left bound.
UnbindReconSkipped(s, vs, recon) ==
    /\ pBoundReconVS' = recon
    /\ contextVS' = vs

UnbindReconVs(s, vs, recon) ==
    /\ pBoundReconVS' = NoHost
    /\ contextVS' = IF recon = NoHost THEN vs ELSE AppVS(s)

NothingToResolve(e, s) == e = NULL \/ s = NULL \/ layout[e].elems = NoElems

\* Mutant: the cookie is not looked at.
CachedForAny(e, s) == layout[e].pLayout # NoHost

Cached(e, s) ==
    /\ layout[e].pLayout # NoHost
    /\ layout[e].LayoutVsCookie = shader[s].cookie

\* The cached objects are bound: the retyped shader if the layout has one,
\* otherwise the application's own is asserted again.
Bind(host, recon, s) ==
    /\ contextLayout' = host
    /\ contextVS' = IF recon # NoHost THEN recon ELSE AppVS(s)
    /\ pBoundReconVS' = recon

BindCached(e, s) ==
    /\ Bind(layout[e].pLayout, layout[e].pReconVS, s)
    /\ UNCHANGED layout

\* No signature, too many elements, or the host refuses: nothing is cached.
BuildFails(e, s, vs, recon) ==
    /\ layout' = [layout EXCEPT ![e].pLayout = NoHost,
                                ![e].LayoutVsCookie = 0,
                                ![e].pReconVS = NoHost]
    /\ UnbindReconVs(s, vs, recon)
    /\ UNCHANGED contextLayout

\* The copies the host may return: creating the retyped one can fail.
ReconOf(e, s) ==
    IF Reconcile /\ <<layout[e].elems, shader[s].code>> \in Retyped
    THEN {NoHost, Built(e, s)}
    ELSE {NoHost}

BuildSucceeds(e, s) ==
    /\ <<layout[e].elems, shader[s].code>> \notin Unresolvable
    /\ \E recon \in ReconOf(e, s) :
          /\ layout' = [layout EXCEPT ![e].pLayout = Built(e, s),
                                      ![e].LayoutVsCookie = shader[s].cookie,
                                      ![e].pReconVS = recon]
          /\ Bind(Built(e, s), recon, s)

Resolve(e, s, vs, recon) ==
    IF NothingToResolve(e, s)
    THEN UnbindReconVs(s, vs, recon) /\ UNCHANGED <<layout, contextLayout>>
    ELSE IF Cached(e, s)
         THEN BindCached(e, s)
         ELSE BuildFails(e, s, vs, recon) \/ BuildSucceeds(e, s)

-----------------------------------------------------------------------------
(* The DDI handlers.                                                       *)

\* Mutant: the cookie is taken from the block, so a reused block repeats it.
NextCookieKept(s) ==
    IF shader[s].cookie # 0 THEN shader[s].cookie ELSE nextShaderCookie + 1

NextCookie(s) == nextShaderCookie + 1

\* tritonCreateVertexShader; when it fails the runtime never uses the block.
CreateShader(s, c, ok) ==
    /\ ~shader[s].live
    /\ nextShaderCookie < MaxCookie
    /\ nextShaderCookie' = nextShaderCookie + 1
    /\ shader' = [shader EXCEPT ![s] = [live |-> ok, cookie |-> NextCookie(s), code |-> c]]
    /\ UNCHANGED <<layout, current, bound>>

\* Mutant: the device keeps the weak reference.
ForgottenVS(s) == pCurrentVS

VSAfterDestroy(s) == IF pCurrentVS = s THEN NULL ELSE pCurrentVS

DestroyShader(s) ==
    /\ shader[s].live
    /\ pCurrentVS' = VSAfterDestroy(s)
    /\ shader' = [shader EXCEPT ![s].live = FALSE]
    /\ UNCHANGED <<nextShaderCookie, layout, pCurrentLayout, bound>>

VsSetShader(s) ==
    /\ s # NULL => shader[s].live
    /\ pCurrentVS' = s
    /\ Resolve(pCurrentLayout, s, AppVS(s), NoHost)
    /\ UNCHANGED <<nextShaderCookie, shader, pCurrentLayout>>

CreateElementLayout(e, elems) ==
    /\ ~layout[e].live
    /\ layout' = [layout EXCEPT ![e] = [EmptyLayout EXCEPT !.live = TRUE, !.elems = elems]]
    /\ UNCHANGED <<nextShaderCookie, shader, current, bound>>

DestroyElementLayout(e) ==
    /\ layout[e].live
    /\ pCurrentLayout' = IF pCurrentLayout = e THEN NULL ELSE pCurrentLayout
    /\ layout' = [layout EXCEPT ![e] = EmptyLayout]
    /\ UNCHANGED <<nextShaderCookie, shader, pCurrentVS, bound>>

IaSetInputLayout(e) ==
    /\ e # NULL => layout[e].live
    /\ pCurrentLayout' = e
    /\ IF e = NULL \/ pCurrentVS = NULL
       THEN /\ contextLayout' = NoHost
            /\ UnbindReconVs(pCurrentVS, contextVS, pBoundReconVS)
            /\ UNCHANGED layout
       ELSE Resolve(e, pCurrentVS, contextVS, pBoundReconVS)
    /\ UNCHANGED <<nextShaderCookie, shader, pCurrentVS>>

Next ==
    \/ \E s \in Shader, c \in Code, ok \in BOOLEAN : CreateShader(s, c, ok)
    \/ \E s \in Shader : DestroyShader(s)
    \/ \E s \in Shader \union {NULL} : VsSetShader(s)
    \/ \E e \in Layout, elems \in Elems \union {NoElems} : CreateElementLayout(e, elems)
    \/ \E e \in Layout : DestroyElementLayout(e)
    \/ \E e \in Layout \union {NULL} : IaSetInputLayout(e)

Spec == Init /\ [][Next]_vars

-----------------------------------------------------------------------------
TypeOK ==
    /\ nextShaderCookie \in Cookie
    /\ shader \in [Shader -> [live : BOOLEAN, cookie : Cookie, code : Code \union {NoCode}]]
    /\ layout \in [Layout -> LayoutBlock]
    /\ pCurrentVS \in Shader \union {NULL}
    /\ pCurrentLayout \in Layout \union {NULL}
    /\ pBoundReconVS \in HostObject
    /\ contextVS \in HostObject
    /\ contextLayout \in HostObject

\* The cookie never takes a layout built for a destroyed shader for one built
\* for the shader that has since been created in the same block.
CacheSound ==
    \A e \in Layout, s \in Shader :
        /\ layout[e].live /\ shader[s].live
        /\ layout[e].LayoutVsCookie = shader[s].cookie
        => /\ layout[e].pLayout = Built(e, s)
           /\ layout[e].pReconVS \in {NoHost, Built(e, s)}

\* The device's weak references never outlive the blocks they point to.
WeakRefsLive ==
    /\ pCurrentVS # NULL => shader[pCurrentVS].live
    /\ pCurrentLayout # NULL => layout[pCurrentLayout].live

\* Draws run the current shader, its own object or the retyped copy of it,
\* whatever sequence of binds, failures and destructions came before.
CurrentShaderBound ==
    pCurrentVS # NULL => contextVS.cookie = shader[pCurrentVS].cookie

\* A retyped copy is bound exactly when pBoundReconVS says so.
ReconTracked ==
    /\ IsRecon(contextVS) => pBoundReconVS = contextVS
    /\ pBoundReconVS # NoHost => contextVS = pBoundReconVS

\* A copy retyped for one layout never feeds draws with another, also when
\* the resolve for the other does not complete.
NoForeignRecon ==
    IsRecon(contextVS) /\ pCurrentVS # NULL /\ pCurrentLayout # NULL =>
        contextVS = Built(pCurrentLayout, pCurrentVS)

\* When the cache holds the objects of the current pair, they are bound.
CurrentPairBound ==
    /\ pCurrentVS # NULL /\ pCurrentLayout # NULL
    /\ Cached(pCurrentLayout, pCurrentVS)
    => /\ contextLayout = layout[pCurrentLayout].pLayout
       /\ contextVS \in {AppVS(pCurrentVS), layout[pCurrentLayout].pReconVS}

\* No two shaders ever share a cookie, and the device has given out no cookie
\* beyond its counter, so no stale cache entry ever comes alive again; blocks
\* without elements, dead ones included, have nothing cached.
CookiesDistinct ==
    /\ \A s \in Shader :
          /\ shader[s].cookie <= nextShaderCookie
          /\ shader[s].live => shader[s].cookie # 0
          /\ \A t \in Shader \ {s} :
                shader[s].cookie # 0 => shader[s].cookie # shader[t].cookie
    /\ \A e \in Layout :
          /\ layout[e].LayoutVsCookie <= nextShaderCookie
          /\ layout[e].elems = NoElems => layout[e].LayoutVsCookie = 0

\* The inductive invariant.
LayoutInv ==
    /\ CookiesDistinct
    /\ CacheSound
    /\ WeakRefsLive
    /\ CurrentShaderBound
    /\ ReconTracked
    /\ NoForeignRecon
    /\ CurrentPairBound

\* A host layout that gets bound was built from the shader and the elements
\* that are current after the call that binds it.
BindsCurrentPair ==
    [][contextLayout' \notin {contextLayout, NoHost} =>
         /\ pCurrentVS' # NULL /\ pCurrentLayout' # NULL
         /\ contextLayout' = Built(pCurrentLayout', pCurrentVS')]_vars

=============================================================================

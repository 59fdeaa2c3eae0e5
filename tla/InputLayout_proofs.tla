------------------------- MODULE InputLayout_proofs -------------------------
(***************************************************************************)
(* Proofs about InputLayout, for any number of shaders, layouts,           *)
(* signatures and element arrays and any outcome of the host calls: the    *)
(* cache never serves a layout built for another shader, and what is bound *)
(* in the context belongs to the current shader and layout.                *)
(***************************************************************************)
EXTENDS InputLayout, TLAPS

USE InputLayoutAssumption

\* Where a call of the resolver leaves the device, e and s being the current
\* layout and shader it was called for.
ResolvedFor(e, s) ==
    /\ s # NULL => contextVS'.cookie = shader[s].cookie
    /\ IsRecon(contextVS') => pBoundReconVS' = contextVS'
    /\ pBoundReconVS' # NoHost => contextVS' = pBoundReconVS'
    /\ IsRecon(contextVS') /\ s # NULL /\ e # NULL => contextVS' = Built(e, s)
    /\ e # NULL /\ s # NULL /\ Cached(e, s)' =>
          /\ contextLayout' = layout'[e].pLayout
          /\ contextVS' \in {AppVS(s), layout'[e].pReconVS}

\* What a call of the resolver may do to the cache of a layout.
CacheKept(e, s) ==
    /\ layout' \in [Layout -> LayoutBlock]
    /\ \A f \in Layout : layout'[f].live = layout[f].live /\ layout'[f].elems = layout[f].elems
    /\ \A f \in Layout : f # e => layout'[f] = layout[f]
    /\ e \in Layout =>
          \/ layout'[e] = layout[e]
          \/ layout'[e].LayoutVsCookie = 0
          \/ /\ s # NULL /\ layout[e].elems # NoElems
             /\ layout'[e].LayoutVsCookie = shader[s].cookie
             /\ layout'[e].pLayout = Built(e, s)
             /\ layout'[e].pReconVS \in {NoHost, Built(e, s)}

\* The objects made for a pair are host objects, and retyped ones when the
\* layout has elements.
LEMMA BuiltTyped ==
    ASSUME TypeOK, NEW e \in Layout, NEW s \in Shader
    PROVE  /\ Built(e, s) \in HostObject /\ AppVS(s) \in HostObject
           /\ NoHost \in HostObject
           /\ ~IsRecon(AppVS(s)) /\ ~IsRecon(NoHost)
           /\ layout[e].elems # NoElems => IsRecon(Built(e, s)) /\ Built(e, s) # NoHost
           /\ Built(e, s).cookie = shader[s].cookie /\ AppVS(s).cookie = shader[s].cookie
  BY DEF TypeOK, LayoutBlock, Built, AppVS, NoHost, HostObject, IsRecon, Cookie

\* The application's shader object is a host object, and not a retyped one.
LEMMA AppTyped ==
    ASSUME TypeOK, NEW s \in Shader
    PROVE  /\ AppVS(s) \in HostObject /\ ~IsRecon(AppVS(s))
           /\ AppVS(s).cookie = shader[s].cookie
  BY DEF TypeOK, AppVS, NoHost, HostObject, IsRecon, Cookie

\* Nothing is bound for the null shader.
LEMMA NullVS == AppVS(NULL) = NoHost /\ NoHost \in HostObject /\ ~IsRecon(NoHost)
  BY DEF AppVS, NoHost, HostObject, IsRecon, Cookie

\* Writing a layout's cached objects keeps its type.
LEMMA CacheWrite ==
    ASSUME TypeOK, NEW e \in Layout, NEW host \in HostObject, NEW c \in Cookie,
           NEW recon \in HostObject
    PROVE  [layout EXCEPT ![e].pLayout = host, ![e].LayoutVsCookie = c,
                          ![e].pReconVS = recon] \in [Layout -> LayoutBlock]
  BY DEF TypeOK, LayoutBlock

\* tritonUnbindReconVs leaves no retyped shader bound.
LEMMA UnbindLeavesApp ==
    ASSUME TypeOK, NEW s \in Shader \union {NULL},
           NEW vs \in HostObject, NEW recon \in HostObject,
           s # NULL => vs.cookie = shader[s].cookie,
           IsRecon(vs) => recon = vs,
           UnbindReconVs(s, vs, recon)
    PROVE  /\ pBoundReconVS' = NoHost
           /\ contextVS' \in HostObject /\ ~IsRecon(contextVS')
           /\ s # NULL => contextVS'.cookie = shader[s].cookie
  <1>1. CASE recon = NoHost
    BY <1>1, NullVS DEF UnbindReconVs
  <1>2. CASE recon # NoHost
    <2>1. CASE s = NULL
      BY <1>2, <2>1, NullVS DEF UnbindReconVs
    <2>2. CASE s # NULL
      BY <1>2, <2>2 DEF UnbindReconVs, TypeOK, AppVS, NoHost, HostObject, IsRecon, Cookie
    <2> QED
      BY <2>1, <2>2
  <1> QED
    BY <1>1, <1>2

\* Binding a host layout with or without a retyped shader of the same pair.
LEMMA BindLeavesPair ==
    ASSUME TypeOK, NEW e \in Layout, NEW s \in Shader,
           layout[e].elems # NoElems, NEW recon \in {NoHost, Built(e, s)},
           Bind(Built(e, s), recon, s)
    PROVE  /\ contextLayout' = Built(e, s) /\ contextLayout' \in HostObject
           /\ pBoundReconVS' = recon /\ pBoundReconVS' \in HostObject
           /\ contextVS' \in HostObject
           /\ contextVS' \in {AppVS(s), Built(e, s)}
           /\ contextVS'.cookie = shader[s].cookie
           /\ recon = NoHost => contextVS' = AppVS(s)
           /\ recon # NoHost => contextVS' = recon
  BY BuiltTyped DEF Bind

\* The resolver, called with s's shader or its retyped copy bound, leaves the
\* current pair's objects bound or at least the current shader, and puts into
\* the cache only what it has just built for the pair.
LEMMA ResolveCorrect ==
    ASSUME TypeOK, CacheSound, CookiesDistinct,
           NEW e \in Layout \union {NULL}, NEW s \in Shader \union {NULL},
           NEW vs \in HostObject, NEW recon \in HostObject,
           e # NULL => layout[e].live, s # NULL => shader[s].live,
           s # NULL => vs.cookie = shader[s].cookie,
           IsRecon(vs) => recon = vs,
           UNCHANGED shader,
           Resolve(e, s, vs, recon)
    PROVE  /\ ResolvedFor(e, s) /\ CacheKept(e, s)
           /\ pBoundReconVS' \in HostObject /\ contextVS' \in HostObject
           /\ contextLayout' \in HostObject
           /\ contextLayout' \in {contextLayout, NoHost} \/
                 (e # NULL /\ s # NULL /\ contextLayout' = Built(e, s))
  <1>1. CASE NothingToResolve(e, s)
    <2>1. /\ UnbindReconVs(s, vs, recon)
          /\ UNCHANGED <<layout, contextLayout>>
      BY <1>1 DEF Resolve
    <2>2. /\ pBoundReconVS' = NoHost
          /\ contextVS' \in HostObject /\ ~IsRecon(contextVS')
          /\ s # NULL => contextVS'.cookie = shader[s].cookie
      BY <2>1, UnbindLeavesApp
    <2>3. ASSUME e # NULL, s # NULL PROVE ~Cached(e, s)
      <3>1. layout[e].elems = NoElems /\ e \in Layout /\ s \in Shader
        BY <1>1, <2>3 DEF NothingToResolve
      <3>2. layout[e].LayoutVsCookie = 0 /\ shader[s].cookie # 0
        BY <2>3, <3>1 DEF CookiesDistinct
      <3> QED
        BY <3>2 DEF Cached
    <2>4. ResolvedFor(e, s)
      BY <2>1, <2>2, <2>3 DEF ResolvedFor, Cached
    <2>5. CacheKept(e, s)
      BY <2>1 DEF CacheKept, TypeOK
    <2> QED
      BY <2>1, <2>2, <2>4, <2>5, NullVS DEF TypeOK
  <1>2. CASE ~NothingToResolve(e, s) /\ Cached(e, s)
    <2>1. /\ e \in Layout /\ s \in Shader /\ layout[e].elems # NoElems
          /\ BindCached(e, s)
      BY <1>2 DEF Resolve, NothingToResolve
    <2>2. layout[e].pLayout = Built(e, s) /\ layout[e].pReconVS \in {NoHost, Built(e, s)}
      BY <1>2, <2>1 DEF Cached, CacheSound
    <2>3. Bind(Built(e, s), layout[e].pReconVS, s) /\ layout' = layout
      BY <2>1, <2>2 DEF BindCached
    <2>4. /\ contextLayout' = Built(e, s) /\ contextLayout' \in HostObject
          /\ pBoundReconVS' = layout[e].pReconVS /\ pBoundReconVS' \in HostObject
          /\ contextVS' \in HostObject
          /\ contextVS'.cookie = shader[s].cookie
          /\ layout[e].pReconVS = NoHost => contextVS' = AppVS(s)
          /\ layout[e].pReconVS # NoHost => contextVS' = layout[e].pReconVS
      BY <2>1, <2>2, <2>3, BindLeavesPair
    <2>5. ResolvedFor(e, s)
      BY <2>1, <2>2, <2>3, <2>4, BuiltTyped DEF ResolvedFor
    <2>6. CacheKept(e, s)
      BY <2>3 DEF CacheKept, TypeOK
    <2> QED
      BY <2>1, <2>4, <2>5, <2>6
  <1>3. CASE ~NothingToResolve(e, s) /\ ~Cached(e, s)
    <2>1. /\ e \in Layout /\ s \in Shader /\ layout[e].elems # NoElems
          /\ BuildFails(e, s, vs, recon) \/ BuildSucceeds(e, s)
      BY <1>3 DEF Resolve, NothingToResolve
    <2>2. CASE BuildFails(e, s, vs, recon)
      <3>1. /\ pBoundReconVS' = NoHost
            /\ contextVS' \in HostObject /\ ~IsRecon(contextVS')
            /\ contextVS'.cookie = shader[s].cookie
            /\ contextLayout' = contextLayout
        BY <2>1, <2>2, UnbindLeavesApp DEF BuildFails
      <3>a. 0 \in Cookie
        BY DEF Cookie
      <3>b. /\ layout'[e].pLayout = NoHost /\ layout'[e].pReconVS = NoHost
            /\ layout'[e].LayoutVsCookie = 0
            /\ layout'[e].live = layout[e].live /\ layout'[e].elems = layout[e].elems
        BY <2>1, <2>2 DEF BuildFails, TypeOK, LayoutBlock
      <3>c. \A f \in Layout : f # e => layout'[f] = layout[f]
        BY <2>2 DEF BuildFails, TypeOK, LayoutBlock
      <3>d. layout' \in [Layout -> LayoutBlock]
        BY <2>1, <2>2, <3>a, NullVS, CacheWrite DEF BuildFails
      <3>2. CacheKept(e, s) /\ layout'[e].pLayout = NoHost
        BY <3>b, <3>c, <3>d DEF CacheKept
      <3>3. ResolvedFor(e, s)
        BY <2>1, <3>1, <3>2 DEF ResolvedFor, Cached
      <3> QED
        BY <3>1, <3>2, <3>3, NullVS DEF TypeOK
    <2>3. CASE BuildSucceeds(e, s)
      <3>1. PICK copy \in ReconOf(e, s) :
              /\ layout' = [layout EXCEPT ![e].pLayout = Built(e, s),
                                          ![e].LayoutVsCookie = shader[s].cookie,
                                          ![e].pReconVS = copy]
              /\ Bind(Built(e, s), copy, s)
        BY <2>3 DEF BuildSucceeds
      <3>2. copy \in {NoHost, Built(e, s)} /\ copy \in HostObject
        BY <2>1, <3>1, BuiltTyped DEF ReconOf
      <3>3. /\ contextLayout' = Built(e, s) /\ contextLayout' \in HostObject
            /\ pBoundReconVS' = copy /\ pBoundReconVS' \in HostObject
            /\ contextVS' \in HostObject
            /\ contextVS'.cookie = shader[s].cookie
            /\ copy = NoHost => contextVS' = AppVS(s)
            /\ copy # NoHost => contextVS' = copy
        BY <2>1, <3>1, <3>2, BindLeavesPair
      <3>4. /\ layout'[e].pLayout = Built(e, s) /\ layout'[e].pReconVS = copy
            /\ layout'[e].LayoutVsCookie = shader[s].cookie
            /\ layout'[e].live = layout[e].live /\ layout'[e].elems = layout[e].elems
        BY <2>1, <3>1 DEF TypeOK, LayoutBlock
      <3>5. ResolvedFor(e, s)
        BY <2>1, <3>2, <3>3, <3>4, BuiltTyped DEF ResolvedFor
      <3>6. Built(e, s) \in HostObject /\ shader[s].cookie \in Cookie
        BY <2>1, BuiltTyped DEF TypeOK
      <3>7. CacheKept(e, s)
        <4>1. layout' \in [Layout -> LayoutBlock]
          BY <2>1, <3>1, <3>2, <3>6, CacheWrite
        <4>2. \A f \in Layout : f # e => layout'[f] = layout[f]
          BY <3>1 DEF TypeOK
        <4> QED
          BY <2>1, <3>2, <3>4, <4>1, <4>2 DEF CacheKept
      <3> QED
        BY <2>1, <3>3, <3>5, <3>7
    <2> QED
      BY <2>1, <2>2, <2>3
  <1> QED
    BY <1>1, <1>2, <1>3

-----------------------------------------------------------------------------
\* A handler that ends in the resolver keeps the invariant, whatever was
\* current before it.
LEMMA ResolverKeepsInv ==
    ASSUME TypeOK, LayoutInv,
           NEW e \in Layout \union {NULL}, NEW s \in Shader \union {NULL},
           e # NULL => layout[e].live, s # NULL => shader[s].live,
           pCurrentLayout' = e, pCurrentVS' = s,
           UNCHANGED <<nextShaderCookie, shader>>,
           ResolvedFor(e, s), CacheKept(e, s),
           pBoundReconVS' \in HostObject, contextVS' \in HostObject,
           contextLayout' \in HostObject
    PROVE  TypeOK' /\ LayoutInv'
  <1>1. TypeOK'
    BY DEF TypeOK, CacheKept
  <1>2. WeakRefsLive'
    BY DEF WeakRefsLive, CacheKept
  <1>3. \A f \in Layout, t \in Shader : Built(f, t)' = Built(f, t) /\ AppVS(t)' = AppVS(t)
    BY NullVS DEF Built, AppVS, CacheKept
  <1>4. CookiesDistinct'
    <2>1. ASSUME NEW f \in Layout
          PROVE  /\ layout'[f].LayoutVsCookie <= nextShaderCookie'
                 /\ layout'[f].elems = NoElems => layout'[f].LayoutVsCookie = 0
      <3>1. CASE layout'[f] = layout[f]
        BY <3>1 DEF LayoutInv, CookiesDistinct
      <3>2. CASE layout'[f].LayoutVsCookie = 0
        BY <3>2 DEF TypeOK, Cookie
      <3>3. CASE layout'[f] # layout[f] /\ layout'[f].LayoutVsCookie # 0
        <4>1. f = e /\ e \in Layout /\ s \in Shader
          BY <3>3 DEF CacheKept
        <4>2. /\ layout'[e].LayoutVsCookie = shader[s].cookie
              /\ layout[e].elems # NoElems /\ layout'[e].elems = layout[e].elems
          BY <3>3, <4>1 DEF CacheKept
        <4> QED
          BY <4>1, <4>2 DEF LayoutInv, CookiesDistinct
      <3> QED
        BY <3>1, <3>2, <3>3
    <2> QED
      BY <2>1 DEF LayoutInv, CookiesDistinct
  <1>5. CacheSound'
    <2>1. ASSUME NEW f \in Layout, NEW t \in Shader,
                 layout'[f].live, shader'[t].live,
                 layout'[f].LayoutVsCookie = shader'[t].cookie
          PROVE  /\ layout'[f].pLayout = Built(f, t)
                 /\ layout'[f].pReconVS \in {NoHost, Built(f, t)}
      <3>1. CASE layout'[f] = layout[f]
        BY <2>1, <3>1 DEF LayoutInv, CacheSound
      <3>2. CASE layout'[f].LayoutVsCookie = 0
        BY <2>1, <3>2 DEF LayoutInv, CookiesDistinct
      <3>3. CASE layout'[f] # layout[f] /\ layout'[f].LayoutVsCookie # 0
        <4>1. f = e /\ e \in Layout /\ s \in Shader
          BY <3>3 DEF CacheKept
        <4>2. /\ layout'[e].LayoutVsCookie = shader[s].cookie
              /\ layout'[e].pLayout = Built(e, s)
              /\ layout'[e].pReconVS \in {NoHost, Built(e, s)}
          BY <3>3, <4>1 DEF CacheKept
        <4>3. t = s
          BY <2>1, <3>3, <4>1, <4>2 DEF LayoutInv, CookiesDistinct
        <4> QED
          BY <4>1, <4>2, <4>3
      <3> QED
        BY <3>1, <3>2, <3>3
    <2> QED
      BY <1>3, <2>1 DEF CacheSound, NoHost
  <1>6. CurrentShaderBound' /\ ReconTracked'
    BY DEF ResolvedFor, CurrentShaderBound, ReconTracked, IsRecon, NoHost
  <1>7. NoForeignRecon'
    BY <1>3 DEF ResolvedFor, NoForeignRecon, IsRecon
  <1>8. CurrentPairBound'
    <2>1. ASSUME e # NULL, s # NULL, Cached(e, s)'
          PROVE  /\ contextLayout' = layout'[e].pLayout
                 /\ contextVS' \in {AppVS(s)', layout'[e].pReconVS}
      BY <1>3, <2>1 DEF ResolvedFor
    <2> QED
      BY <2>1 DEF CurrentPairBound, Cached, AppVS
  <1> QED
    BY <1>1, <1>2, <1>4, <1>5, <1>6, <1>7, <1>8 DEF LayoutInv

\* The handlers that call the resolver.
LEMMA SetStep ==
    ASSUME TypeOK, LayoutInv,
           \/ \E s \in Shader \union {NULL} : VsSetShader(s)
           \/ \E e \in Layout \union {NULL} : IaSetInputLayout(e)
    PROVE  TypeOK' /\ LayoutInv' /\
           (contextLayout' \notin {contextLayout, NoHost} =>
              /\ pCurrentVS' # NULL /\ pCurrentLayout' # NULL
              /\ contextLayout' = Built(pCurrentLayout', pCurrentVS'))
  <1>1. ASSUME NEW s \in Shader \union {NULL}, VsSetShader(s)
        PROVE  /\ TypeOK' /\ LayoutInv'
               /\ contextLayout' \in {contextLayout, NoHost} \/
                    (pCurrentVS' # NULL /\ pCurrentLayout' # NULL
                       /\ contextLayout' = Built(pCurrentLayout', pCurrentVS'))
    <2>1. /\ pCurrentVS' = s /\ pCurrentLayout' = pCurrentLayout
          /\ pCurrentLayout \in Layout \union {NULL}
          /\ pCurrentLayout # NULL => layout[pCurrentLayout].live
          /\ s # NULL => shader[s].live
          /\ UNCHANGED <<nextShaderCookie, shader>>
          /\ Resolve(pCurrentLayout, s, AppVS(s), NoHost)
      BY <1>1 DEF VsSetShader, LayoutInv, WeakRefsLive, TypeOK
    <2>2. /\ AppVS(s) \in HostObject /\ NoHost \in HostObject /\ ~IsRecon(AppVS(s))
          /\ s # NULL => AppVS(s).cookie = shader[s].cookie
      BY NullVS, AppTyped
    <2>3. PICK e \in Layout \union {NULL} : e = pCurrentLayout
      BY <2>1
    <2>4. Resolve(e, s, AppVS(s), NoHost) /\ UNCHANGED shader
      BY <2>1, <2>3
    <2>5. /\ ResolvedFor(e, s) /\ CacheKept(e, s)
          /\ pBoundReconVS' \in HostObject /\ contextVS' \in HostObject
          /\ contextLayout' \in HostObject
          /\ contextLayout' \in {contextLayout, NoHost} \/
                (e # NULL /\ s # NULL /\ contextLayout' = Built(e, s))
      BY <2>1, <2>2, <2>3, <2>4, ResolveCorrect DEF LayoutInv
    <2>6. TypeOK' /\ LayoutInv'
      BY <2>1, <2>3, <2>5, ResolverKeepsInv
    <2> QED
      BY <2>1, <2>3, <2>5, <2>6
  <1>2. ASSUME NEW e \in Layout \union {NULL}, IaSetInputLayout(e)
        PROVE  /\ TypeOK' /\ LayoutInv'
               /\ contextLayout' \in {contextLayout, NoHost} \/
                    (pCurrentVS' # NULL /\ pCurrentLayout' # NULL
                       /\ contextLayout' = Built(pCurrentLayout', pCurrentVS'))
    <2> DEFINE s == pCurrentVS
    <2>1. /\ pCurrentLayout' = e /\ pCurrentVS' = s /\ s \in Shader \union {NULL}
          /\ e # NULL => layout[e].live
          /\ s # NULL => shader[s].live
          /\ UNCHANGED <<nextShaderCookie, shader>>
          /\ contextVS \in HostObject /\ pBoundReconVS \in HostObject
          /\ s # NULL => contextVS.cookie = shader[s].cookie
          /\ IsRecon(contextVS) => pBoundReconVS = contextVS
      BY <1>2 DEF IaSetInputLayout, LayoutInv, WeakRefsLive, CurrentShaderBound,
         ReconTracked, TypeOK
    <2>2. CASE e = NULL \/ s = NULL
      <3>1. /\ contextLayout' = NoHost /\ layout' = layout
            /\ UnbindReconVs(s, contextVS, pBoundReconVS)
        BY <1>2, <2>2 DEF IaSetInputLayout
      <3>2. /\ pBoundReconVS' = NoHost
            /\ contextVS' \in HostObject /\ ~IsRecon(contextVS')
            /\ s # NULL => contextVS'.cookie = shader[s].cookie
        BY <2>1, <3>1, UnbindLeavesApp
      <3>3. ResolvedFor(e, s)
        BY <2>2, <3>2 DEF ResolvedFor
      <3>4. CacheKept(e, s)
        BY <3>1 DEF CacheKept, TypeOK
      <3> QED
        BY <2>1, <3>1, <3>2, <3>3, <3>4, NullVS, ResolverKeepsInv
    <2>3. CASE e # NULL /\ s # NULL
      <3>1. Resolve(e, s, contextVS, pBoundReconVS)
        BY <1>2, <2>3 DEF IaSetInputLayout
      <3> HIDE DEF s
      <3> QED
        BY <2>1, <2>3, <3>1, ResolveCorrect, ResolverKeepsInv DEF LayoutInv
    <2> QED
      BY <2>2, <2>3
  <1> QED
    BY <1>1, <1>2

\* Creating a shader: its cookie is new, so nothing cached can match it.
LEMMA CreateShaderStep ==
    ASSUME TypeOK, LayoutInv, NEW s \in Shader, NEW c \in Code, NEW ok \in BOOLEAN,
           CreateShader(s, c, ok)
    PROVE  TypeOK' /\ LayoutInv'
  <1>1. /\ ~shader[s].live
        /\ nextShaderCookie' = nextShaderCookie + 1 /\ nextShaderCookie' \in Cookie
        /\ shader' = [shader EXCEPT ![s] = [live |-> ok, cookie |-> nextShaderCookie + 1,
                                           code |-> c]]
        /\ UNCHANGED <<layout, pCurrentVS, pCurrentLayout, pBoundReconVS, contextVS,
                       contextLayout>>
    BY DEF CreateShader, NextCookie, current, bound, TypeOK, Cookie
  <1>2. TypeOK'
    BY <1>1 DEF TypeOK
  <1>3. /\ shader'[s].cookie = nextShaderCookie + 1
        /\ \A t \in Shader : t # s => shader'[t] = shader[t]
    BY <1>1 DEF TypeOK
  <1>4. \A t \in Shader : shader[t].cookie \in Nat /\ shader[t].cookie < nextShaderCookie + 1
    BY DEF TypeOK, Cookie, LayoutInv, CookiesDistinct
  <1>5. \A e \in Layout : layout[e].LayoutVsCookie \in Nat
                          /\ layout[e].LayoutVsCookie < nextShaderCookie + 1
    BY DEF TypeOK, LayoutBlock, Cookie, LayoutInv, CookiesDistinct
  <1>6. CookiesDistinct'
    <2>1. nextShaderCookie \in Nat
      BY DEF TypeOK, Cookie
    <2>2. \A t \in Shader :
            /\ shader'[t].cookie <= nextShaderCookie'
            /\ shader'[t].live => shader'[t].cookie # 0
      BY <1>1, <1>3, <1>4, <2>1 DEF LayoutInv, CookiesDistinct
    <2>3. \A t, u \in Shader :
            u # t /\ shader'[t].cookie # 0 => shader'[t].cookie # shader'[u].cookie
      BY <1>3, <1>4, <2>1 DEF LayoutInv, CookiesDistinct
    <2>4. \A e \in Layout :
            /\ layout'[e].LayoutVsCookie <= nextShaderCookie'
            /\ layout'[e].elems = NoElems => layout'[e].LayoutVsCookie = 0
      BY <1>1, <1>5, <2>1 DEF LayoutInv, CookiesDistinct
    <2> QED
      BY <2>2, <2>3, <2>4 DEF CookiesDistinct
  <1>7. pCurrentVS # s
    BY <1>1 DEF LayoutInv, WeakRefsLive
  <1>8. \A e \in Layout, t \in Shader : t # s => Built(e, t)' = Built(e, t)
    BY <1>1, <1>3 DEF Built
  <1>9. CacheSound'
    <2>1. \A e \in Layout : layout'[e].LayoutVsCookie # shader'[s].cookie
      BY <1>1, <1>3, <1>5
    <2> QED
      BY <1>1, <1>3, <1>8, <2>1 DEF LayoutInv, CacheSound, NoHost
  <1>10. WeakRefsLive' /\ CurrentShaderBound' /\ ReconTracked'
    BY <1>1, <1>3, <1>7 DEF TypeOK, LayoutInv, WeakRefsLive, CurrentShaderBound,
       ReconTracked, IsRecon, NoHost
  <1>11. NoForeignRecon'
    BY <1>1, <1>7, <1>8 DEF TypeOK, LayoutInv, NoForeignRecon, IsRecon
  <1>12. pCurrentVS # NULL => AppVS(pCurrentVS)' = AppVS(pCurrentVS)
    BY <1>1, <1>3, <1>7 DEF AppVS, TypeOK
  <1>13. CurrentPairBound'
    BY <1>1, <1>3, <1>7, <1>12 DEF TypeOK, LayoutInv, CurrentPairBound, Cached, NoHost
  <1> QED
    BY <1>2, <1>6, <1>9, <1>10, <1>11, <1>13 DEF LayoutInv

\* Destroying a shader clears the reference to it and touches nothing else.
LEMMA DestroyShaderStep ==
    ASSUME TypeOK, LayoutInv, NEW s \in Shader, DestroyShader(s)
    PROVE  TypeOK' /\ LayoutInv'
  <1>1. /\ pCurrentVS' = IF pCurrentVS = s THEN NULL ELSE pCurrentVS
        /\ shader' = [shader EXCEPT ![s].live = FALSE]
        /\ UNCHANGED <<nextShaderCookie, layout, pCurrentLayout, pBoundReconVS,
                       contextVS, contextLayout>>
    BY DEF DestroyShader, VSAfterDestroy, bound
  <1>2. TypeOK'
    BY <1>1 DEF TypeOK
  <1>3. \A t \in Shader :
          /\ shader'[t].cookie = shader[t].cookie /\ shader'[t].code = shader[t].code
          /\ shader'[t].live => shader[t].live
          /\ t # s => shader'[t].live = shader[t].live
    BY <1>1 DEF TypeOK
  <1>4. \A e \in Layout, t \in Shader : Built(e, t)' = Built(e, t)
    BY <1>1, <1>3 DEF Built
  <1>5. \A t \in Shader : AppVS(t)' = AppVS(t)
    BY <1>3 DEF AppVS
  <1>6. CookiesDistinct'
    BY <1>1, <1>3 DEF LayoutInv, CookiesDistinct
  <1>7. CacheSound'
    BY <1>1, <1>3, <1>4 DEF LayoutInv, CacheSound, NoHost
  <1>8. WeakRefsLive' /\ CurrentShaderBound' /\ ReconTracked'
    BY <1>1, <1>3 DEF TypeOK, LayoutInv, WeakRefsLive, CurrentShaderBound,
       ReconTracked, IsRecon, NoHost
  <1>9. NoForeignRecon'
    BY <1>1, <1>4 DEF TypeOK, LayoutInv, NoForeignRecon, IsRecon
  <1>10. CurrentPairBound'
    BY <1>1, <1>3, <1>5 DEF TypeOK, LayoutInv, CurrentPairBound, Cached, NoHost
  <1> QED
    BY <1>2, <1>6, <1>7, <1>8, <1>9, <1>10 DEF LayoutInv

\* Creating or destroying an element layout empties its block; a block that
\* is created was not current, and one that is destroyed is not any more.
LEMMA LayoutBlockStep ==
    ASSUME TypeOK, LayoutInv, NEW e \in Layout,
           \/ \E elems \in Elems \union {NoElems} : CreateElementLayout(e, elems)
           \/ DestroyElementLayout(e)
    PROVE  TypeOK' /\ LayoutInv'
  <1>0. EmptyLayout \in LayoutBlock
    BY NullVS DEF EmptyLayout, LayoutBlock, Cookie
  <1>1. /\ layout' \in [Layout -> LayoutBlock]
        /\ layout'[e].LayoutVsCookie = 0 /\ layout'[e].pLayout = NoHost
        /\ \A f \in Layout : f # e => layout'[f] = layout[f]
    <2>1. \A elems \in Elems \union {NoElems} :
             LET b == [EmptyLayout EXCEPT !.live = TRUE, !.elems = elems]
             IN  b \in LayoutBlock /\ b.LayoutVsCookie = 0 /\ b.pLayout = NoHost
      BY <1>0 DEF EmptyLayout, LayoutBlock
    <2>2. EmptyLayout.LayoutVsCookie = 0 /\ EmptyLayout.pLayout = NoHost
      BY DEF EmptyLayout
    <2>3. PICK b \in LayoutBlock :
            b.LayoutVsCookie = 0 /\ b.pLayout = NoHost /\ layout' = [layout EXCEPT ![e] = b]
      BY <1>0, <2>1, <2>2 DEF CreateElementLayout, DestroyElementLayout
    <2> QED
      BY <2>3 DEF TypeOK
  <1>2. /\ pCurrentLayout' \in {pCurrentLayout, NULL} /\ pCurrentLayout' # e
        /\ UNCHANGED <<nextShaderCookie, shader, pCurrentVS, pBoundReconVS, contextVS,
                       contextLayout>>
    BY DEF CreateElementLayout, DestroyElementLayout, current, bound, LayoutInv,
       WeakRefsLive
  <1>3. TypeOK'
    BY <1>1, <1>2 DEF TypeOK
  <1>4. /\ \A f \in Layout, t \in Shader : f # e => Built(f, t)' = Built(f, t)
        /\ \A t \in Shader : AppVS(t)' = AppVS(t)
    BY <1>1, <1>2 DEF Built, AppVS
  <1>5. CookiesDistinct'
    BY <1>1, <1>2 DEF LayoutInv, CookiesDistinct, TypeOK, Cookie
  <1>6. CacheSound'
    <2>1. \A t \in Shader : shader'[t].live => layout'[e].LayoutVsCookie # shader'[t].cookie
      BY <1>1, <1>2 DEF LayoutInv, CookiesDistinct
    <2> QED
      BY <1>1, <1>2, <1>4, <2>1 DEF LayoutInv, CacheSound, NoHost
  <1>7. WeakRefsLive' /\ CurrentShaderBound' /\ ReconTracked'
    BY <1>1, <1>2 DEF TypeOK, LayoutInv, WeakRefsLive, CurrentShaderBound,
       ReconTracked, IsRecon, NoHost
  <1>8. NoForeignRecon'
    BY <1>2, <1>4 DEF TypeOK, LayoutInv, NoForeignRecon, IsRecon
  <1>9. CurrentPairBound'
    BY <1>1, <1>2, <1>4 DEF TypeOK, LayoutInv, CurrentPairBound, Cached, NoHost
  <1> QED
    BY <1>3, <1>5, <1>6, <1>7, <1>8, <1>9 DEF LayoutInv

\* Every step preserves types and invariant.
LEMMA LayoutStep == TypeOK /\ LayoutInv /\ [Next]_vars => TypeOK' /\ LayoutInv'
  <1> SUFFICES ASSUME TypeOK, LayoutInv, [Next]_vars PROVE TypeOK' /\ LayoutInv'
    OBVIOUS
  <1>1. CASE UNCHANGED vars
    BY <1>1 DEF vars, current, bound, TypeOK, LayoutInv, CookiesDistinct, CacheSound,
       WeakRefsLive, CurrentShaderBound, ReconTracked, NoForeignRecon,
       CurrentPairBound, Cached, Built, AppVS
  <1>2. CASE Next
    BY <1>2, SetStep, CreateShaderStep, DestroyShaderStep, LayoutBlockStep DEF Next
  <1> QED
    BY <1>1, <1>2

\* Types and the inductive invariant hold throughout.
THEOREM LayoutInvariant == Spec => [](TypeOK /\ LayoutInv)
  <1>1. Init => TypeOK /\ LayoutInv
    BY NullVS DEF Init, TypeOK, EmptyLayout, LayoutBlock, Cookie, LayoutInv,
       CookiesDistinct, CacheSound, WeakRefsLive, CurrentShaderBound, ReconTracked,
       NoForeignRecon, CurrentPairBound
  <1> QED
    BY <1>1, LayoutStep, PTL DEF Spec

\* A cached layout is never one built for another shader that lived in the
\* same block before.
THEOREM CacheNeverAliases == Spec => []CacheSound
  BY LayoutInvariant, PTL DEF LayoutInv

\* Draws always run the current shader.
THEOREM DrawsRunCurrentShader == Spec => []CurrentShaderBound
  BY LayoutInvariant, PTL DEF LayoutInv

\* A shader retyped for one layout never feeds draws with another.
THEOREM ReconNeverForeign == Spec => []NoForeignRecon
  BY LayoutInvariant, PTL DEF LayoutInv

\* Whatever host layout gets bound was built for the pair that is current.
THEOREM BindsOnlyCurrentPair == Spec => BindsCurrentPair
  <1>1. TypeOK /\ LayoutInv /\ [Next]_vars =>
          [contextLayout' \notin {contextLayout, NoHost} =>
             /\ pCurrentVS' # NULL /\ pCurrentLayout' # NULL
             /\ contextLayout' = Built(pCurrentLayout', pCurrentVS')]_vars
    <2> SUFFICES ASSUME TypeOK, LayoutInv, Next, contextLayout' \notin {contextLayout, NoHost}
                 PROVE  /\ pCurrentVS' # NULL /\ pCurrentLayout' # NULL
                        /\ contextLayout' = Built(pCurrentLayout', pCurrentVS')
      BY DEF vars
    <2>1. \/ \E s \in Shader \union {NULL} : VsSetShader(s)
          \/ \E e \in Layout \union {NULL} : IaSetInputLayout(e)
      BY DEF Next, CreateShader, DestroyShader, CreateElementLayout,
         DestroyElementLayout, bound
    <2> QED
      BY <2>1, SetStep
  <1> QED
    BY <1>1, LayoutInvariant, PTL DEF Spec, BindsCurrentPair
=============================================================================

------------------------ MODULE ResourceViews_proofs ------------------------
(* The inductive invariant of ResourceViews, for any numbers of wrappers,  *)
(* views and images.                                                       *)
EXTENDS ResourceViews, FiniteSetTheorems, TLAPS

USE DEF Slot

-----------------------------------------------------------------------------
(* Helpers.                                                                *)

LEMMA SourceFacts ==
    ASSUME NEW q \in Rotations
    PROVE  /\ Rotated(q) \subseteq LiveResource
           /\ \A r \in Rotated(q) : Source(q, r) \in Rotated(q)
           /\ \A r, t \in Rotated(q) : Source(q, r) = Source(q, t) => r = t
           /\ \A r, t \in Rotated(q) : resource[r].request = resource[t].request
           /\ \A r \in Rotated(q) : resource[r].request \in {"plain", "present"}
<1>1. Cardinality(Resource) \in Nat
  BY FS_CardinalityType, ResourceViewsAssumption
<1>2. PICK n \in 2..Cardinality(Resource) : q \in [1..n -> LiveResource]
  BY DEF Rotations
<1>3. n \in Nat /\ n >= 2 /\ DOMAIN q = 1..n
  BY <1>1, <1>2
<1>4. \A i, j \in 1..n : q[i] = q[j] => i = j
  BY <1>3 DEF Rotations
<1>5. \A i, j \in 1..n :
         /\ resource[q[i]].request = resource[q[j]].request
         /\ resource[q[i]].request \in {"plain", "present"}
  BY <1>3 DEF Rotations
<1>6. \A i \in 1..n : Source(q, q[i]) = IF i < n THEN q[i + 1] ELSE q[1]
  <2> SUFFICES ASSUME NEW i \in 1..n
               PROVE  Source(q, q[i]) = IF i < n THEN q[i + 1] ELSE q[1]
    OBVIOUS
  <2>1. (CHOOSE j \in DOMAIN q : q[j] = q[i]) = i
    BY <1>3, <1>4
  <2>2. i + 1 \in DOMAIN q <=> i < n
    BY <1>3
  <2>3. Source(q, q[i]) = LET k == CHOOSE j \in DOMAIN q : q[j] = q[i]
                          IN IF k + 1 \in DOMAIN q THEN q[k + 1] ELSE q[1]
    BY DEF Source
  <2>4. Source(q, q[i]) = IF i + 1 \in DOMAIN q THEN q[i + 1] ELSE q[1]
    BY <2>1, <2>3, Zenon
  <2> QED
    BY <2>2, <2>4
<1>7. \A r \in Rotated(q) : \E i \in 1..n : r = q[i]
  BY <1>3 DEF Rotated
<1>8. \A i \in 1..n : q[i] \in Rotated(q) /\ q[i] \in LiveResource
  BY <1>2, <1>3 DEF Rotated
<1>9. \A r \in Rotated(q) : Source(q, r) \in Rotated(q)
  BY <1>3, <1>6, <1>7, <1>8
<1>10. ASSUME NEW i \in 1..n, NEW j \in 1..n, Source(q, q[i]) = Source(q, q[j])
       PROVE  i = j
  BY <1>3, <1>4, <1>6, <1>10
<1> QED
  BY <1>5, <1>7, <1>8, <1>9, <1>10

LEMMA WalkIsViews ==
    ASSUME ListsComplete
    PROVE  \A r \in Resource : Walked(r) = ViewsOf(r)
BY DEF ListsComplete, Walked, ViewsOf

\* A wrapper without views has an empty list.
LEMMA EmptyList ==
    ASSUME TypeOK, ListsComplete, NEW r \in Resource, ViewsOf(r) = {}
    PROVE  link[r] = NULL
BY DEF ListsComplete, Closed

LEMMA EmptyLink ==
    ASSUME TypeOK, NEW r \in Resource, link[r] = NULL
    PROVE  [link EXCEPT ![r] = NULL] = link
BY DEF TypeOK

-----------------------------------------------------------------------------
(* Type correctness.                                                       *)

LEMMA TypeInit == Init => TypeOK
BY DEF Init, TypeOK, Body, NoBody, Request

LEMMA MovedType ==
    ASSUME TypeOK, NEW q \in Rotations
    PROVE  MovedBody(q) \in [Resource -> Body]
<1> SUFFICES ASSUME NEW r \in Rotated(q)
             PROVE  Move(q, r) \in Body
  BY DEF MovedBody, TypeOK
<1>1. r \in Resource /\ Source(q, r) \in Resource
  BY SourceFacts DEF LiveResource
<1> QED
  BY <1>1 DEF Move, TypeOK, Body

LEMMA RecreatedType ==
    ASSUME TypeOK, NEW q \in Rotations, NEW lost
    PROVE  Recreated(q, lost) \in [View -> Image \union {NULL}]
<1> SUFFICES ASSUME NEW v \in View
             PROVE  Recreated(q, lost)[v] \in Image \union {NULL}
  BY DEF Recreated
<1>1. CASE \E r \in Rotated(q) : v \in Walked(r)
  <2> DEFINE r == CHOOSE r \in Rotated(q) : v \in Walked(r)
  <2>1. r \in Resource
    BY <1>1, SourceFacts DEF LiveResource
  <2>2. MovedBody(q)[r].pResource \in Image \union {NULL}
    BY <2>1, MovedType DEF Body
  <2> QED
    BY <1>1, <2>2 DEF Recreated
<1>2. CASE ~\E r \in Rotated(q) : v \in Walked(r)
  BY <1>2 DEF Recreated, TypeOK
<1> QED
  BY <1>1, <1>2

LEMMA TypeStep == TypeOK /\ LinksMutual /\ [Next]_vars => TypeOK'
<1> SUFFICES ASSUME TypeOK, LinksMutual, [Next]_vars
             PROVE  TypeOK'
  OBVIOUS
<1>0. drm' \in BOOLEAN
  BY DEF Next, vars, TypeOK
<1>1. ASSUME NEW r \in Resource, NEW a \in Image, NEW request \in Asked,
             CreateResource(r, a, request)
      PROVE  TypeOK'
  <2>1. NewBody(r, a, request) \in Body
    BY ResourceViewsAssumption DEF NewBody, Body
  <2> QED
    BY <1>0, <1>1, <2>1 DEF CreateResource, TypeOK, slots
<1>2. ASSUME NEW r \in Resource, DestroyResource(r)
      PROVE  TypeOK'
  <2>1. NoBody \in Body
    BY DEF NoBody, Body, Request
  <2>2. owner' \in [Image -> Resource \union {NULL}]
    BY <1>2 DEF DestroyResource, Deallocate, FreeMemory, TypeOK
  <2> QED
    BY <1>0, <1>2, <2>1, <2>2 DEF DestroyResource, TypeOK, slots
<1>3. ASSUME NEW r \in Resource, NEW v \in View, CreateView(r, v)
      PROVE  TypeOK'
  <2>1. resource[r].pResource \in Image \union {NULL}
    BY DEF TypeOK, Body
  <2> QED
    BY <1>0, <1>3, <2>1 DEF CreateView, LinkView, TypeOK, slots
<1>4. ASSUME NEW v \in View, DestroyView(v)
      PROVE  TypeOK'
  <2>1. link' \in [Resource \union View -> View \union {NULL}]
    BY <1>4 DEF DestroyView, ViewUnlink, TypeOK
  <2>2. ppPrev' \in [View -> Resource \union View \union {NULL}]
    BY <1>4 DEF DestroyView, ViewUnlink, TypeOK
  <2> QED
    BY <1>0, <1>4, <2>1, <2>2 DEF DestroyView, TypeOK, slots
<1>5. ASSUME NEW s \in Slot, NEW v \in View \union {NULL}, SetSlot(s, v)
      PROVE  TypeOK'
  <2>1. HostOf(v, host) \in Image \union {NULL}
    BY DEF HostOf, TypeOK
  <2> QED
    BY <1>0, <1>5, <2>1 DEF SetSlot, TypeOK, lists
<1>6. ASSUME NEW q \in Rotations, NEW lost, RotateResourceIdentities(q, lost)
      PROVE  TypeOK'
  <2>1. resource' \in [Resource -> Body]
    BY <1>6, MovedType DEF RotateResourceIdentities
  <2>2. host' \in [View -> Image \union {NULL}]
    BY <1>6, RecreatedType DEF RotateResourceIdentities
  <2>3. slotHost' \in [Slot -> Image \union {NULL}]
    BY <1>6, <2>2 DEF RotateResourceIdentities, HostOf, TypeOK
  <2> QED
    BY <1>0, <1>6, <2>1, <2>2, <2>3 DEF RotateResourceIdentities, KeptLists, TypeOK
<1>7. CASE UNCHANGED vars
  BY <1>7 DEF vars, lists, slots, TypeOK
<1> QED
  BY <1>1, <1>2, <1>3, <1>4, <1>5, <1>6, <1>7 DEF Next

-----------------------------------------------------------------------------
(* The lists.  A set closed under the new links differs by the view that   *)
(* comes or goes, at most, from one that was closed under the old ones.    *)

ListInv == LinksMutual /\ ListsComplete

\* Neither a wrapper without views nor a rotation touches the lists.
LEMMA ListsKept ==
    ASSUME ListInv, UNCHANGED <<link, ppPrev, pResource>>
    PROVE  ListInv'
<1>1. LinksMutual'
  BY DEF ListInv, LinksMutual
<1>2. ListsComplete'
  BY DEF ListInv, ListsComplete, Closed, ViewsOf
<1> QED
  BY <1>1, <1>2 DEF ListInv

LEMMA LinkKeepsMutual ==
    ASSUME TypeOK, LinksMutual, NEW r \in Resource, NEW v \in View,
           pResource[v] = NULL, LinkView(r, v),
           pResource' = [pResource EXCEPT ![v] = r]
    PROVE  LinksMutual'
<1> USE ResourceViewsAssumption
<1>1. ppPrev[v] = NULL /\ link[v] = NULL
  BY DEF LinksMutual
<1>2. \A c \in Resource \union View : link[c] # v
  BY <1>1 DEF LinksMutual, TypeOK
<1>3. link' = [link EXCEPT ![v] = link[r], ![r] = v]
  BY DEF LinkView
<1>4. \A w \in View : ppPrev'[w] = IF w = v THEN r
                                   ELSE IF w = link[r] THEN v ELSE ppPrev[w]
  BY DEF LinkView
<1>5. r # v /\ link'[r] = v /\ link'[v] = link[r]
  BY <1>3 DEF TypeOK
<1>6. \A c \in (Resource \union View) \ {r, v} : link'[c] = link[c]
  BY <1>3 DEF TypeOK
<1>7. ASSUME NEW w \in View
      PROVE  /\ ppPrev'[w] # NULL => link'[ppPrev'[w]] = w
             /\ ppPrev'[w] = NULL <=> pResource'[w] = NULL
             /\ ppPrev'[w] = NULL => link'[w] = NULL
  <2>1. CASE w = v
    BY <2>1, <1>4, <1>5 DEF TypeOK
  <2>2. CASE w # v /\ w = link[r]
    <3>1. ppPrev'[w] = v /\ link'[v] = w
      BY <2>2, <1>4, <1>5
    <3>2. ppPrev[w] = r
      BY <2>2 DEF LinksMutual
    <3>3. pResource'[w] # NULL
      BY <2>2, <3>2 DEF LinksMutual, TypeOK
    <3> QED
      BY <2>2, <3>1, <3>3
  <2>3. CASE w # v /\ w # link[r]
    <3>1. ppPrev'[w] = ppPrev[w] /\ pResource'[w] = pResource[w]
      BY <2>3, <1>4 DEF TypeOK
    <3>2. link'[w] = link[w]
      BY <2>3, <1>6
    <3>3. ppPrev[w] # NULL => ppPrev[w] \notin {r, v}
      BY <2>3, <1>1 DEF LinksMutual
    <3>4. ppPrev[w] # NULL => link'[ppPrev[w]] = w
      BY <3>3, <1>6 DEF LinksMutual, TypeOK
    <3> QED
      BY <3>1, <3>2, <3>4 DEF LinksMutual
  <2> QED
    BY <2>1, <2>2, <2>3
<1>8. ASSUME NEW c \in Resource \union View, link'[c] # NULL
      PROVE  ppPrev'[link'[c]] = c
  <2>1. CASE c = r
    BY <2>1, <1>4, <1>5
  <2>2. CASE c = v
    BY <2>2, <1>2, <1>4, <1>5, <1>8 DEF TypeOK
  <2>3. CASE c \notin {r, v}
    <3>1. link'[c] = link[c] /\ link[c] \in View
      BY <2>3, <1>6, <1>8 DEF TypeOK
    <3>2. ppPrev[link[c]] = c
      BY <3>1 DEF LinksMutual
    <3>3. link[c] # v /\ link[c] # link[r]
      BY <2>3, <3>1, <3>2, <1>2 DEF LinksMutual
    <3> QED
      BY <3>1, <3>2, <3>3, <1>4
  <2> QED
    BY <2>1, <2>2, <2>3
<1> QED
  BY <1>7, <1>8 DEF LinksMutual

LEMMA LinkKeepsComplete ==
    ASSUME TypeOK, ListInv, NEW r \in Resource, NEW v \in View,
           pResource[v] = NULL, LinkView(r, v),
           pResource' = [pResource EXCEPT ![v] = r]
    PROVE  ListsComplete'
<1> USE ResourceViewsAssumption
<1>1. ppPrev[v] = NULL /\ link[v] = NULL
  BY DEF ListInv, LinksMutual
<1>2. \A c \in Resource \union View : link[c] # v
  BY <1>1 DEF ListInv, LinksMutual, TypeOK
<1>3. r # v /\ link'[r] = v /\ link'[v] = link[r]
  BY DEF LinkView, TypeOK
<1>4. \A c \in (Resource \union View) \ {r, v} : link'[c] = link[c]
  BY DEF LinkView, TypeOK
<1>5. /\ ViewsOf(r)' = ViewsOf(r) \union {v}
      /\ \A t \in Resource \ {r} : ViewsOf(t)' = ViewsOf(t)
  BY DEF ViewsOf, TypeOK
<1>6. \A t \in Resource : v \notin ViewsOf(t)
  BY DEF ViewsOf
<1> SUFFICES ASSUME NEW t \in Resource
             PROVE  /\ Closed(t, ViewsOf(t))'
                    /\ \A views \in SUBSET View : Closed(t, views)' => ViewsOf(t)' \subseteq views
  BY DEF ListsComplete
<1>7. Closed(t, ViewsOf(t)) /\ ViewsOf(t) \subseteq View
  BY DEF ListInv, ListsComplete, ViewsOf
<1>8. Closed(t, ViewsOf(t))'
  <2>1. CASE t = r
    BY <2>1, <1>3, <1>4, <1>5, <1>7 DEF Closed
  <2>2. CASE t # r
    BY <2>2, <1>3, <1>4, <1>5, <1>6, <1>7 DEF Closed
  <2> QED
    BY <2>1, <2>2
<1>9. ASSUME NEW views \in SUBSET View, Closed(t, views)'
      PROVE  ViewsOf(t)' \subseteq views
  <2>1. \A w \in views \ {v} : link[w] \in (views \ {v}) \union {NULL}
    BY <1>2, <1>4, <1>9 DEF Closed
  <2>2. link[t] \in (views \ {v}) \union {NULL} /\ (t = r => v \in views)
    <3>1. CASE t = r
      <4>1. v \in views
        BY <3>1, <1>3, <1>9 DEF Closed
      <4> QED
        BY <3>1, <4>1, <1>2, <1>3, <1>9 DEF Closed
    <3>2. CASE t # r
      BY <3>2, <1>2, <1>4, <1>9 DEF Closed
    <3> QED
      BY <3>1, <3>2
  <2>3. Closed(t, views \ {v})
    BY <2>1, <2>2 DEF Closed
  <2>4. ViewsOf(t) \subseteq views \ {v}
    BY <2>3 DEF ListInv, ListsComplete
  <2> QED
    BY <2>2, <2>4, <1>5
<1> QED
  BY <1>8, <1>9

\* A view that pointed to itself would be missed by a walk of its list.
LEMMA NoSelfLink ==
    ASSUME TypeOK, ListInv, NEW v \in View
    PROVE  ppPrev[v] # v
<1> SUFFICES ASSUME ppPrev[v] = v
             PROVE  FALSE
  OBVIOUS
<1>1. link[v] = v /\ pResource[v] \in Resource
  BY ResourceViewsAssumption DEF ListInv, LinksMutual, TypeOK
<1>2. \A c \in Resource \union View : link[c] = v => c = v
  BY ResourceViewsAssumption DEF ListInv, LinksMutual
<1> DEFINE r == pResource[v]
<1>3. Closed(r, ViewsOf(r)) /\ v \in ViewsOf(r) /\ ViewsOf(r) \subseteq View
  BY <1>1 DEF ListInv, ListsComplete, ViewsOf
<1>4. Closed(r, ViewsOf(r) \ {v})
  BY <1>1, <1>2, <1>3, ResourceViewsAssumption DEF Closed
<1> QED
  BY <1>1, <1>3, <1>4 DEF ListInv, ListsComplete

LEMMA UnlinkKeepsMutual ==
    ASSUME TypeOK, ListInv, NEW v \in View,
           pResource[v] # NULL, ViewUnlink(v),
           pResource' = [pResource EXCEPT ![v] = NULL]
    PROVE  LinksMutual'
<1> USE ResourceViewsAssumption
<1> DEFINE p == ppPrev[v]
<1> USE DEF ListInv
<1>1. p \in Resource \union View /\ p # v /\ link[p] = v
  BY NoSelfLink DEF LinksMutual, TypeOK
<1>2. link'[p] = link[v] /\ link'[v] = NULL
  BY <1>1 DEF ViewUnlink, TypeOK
<1>3. \A c \in (Resource \union View) \ {p, v} : link'[c] = link[c]
  BY DEF ViewUnlink, TypeOK
<1>4. \A w \in View : ppPrev'[w] = IF w = v THEN NULL
                                   ELSE IF w = link[v] THEN p ELSE ppPrev[w]
  BY DEF ViewUnlink
<1>5. \A c \in (Resource \union View) : link[c] = v => c = p
  BY DEF LinksMutual
<1>6. ASSUME NEW w \in View
      PROVE  /\ ppPrev'[w] # NULL => link'[ppPrev'[w]] = w
             /\ ppPrev'[w] = NULL <=> pResource'[w] = NULL
             /\ ppPrev'[w] = NULL => link'[w] = NULL
  <2>1. CASE w = v
    BY <2>1, <1>2, <1>4 DEF TypeOK
  <2>2. CASE w # v /\ w = link[v]
    <3>1. ppPrev'[w] = p /\ link'[p] = w
      BY <2>2, <1>2, <1>4
    <3>2. ppPrev[w] = v
      BY <2>2 DEF LinksMutual
    <3>3. pResource'[w] # NULL
      BY <2>2, <3>2 DEF LinksMutual, TypeOK
    <3> QED
      BY <3>1, <3>3, <1>1
  <2>3. CASE w # v /\ w # link[v]
    <3>1. ppPrev'[w] = ppPrev[w] /\ pResource'[w] = pResource[w]
      BY <2>3, <1>4 DEF TypeOK
    <3>2. ppPrev[w] # NULL => ppPrev[w] \notin {p, v}
      BY <2>3, <1>1 DEF LinksMutual
    <3>3. ppPrev[w] # NULL => link'[ppPrev[w]] = w
      BY <3>2, <1>3 DEF LinksMutual, TypeOK
    <3>4. ppPrev[w] = NULL => w # p /\ link'[w] = NULL
      BY <2>3, <1>1, <1>3 DEF LinksMutual
    <3> QED
      BY <3>1, <3>3, <3>4 DEF LinksMutual
  <2> QED
    BY <2>1, <2>2, <2>3
<1>7. ASSUME NEW c \in Resource \union View, link'[c] # NULL
      PROVE  ppPrev'[link'[c]] = c
  <2>1. CASE c = p
    <3>1. link'[c] = link[v] /\ link[v] \in View
      BY <2>1, <1>2, <1>7 DEF TypeOK
    <3>2. link[v] # v
      BY <1>1, <1>5
    <3> QED
      BY <2>1, <3>1, <3>2, <1>4
  <2>2. CASE c = v
    BY <2>2, <1>2, <1>7
  <2>3. CASE c \notin {p, v}
    <3>1. link'[c] = link[c] /\ link[c] \in View
      BY <2>3, <1>3, <1>7 DEF TypeOK
    <3>2. ppPrev[link[c]] = c
      BY <3>1 DEF LinksMutual
    <3>3. link[c] # v /\ link[c] # link[v]
      BY <2>3, <3>1, <3>2, <1>5 DEF LinksMutual
    <3> QED
      BY <3>1, <3>2, <3>3, <1>4
  <2> QED
    BY <2>1, <2>2, <2>3
<1> QED
  BY <1>6, <1>7 DEF LinksMutual

LEMMA UnlinkKeepsComplete ==
    ASSUME TypeOK, ListInv, NEW v \in View,
           pResource[v] # NULL, ViewUnlink(v),
           pResource' = [pResource EXCEPT ![v] = NULL]
    PROVE  ListsComplete'
<1> USE ResourceViewsAssumption
<1> DEFINE p == ppPrev[v]
<1>1. p \in Resource \union View /\ p # v /\ link[p] = v
  BY NoSelfLink DEF ListInv, LinksMutual, TypeOK
<1>2. link'[p] = link[v] /\ link'[v] = NULL
  BY <1>1 DEF ViewUnlink, TypeOK
<1>3. \A c \in (Resource \union View) \ {p, v} : link'[c] = link[c]
  BY DEF ViewUnlink, TypeOK
<1>4. \A c \in (Resource \union View) : link[c] = v => c = p
  BY DEF ListInv, LinksMutual
<1>5. \A t \in Resource : ViewsOf(t)' = ViewsOf(t) \ {v}
  BY DEF ViewsOf, TypeOK
<1> SUFFICES ASSUME NEW t \in Resource
             PROVE  /\ Closed(t, ViewsOf(t))'
                    /\ \A views \in SUBSET View : Closed(t, views)' => ViewsOf(t)' \subseteq views
  BY DEF ListsComplete
<1>6. Closed(t, ViewsOf(t)) /\ ViewsOf(t) \subseteq View
  BY DEF ListInv, ListsComplete, ViewsOf
<1>7. link[v] # v
  BY <1>1, <1>4
<1>8. Closed(t, ViewsOf(t))'
  <2>1. p \in ViewsOf(t) \union {t} => link[v] \in ViewsOf(t) \union {NULL}
    <3>1. p \in ViewsOf(t) \union {t} => v \in ViewsOf(t)
      BY <1>1, <1>6 DEF Closed, TypeOK
    <3> QED
      BY <3>1, <1>6 DEF Closed
  <2>2. \A c \in (ViewsOf(t) \ {v}) \union {t} :
           link'[c] \in (ViewsOf(t) \ {v}) \union {NULL}
    BY <2>1, <1>2, <1>3, <1>4, <1>6, <1>7 DEF Closed
  <2> QED
    BY <2>2, <1>5 DEF Closed
<1>9. ASSUME NEW views \in SUBSET View, Closed(t, views)'
      PROVE  ViewsOf(t)' \subseteq views
  <2>1. CASE p \in views \union {t}
    <3>1. link[v] \in views \union {NULL}
      BY <2>1, <1>2, <1>9 DEF Closed
    <3>2. \A c \in views \union {v, t} : link[c] \in views \union {v, NULL}
      BY <3>1, <1>1, <1>3, <1>9 DEF Closed
    <3>3. Closed(t, views \union {v})
      BY <3>2 DEF Closed
    <3>4. ViewsOf(t) \subseteq views \union {v}
      BY <3>3 DEF ListInv, ListsComplete
    <3> QED
      BY <3>4, <1>5
  <2>2. CASE p \notin views \union {t}
    <3>1. \A c \in (views \ {v}) \union {t} : link[c] \in (views \ {v}) \union {NULL}
      BY <2>2, <1>3, <1>4, <1>9 DEF Closed
    <3>2. Closed(t, views \ {v})
      BY <3>1 DEF Closed
    <3>3. ViewsOf(t) \subseteq views \ {v}
      BY <3>2 DEF ListInv, ListsComplete
    <3> QED
      BY <3>3, <1>5
  <2> QED
    BY <2>1, <2>2
<1> QED
  BY <1>8, <1>9

-----------------------------------------------------------------------------
(* The rest of the invariant, one action at a time.                        *)

RestInv ==
    /\ BodiesWhole
    /\ RefsLive
    /\ ViewsFollowBody
    /\ SlotsCurrent
    /\ ImagesNotShared
    /\ AllocationsOwned

LEMMA CreateResourceStep ==
    ASSUME TypeOK, RestInv, UNCHANGED drm,
           NEW r \in Resource, NEW a \in Image, NEW request \in Asked,
           CreateResource(r, a, request)
    PROVE  RestInv'
<1> USE ResourceViewsAssumption DEF RestInv
<1>1. /\ resource'[r] = NewBody(r, a, request)
      /\ \A t \in Resource \ {r} : resource'[t] = resource[t]
  BY DEF CreateResource, TypeOK
<1>2. ~Live(r) /\ a \notin HeldImages /\ owner[a] = NULL
  BY DEF CreateResource
<1>3. Live(r)' /\ \A t \in Resource \ {r} : Live(t)' <=> Live(t)
  BY <1>1 DEF Live, NewBody
<1>4. BodiesWhole'
  <2>1. /\ resource'[r].hRTResource = r
        /\ resource'[r].hKMAllocation =
              IF resource'[r].request = "plain" THEN NULL ELSE resource'[r].pResource
        /\ resource'[r].memory =
              IF Exported(resource'[r].request) THEN resource'[r].pResource ELSE NULL
    BY <1>1 DEF NewBody, Exported
  <2> QED
    BY <1>1, <1>3, <2>1 DEF BodiesWhole, NoBody, Exported
<1>5. \A v \in View : pResource[v] # r
  BY <1>2 DEF RefsLive
<1>6. RefsLive' /\ ViewsFollowBody'
  <2>1. RefsLive'
    BY <1>3 DEF RefsLive, CreateResource, slots, Accepts, TypeOK
  <2>2. ViewsFollowBody'
    BY <1>1, <1>5 DEF ViewsFollowBody, CreateResource, TypeOK
  <2> QED
    BY <2>1, <2>2
<1>7. SlotsCurrent'
  BY DEF SlotsCurrent, CreateResource, slots
<1>8. ImagesNotShared'
  <2>1. resource'[r].pResource = a
    BY <1>1 DEF NewBody
  <2> QED
    BY <1>1, <1>2, <1>3, <2>1 DEF ImagesNotShared, LiveResource, HeldImages
<1>9. AllocationsOwned'
  <2>1. resource[r].hKMAllocation = NULL
    BY <1>2 DEF BodiesWhole, NoBody
  <2>2. \A b \in Image : owner[b] # r
    BY <2>1 DEF AllocationsOwned
  <2>3. /\ owner'[a] = IF request = "plain" THEN NULL ELSE r
        /\ \A b \in Image \ {a} : owner'[b] = owner[b]
    BY DEF CreateResource, TypeOK
  <2>4. /\ resource'[r].hKMAllocation = IF request = "plain" THEN NULL ELSE a
        /\ resource'[r].memory \in IF request = "plain" THEN {NULL} ELSE {a, NULL}
    BY <1>1 DEF NewBody, Exported
  <2>5. \A b \in Image : owner'[b] # NULL =>
           Live(owner[b])' /\ resource'[owner'[b]].hKMAllocation # NULL
    BY <1>1, <1>3, <2>2, <2>3, <2>4 DEF AllocationsOwned, Live, TypeOK
  <2>6. ASSUME ~drm, NEW t \in Resource
        PROVE  /\ resource'[t].hKMAllocation # NULL => \E b \in Image : owner'[b] = t
               /\ resource'[t].memory # NULL => owner'[resource'[t].memory] = t
    <3>1. CASE t = r
      BY <3>1, <2>3, <2>4
    <3>2. CASE t # r
      <4>1. resource'[t] = resource[t] /\ resource[t].memory \in Image \union {NULL}
        BY <3>2, <1>1 DEF TypeOK, Body
      <4> QED
        BY <3>2, <4>1, <2>6, <1>2, <2>3 DEF AllocationsOwned
    <3> QED
      BY <3>1, <3>2
  <2> QED
    BY <1>3, <2>3, <2>5, <2>6 DEF AllocationsOwned, Live
<1> QED
  BY <1>4, <1>6, <1>7, <1>8, <1>9

LEMMA DestroyResourceStep ==
    ASSUME TypeOK, RestInv, UNCHANGED drm, NEW r \in Resource, DestroyResource(r)
    PROVE  RestInv'
<1> USE ResourceViewsAssumption DEF RestInv
<1>1. resource'[r] = NoBody /\ \A t \in Resource \ {r} : resource'[t] = resource[t]
  BY DEF DestroyResource, TypeOK
<1>2. Live(r) /\ \A v \in View : pResource[v] # r
  BY DEF DestroyResource
<1>3. ~Live(r)' /\ \A t \in Resource \ {r} : Live(t)' <=> Live(t)
  BY <1>1 DEF Live, NoBody
<1>4. BodiesWhole'
  BY <1>1, <1>3 DEF BodiesWhole, Exported
<1>5. RefsLive'
  BY <1>2, <1>3 DEF RefsLive, DestroyResource, slots, Accepts, TypeOK
<1>6. ViewsFollowBody'
  BY <1>1, <1>2 DEF ViewsFollowBody, DestroyResource, TypeOK
<1>7. SlotsCurrent'
  BY DEF SlotsCurrent, DestroyResource, slots
<1>8. ImagesNotShared'
  BY <1>1, <1>3 DEF ImagesNotShared, LiveResource
<1>9. AllocationsOwned'
  <2>1. resource[r].hRTResource = r
    BY <1>2 DEF BodiesWhole
  <2>2. resource[r].hKMAllocation = NULL => \A a \in Image : owner[a] # r
    BY DEF AllocationsOwned
  <2>3. \A a \in Image :
           owner'[a] = IF a = resource[r].memory \/ owner[a] = r THEN NULL ELSE owner[a]
    BY <2>1, <2>2 DEF DestroyResource, Deallocate, FreeMemory, TypeOK
  <2>4. \A a \in Image : owner'[a] # NULL =>
           Live(owner[a])' /\ resource'[owner'[a]].hKMAllocation # NULL
    BY <1>1, <1>3, <2>3 DEF AllocationsOwned, Live, TypeOK
  <2>5. ASSUME ~drm, NEW t \in Resource
        PROVE  /\ resource'[t].hKMAllocation # NULL => \E a \in Image : owner'[a] = t
               /\ resource'[t].memory # NULL => owner'[resource'[t].memory] = t
    <3>1. CASE t = r
      BY <3>1, <1>1 DEF NoBody
    <3>2. CASE t # r
      <4>1. resource'[t] = resource[t] /\ resource[t].memory \in Image \union {NULL}
        BY <3>2, <1>1 DEF TypeOK, Body
      <4>2. \A a \in Image : owner[a] = t => owner'[a] = t
        BY <3>2, <2>3, <2>5 DEF AllocationsOwned
      <4> QED
        BY <4>1, <4>2, <2>5 DEF AllocationsOwned
    <3> QED
      BY <3>1, <3>2
  <2> QED
    BY <2>3, <2>4, <2>5 DEF AllocationsOwned, Live
<1> QED
  BY <1>4, <1>5, <1>6, <1>7, <1>8, <1>9

\* The bodies and the allocations stay as they are.
LEMMA BodiesKept ==
    ASSUME RestInv, UNCHANGED <<drm, resource, owner>>
    PROVE  BodiesWhole' /\ ImagesNotShared' /\ AllocationsOwned'
<1> USE DEF RestInv
<1>1. BodiesWhole'
  BY DEF BodiesWhole, Exported, Live
<1>2. ImagesNotShared' /\ AllocationsOwned'
  BY DEF ImagesNotShared, AllocationsOwned, Live, LiveResource
<1> QED
  BY <1>1, <1>2

LEMMA CreateViewStep ==
    ASSUME TypeOK, RestInv, UNCHANGED drm, NEW r \in Resource, NEW v \in View, CreateView(r, v)
    PROVE  RestInv'
<1> USE ResourceViewsAssumption DEF RestInv
<1>1. /\ pResource'[v] = r /\ host'[v] = resource[r].pResource
      /\ \A w \in View \ {v} : pResource'[w] = pResource[w] /\ host'[w] = host[w]
  BY DEF CreateView, TypeOK
<1>2. pResource[v] = NULL /\ Live(r) /\ \A t \in Resource : Live(t)' <=> Live(t)
  BY DEF CreateView, Live
<1>3. \A s \in Slot : slotView[s] # v
  BY <1>2 DEF RefsLive
<1>4. RefsLive'
  <2>1. \A w \in View : IF pResource'[w] = NULL THEN host'[w] = NULL ELSE Live(pResource[w])'
    BY <1>1, <1>2 DEF RefsLive, Live, TypeOK
  <2>2. \A s \in Slot : slotView'[s] # NULL =>
           pResource'[slotView'[s]] # NULL /\ Kind[slotView'[s]] \in Accepts(s)
    BY <1>1, <1>3 DEF RefsLive, CreateView, slots, TypeOK
  <2> QED
    BY <2>1, <2>2 DEF RefsLive, Accepts, Live
<1>5. ViewsFollowBody'
  BY <1>1 DEF ViewsFollowBody, CreateView
<1>6. SlotsCurrent'
  BY <1>1, <1>3 DEF SlotsCurrent, CreateView, slots, TypeOK
<1> QED
  BY <1>4, <1>5, <1>6, BodiesKept DEF CreateView

LEMMA DestroyViewStep ==
    ASSUME TypeOK, RestInv, UNCHANGED drm, NEW v \in View, DestroyView(v)
    PROVE  RestInv'
<1> USE ResourceViewsAssumption DEF RestInv
<1>1. /\ pResource'[v] = NULL /\ host'[v] = NULL
      /\ \A w \in View \ {v} : pResource'[w] = pResource[w] /\ host'[w] = host[w]
  BY DEF DestroyView, TypeOK
<1>2. (\A s \in Slot : slotView[s] # v) /\ \A t \in Resource : Live(t)' <=> Live(t)
  BY DEF DestroyView, Live
<1>3. RefsLive'
  <2>1. \A w \in View : IF pResource'[w] = NULL THEN host'[w] = NULL ELSE Live(pResource[w])'
    BY <1>1, <1>2 DEF RefsLive, Live, TypeOK
  <2>2. \A s \in Slot : slotView'[s] # NULL =>
           pResource'[slotView'[s]] # NULL /\ Kind[slotView'[s]] \in Accepts(s)
    BY <1>1, <1>2 DEF RefsLive, DestroyView, slots, TypeOK
  <2> QED
    BY <2>1, <2>2 DEF RefsLive, Accepts, Live
<1>4. ViewsFollowBody'
  BY <1>1 DEF ViewsFollowBody, DestroyView
<1>5. SlotsCurrent'
  BY <1>1, <1>2 DEF SlotsCurrent, DestroyView, slots, TypeOK
<1> QED
  BY <1>3, <1>4, <1>5, BodiesKept DEF DestroyView

LEMMA SetSlotStep ==
    ASSUME TypeOK, RestInv, UNCHANGED drm, NEW s \in Slot, NEW v \in View \union {NULL},
           SetSlot(s, v)
    PROVE  RestInv'
<1> USE ResourceViewsAssumption DEF RestInv
<1>1. /\ slotView'[s] = v /\ slotHost'[s] = HostOf(v, host)
      /\ \A t \in Slot \ {s} : slotView'[t] = slotView[t] /\ slotHost'[t] = slotHost[t]
  BY DEF SetSlot, TypeOK
<1>2. v # NULL => pResource[v] # NULL /\ Kind[v] \in Accepts(s)
  BY DEF SetSlot
<1>3. RefsLive'
  <2>1. \A w \in View : IF pResource'[w] = NULL THEN host'[w] = NULL ELSE Live(pResource[w])'
    BY DEF RefsLive, SetSlot, Live
  <2>2. \A t \in Slot : slotView'[t] # NULL =>
           pResource'[slotView'[t]] # NULL /\ Kind[slotView'[t]] \in Accepts(t)
    <3> SUFFICES ASSUME NEW t \in Slot, slotView'[t] # NULL
                 PROVE  pResource'[slotView'[t]] # NULL /\ Kind[slotView'[t]] \in Accepts(t)
      OBVIOUS
    <3>1. CASE t = s
      BY <3>1, <1>1, <1>2 DEF SetSlot
    <3>2. CASE t # s
      BY <3>2, <1>1 DEF RefsLive, SetSlot
    <3> QED
      BY <3>1, <3>2
  <2> QED
    BY <2>1, <2>2 DEF RefsLive, Accepts, Live
<1>4. ViewsFollowBody'
  BY DEF ViewsFollowBody, SetSlot
<1>5. SlotsCurrent'
  BY <1>1 DEF SlotsCurrent, SetSlot, HostOf
<1> QED
  BY <1>3, <1>4, <1>5, BodiesKept DEF SetSlot

LEMMA RotateStep ==
    ASSUME TypeOK, ListsComplete, RestInv, UNCHANGED drm, NEW q \in Rotations, NEW lost,
           RotateResourceIdentities(q, lost)
    PROVE  RestInv'
<1> USE ResourceViewsAssumption DEF RestInv
<1>1. /\ Rotated(q) \subseteq LiveResource
      /\ \A r \in Rotated(q) : Source(q, r) \in Rotated(q)
  BY SourceFacts
<1>2. /\ \A r \in Rotated(q) : resource'[r] = Move(q, r)
      /\ \A r \in Resource \ Rotated(q) : resource'[r] = resource[r]
  BY <1>1 DEF RotateResourceIdentities, MovedBody, LiveResource
<1>3. \A r \in Rotated(q) :
         /\ resource'[r].pResource = resource[Source(q, r)].pResource
         /\ resource'[r].hKMAllocation = resource[Source(q, r)].hKMAllocation
         /\ resource'[r].memory = resource[Source(q, r)].memory
         /\ resource'[r].request = resource[Source(q, r)].request
         /\ resource'[r].hRTResource = resource[r].hRTResource
  <2> SUFFICES ASSUME NEW r \in Rotated(q)
               PROVE  /\ resource'[r].pResource = resource[Source(q, r)].pResource
                      /\ resource'[r].hKMAllocation = resource[Source(q, r)].hKMAllocation
                      /\ resource'[r].memory = resource[Source(q, r)].memory
                      /\ resource'[r].request = resource[Source(q, r)].request
                      /\ resource'[r].hRTResource = resource[r].hRTResource
    OBVIOUS
  <2>1. resource[Source(q, r)] \in Body
    BY <1>1 DEF TypeOK, LiveResource
  <2>2. resource'[r] = Move(q, r)
    BY <1>2
  <2> QED
    BY <2>1, <2>2 DEF Move, Body
<1>4. \A r \in Resource : Live(r)' <=> Live(r)
  BY <1>1, <1>2, <1>3 DEF Live, LiveResource
<1>5. BodiesWhole'
  <2> SUFFICES ASSUME NEW r \in Resource
               PROVE  IF Live(r)'
                      THEN /\ resource'[r].hRTResource = r
                           /\ resource'[r].hKMAllocation =
                                 IF resource'[r].request = "plain" THEN NULL
                                 ELSE resource'[r].pResource
                           /\ resource'[r].memory =
                                 IF Exported(resource'[r].request) THEN resource'[r].pResource
                                 ELSE NULL
                      ELSE resource'[r] = NoBody
    BY DEF BodiesWhole, NoBody, Exported
  <2>1. CASE r \in Rotated(q)
    <3>1. Live(r) /\ Source(q, r) \in Resource /\ Live(Source(q, r))
      BY <2>1, <1>1 DEF LiveResource
    <3> QED
      BY <2>1, <3>1, <1>3, <1>4 DEF BodiesWhole
  <2>2. CASE r \notin Rotated(q)
    BY <2>2, <1>2, <1>4 DEF BodiesWhole
  <2> QED
    BY <2>1, <2>2
<1>6. \A v \in View :
         host'[v] = IF pResource[v] \in Rotated(q)
                    THEN IF host[v] = NULL \/ v \in lost THEN NULL
                         ELSE resource'[pResource[v]].pResource
                    ELSE host[v]
  <2> SUFFICES ASSUME NEW v \in View
               PROVE  host'[v] = IF pResource[v] \in Rotated(q)
                                 THEN IF host[v] = NULL \/ v \in lost THEN NULL
                                      ELSE resource'[pResource[v]].pResource
                                 ELSE host[v]
    OBVIOUS
  <2>1. \A r \in Rotated(q) : v \in Walked(r) <=> pResource[v] = r
    BY <1>1, WalkIsViews DEF LiveResource, ViewsOf
  <2>2. host'[v] = IF \E r \in Rotated(q) : v \in Walked(r)
                   THEN IF host[v] = NULL \/ v \in lost THEN NULL
                        ELSE resource'[CHOOSE r \in Rotated(q) : v \in Walked(r)].pResource
                   ELSE host[v]
    BY DEF RotateResourceIdentities, Recreated
  <2>3. CASE pResource[v] \in Rotated(q)
    <3>1. (CHOOSE r \in Rotated(q) : v \in Walked(r)) = pResource[v]
      BY <2>1, <2>3
    <3> QED
      BY <2>1, <2>2, <2>3, <3>1
  <2>4. CASE pResource[v] \notin Rotated(q)
    BY <2>1, <2>2, <2>4
  <2> QED
    BY <2>3, <2>4
<1>7. RefsLive'
  <2>1. \A w \in View : IF pResource'[w] = NULL THEN host'[w] = NULL ELSE Live(pResource[w])'
    <3>1. NULL \notin Rotated(q)
      BY <1>1 DEF LiveResource
    <3> QED
      BY <3>1, <1>4, <1>6 DEF RefsLive, RotateResourceIdentities, Live, TypeOK
  <2>2. \A s \in Slot : slotView'[s] # NULL =>
           pResource'[slotView'[s]] # NULL /\ Kind[slotView'[s]] \in Accepts(s)
    BY DEF RefsLive, RotateResourceIdentities
  <2> QED
    BY <2>1, <2>2 DEF RefsLive, Accepts, Live
<1>8. ViewsFollowBody'
  BY <1>2, <1>6 DEF ViewsFollowBody, RotateResourceIdentities, TypeOK
<1>9. SlotsCurrent'
  <2> SUFFICES ASSUME NEW s \in Slot \ {"HighUAV"}, slotView[s] # NULL
               PROVE  slotHost'[s] = host'[slotView[s]]
    BY DEF SlotsCurrent, RotateResourceIdentities
  <2>1. s \in SetAgain
    <3>1. Accepts(s) # {}
      BY DEF RefsLive
    <3> QED
      BY <3>1 DEF SetAgain, Accepts
  <2> QED
    BY <2>1 DEF RotateResourceIdentities, HostOf
<1>10. ImagesNotShared'
  <2> SUFFICES ASSUME NEW r \in LiveResource, NEW t \in LiveResource,
                      resource'[r].pResource = resource'[t].pResource
               PROVE  r = t
    BY <1>4 DEF ImagesNotShared, LiveResource
  <2>1. r \in Resource /\ t \in Resource
    BY DEF LiveResource
  <2>2. CASE r \in Rotated(q) /\ t \in Rotated(q)
    <3>1. Source(q, r) = Source(q, t)
      BY <2>2, <1>1, <1>3 DEF ImagesNotShared
    <3> QED
      BY <2>2, <3>1, SourceFacts
  <2>3. CASE r \in Rotated(q) /\ t \notin Rotated(q)
    BY <2>1, <2>3, <1>1, <1>2, <1>3 DEF ImagesNotShared
  <2>4. CASE r \notin Rotated(q) /\ t \in Rotated(q)
    BY <2>1, <2>4, <1>1, <1>2, <1>3 DEF ImagesNotShared
  <2>5. CASE r \notin Rotated(q) /\ t \notin Rotated(q)
    BY <2>1, <2>5, <1>2 DEF ImagesNotShared
  <2> QED
    BY <2>2, <2>3, <2>4, <2>5
<1>11. AllocationsOwned'
  <2>1. \A r \in Resource : Live(r) =>
           /\ resource[r].hKMAllocation = NULL <=> resource[r].request = "plain"
           /\ resource[r].request \in {"plain", "present"} /\ ~drm => resource[r].memory = NULL
    <3> SUFFICES ASSUME NEW r \in Resource, Live(r)
                 PROVE  /\ resource[r].hKMAllocation = NULL <=> resource[r].request = "plain"
                        /\ resource[r].request \in {"plain", "present"} /\ ~drm =>
                              resource[r].memory = NULL
      OBVIOUS
    <3> QED
      BY DEF BodiesWhole, Exported, Live
  <2>2. \A r \in Resource :
           resource'[r].hKMAllocation = NULL <=> resource[r].hKMAllocation = NULL
    <3> SUFFICES ASSUME NEW r \in Rotated(q)
                 PROVE  resource'[r].hKMAllocation = NULL <=> resource[r].hKMAllocation = NULL
      BY <1>2
    <3>1. r \in LiveResource /\ Source(q, r) \in LiveResource /\ Source(q, r) \in Rotated(q)
      BY <1>1
    <3>2. resource[Source(q, r)].request = resource[r].request
      BY <3>1, SourceFacts
    <3> QED
      BY <3>1, <3>2, <2>1, <1>3 DEF LiveResource
  <2>3. ASSUME ~drm, NEW r \in Resource
        PROVE  resource'[r].memory \in {NULL, resource[r].memory}
    <3>1. CASE r \in Rotated(q)
      <4>1. Source(q, r) \in LiveResource /\ Source(q, r) \in Rotated(q)
        BY <3>1, <1>1
      <4>2. resource[Source(q, r)].request \in {"plain", "present"}
        BY <4>1, SourceFacts
      <4> QED
        BY <3>1, <4>1, <4>2, <2>1, <2>3, <1>3 DEF LiveResource
    <3>2. CASE r \notin Rotated(q)
      BY <3>2, <1>2
    <3> QED
      BY <3>1, <3>2
  <2>4. owner' = owner
    BY DEF RotateResourceIdentities
  <2>5. \A a \in Image : owner'[a] # NULL =>
           Live(owner[a])' /\ resource'[owner'[a]].hKMAllocation # NULL
    BY <1>4, <2>2, <2>4 DEF AllocationsOwned, TypeOK
  <2>6. ~drm' => \A r \in Resource :
           /\ resource'[r].hKMAllocation # NULL => \E a \in Image : owner'[a] = r
           /\ resource'[r].memory # NULL => owner'[resource'[r].memory] = r
    BY <2>2, <2>3, <2>4 DEF AllocationsOwned
  <2> QED
    BY <2>4, <2>5, <2>6 DEF AllocationsOwned, Live
<1> QED
  BY <1>5, <1>7, <1>8, <1>9, <1>10, <1>11

-----------------------------------------------------------------------------
(* Results.                                                                *)

LEMMA InvInit == Init => ListInv /\ RestInv
<1> SUFFICES ASSUME Init
             PROVE  ListInv /\ RestInv
  OBVIOUS
<1> USE ResourceViewsAssumption DEF Init
<1>1. LinksMutual /\ ListsComplete
  BY DEF LinksMutual, ListsComplete, Closed, ViewsOf
<1>2. BodiesWhole /\ RefsLive
  BY DEF BodiesWhole, RefsLive, Live, NoBody
<1>3. ViewsFollowBody /\ SlotsCurrent /\ ImagesNotShared
  BY DEF ViewsFollowBody, SlotsCurrent, ImagesNotShared, LiveResource, Live, NoBody
<1>4. AllocationsOwned
  BY DEF AllocationsOwned, NoBody
<1> QED
  BY <1>1, <1>2, <1>3, <1>4 DEF ListInv, RestInv

LEMMA InvStep == TypeOK /\ ListInv /\ RestInv /\ [Next]_vars => ListInv' /\ RestInv'
<1> SUFFICES ASSUME TypeOK, ListInv, RestInv, [Next]_vars
             PROVE  ListInv' /\ RestInv'
  OBVIOUS
<1> USE ResourceViewsAssumption
<1>0. drm' = drm
  BY DEF Next, vars
<1>1. ASSUME NEW r \in Resource, NEW a \in Image, NEW request \in Asked,
             CreateResource(r, a, request)
      PROVE  ListInv' /\ RestInv'
  <2>1. ViewsOf(r) = {}
    BY <1>1 DEF CreateResource, RestInv, RefsLive, ViewsOf
  <2>2. link' = link
    BY <1>1, <2>1, EmptyList, EmptyLink DEF CreateResource, ListInv
  <2> QED
    BY <1>0, <1>1, <2>2, ListsKept, CreateResourceStep DEF CreateResource
<1>2. ASSUME NEW r \in Resource, DestroyResource(r)
      PROVE  ListInv' /\ RestInv'
  <2>1. ViewsOf(r) = {}
    BY <1>2 DEF DestroyResource, ViewsOf
  <2>2. link' = link
    BY <1>2, <2>1, EmptyList, EmptyLink DEF DestroyResource, ListInv
  <2> QED
    BY <1>0, <1>2, <2>2, ListsKept, DestroyResourceStep DEF DestroyResource
<1>3. ASSUME NEW r \in Resource, NEW v \in View, CreateView(r, v)
      PROVE  ListInv' /\ RestInv'
  <2>1. ListInv'
    BY <1>3, LinkKeepsMutual, LinkKeepsComplete DEF CreateView, ListInv
  <2> QED
    BY <1>0, <1>3, <2>1, CreateViewStep
<1>4. ASSUME NEW v \in View, DestroyView(v)
      PROVE  ListInv' /\ RestInv'
  <2>1. ListInv'
    BY <1>4, UnlinkKeepsMutual, UnlinkKeepsComplete DEF DestroyView, ListInv
  <2> QED
    BY <1>0, <1>4, <2>1, DestroyViewStep
<1>5. ASSUME NEW s \in Slot, NEW v \in View \union {NULL}, SetSlot(s, v)
      PROVE  ListInv' /\ RestInv'
  <2>1. ListInv'
    BY <1>5, ListsKept DEF SetSlot, lists
  <2> QED
    BY <1>0, <1>5, <2>1, SetSlotStep
<1>6. ASSUME NEW q \in Rotations, NEW lost, RotateResourceIdentities(q, lost)
      PROVE  ListInv' /\ RestInv'
  <2>1. ListInv'
    BY <1>6, ListsKept DEF RotateResourceIdentities, KeptLists
  <2> QED
    BY <1>0, <1>6, <2>1, RotateStep DEF ListInv
<1>7. CASE UNCHANGED vars
  <2>1. ListInv'
    BY <1>7, ListsKept DEF vars, lists
  <2>2. RefsLive' /\ ViewsFollowBody' /\ SlotsCurrent'
    BY <1>7 DEF vars, slots, RestInv, RefsLive, ViewsFollowBody, SlotsCurrent, Live, Accepts
  <2> QED
    BY <1>7, <2>1, <2>2, BodiesKept DEF vars, RestInv
<1> QED
  BY <1>1, <1>2, <1>3, <1>4, <1>5, <1>6, <1>7 DEF Next

\* The inductive invariant: the lists and the views on them, the bodies that
\* move between wrappers, the slots and the kernel's allocations.
THEOREM ViewInvariant == Spec => [](TypeOK /\ ViewInv)
<1>1. Init => TypeOK /\ ListInv /\ RestInv
  BY TypeInit, InvInit
<1>2. TypeOK /\ ListInv /\ RestInv /\ [Next]_vars => (TypeOK /\ ListInv /\ RestInv)'
  BY TypeStep, InvStep DEF ListInv
<1>3. TypeOK /\ ListInv /\ RestInv => TypeOK /\ ViewInv
  BY DEF ViewInv, ListInv, RestInv
<1> QED
  BY <1>1, <1>2, <1>3, PTL DEF Spec

\* A walk of a wrapper's list, as rotation makes it (tritonView.c), meets
\* every live view on the wrapper and no other.
THEOREM WalkMeetsEveryView == Spec => []WalkFindsViews
<1>1. ViewInv => WalkFindsViews
  BY WalkIsViews DEF ViewInv, WalkFindsViews
<1> QED
  BY <1>1, ViewInvariant, PTL

\* No rotation leaves a view, or a slot that is set again, with the image its
\* wrapper had before (dxgi.c, tritonView.c).
THEOREM NothingStale == Spec => [](ViewsFollowBody /\ SlotsCurrent)
<1>1. ViewInv => ViewsFollowBody /\ SlotsCurrent
  BY DEF ViewInv
<1> QED
  BY <1>1, ViewInvariant, PTL

\* What is drawn into a swap chain's buffer is what its present shows.
THEOREM DrawsArePresented == Spec => []PresentShowsDraws
<1>1. TypeOK /\ ViewInv => PresentShowsDraws
  <2> SUFFICES ASSUME TypeOK, ViewInv, slotView["OM"] # NULL, slotHost["OM"] # NULL
               PROVE  resource[pResource[slotView["OM"]]].hKMAllocation
                         \in {NULL, slotHost["OM"]}
    BY DEF PresentShowsDraws
  <2> DEFINE v == slotView["OM"]
  <2> DEFINE r == pResource[v]
  <2>1. v \in View /\ r \in Resource
    BY DEF TypeOK, ViewInv, RefsLive
  <2>2. Live(r)
    BY <2>1, ResourceViewsAssumption DEF ViewInv, RefsLive
  <2>3. slotHost["OM"] = host[v] /\ host[v] = resource[r].pResource
    BY <2>1, ResourceViewsAssumption DEF ViewInv, SlotsCurrent, ViewsFollowBody
  <2> QED
    BY <2>1, <2>2, <2>3 DEF ViewInv, BodiesWhole
<1> QED
  BY <1>1, ViewInvariant, PTL

\* Rotations neither share nor lose an image; no allocation outlives the wrapper
\* of its runtime handle, and on an adapter without the DRM capset none is freed
\* before it (resource.c:1355-1386).
THEOREM NothingSharedOrLeaked == Spec => [](ImagesNotShared /\ AllocationsOwned)
<1>1. ViewInv => ImagesNotShared /\ AllocationsOwned
  BY DEF ViewInv
<1> QED
  BY <1>1, ViewInvariant, PTL
=============================================================================

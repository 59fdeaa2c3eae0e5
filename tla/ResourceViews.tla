---------------------------- MODULE ResourceViews ----------------------------
(***************************************************************************)
(* Resources and the host views on them (tritonView.c), and what happens   *)
(* to both when a swap chain's buffers change places                       *)
(* (virtio_wddm_rotate_resource_identities, dxgi.c): the bodies of the     *)
(* resources move from wrapper to wrapper, while the wrappers' addresses,  *)
(* their runtime handles and their intrusive lists of views stay put.  So  *)
(* every host view on a rotated wrapper is made again, and the runtime is  *)
(* asked to set the pipeline's slots again.  What moves with a body is its *)
(* memory, too, and with it the duty to free an allocation that the kernel *)
(* has under another wrapper's handle.                                     *)
(***************************************************************************)
EXTENDS Naturals, FiniteSets

CONSTANTS
    Resource,            \* resource wrappers, named by their runtime handles too
    View,                \* view wrappers
    Kind,                \* the TRITON_VIEW_KIND of each view wrapper
    Image,               \* host images, each named like its kernel allocation if any
    Interface,           \* the DDI interface version: 100, 110 or 111
    Asked,               \* the kinds of resources that are asked for
    MaxLost,             \* bound: views that have lost their host object at one time
    NULL

\* What can be asked for: a resource of this process, a shared texture, a swap
\* chain's buffer, an opened texture.
Request == {"plain", "shared", "present", "opened"}

ViewKind == {"RTV", "SRV", "DSV", "UAV"}

ASSUME ResourceViewsAssumption ==
    /\ IsFiniteSet(Resource)
    /\ Resource \intersect View = {}
    /\ NULL \notin Resource \union View \union Image
    /\ Kind \in [View -> ViewKind]
    /\ Interface \in {100, 110, 111}
    /\ Asked \subseteq Request

VARIABLES
    drm,                 \* the adapter has VIRTIO_WDDM_CAPSET_MASK_DRM
    resource,            \* the wrapper's body, but for the head of its list
    link,                \* pViewList of a resource, pNext of a view
    ppPrev,              \* the cell that points to a view; NULL when not linked
    pResource,           \* the resource a view was made on; NULL when it is not live
    host,                \* the image the view's host object shows; NULL for no object
    slotView,            \* the runtime's record of what each slot holds
    slotHost,            \* the image shown by the host view bound to the slot
    owner                \* kernel: the runtime resource an allocation belongs to

lists == <<link, ppPrev>>
slots == <<slotView, slotHost>>
vars == <<drm, resource, lists, pResource, host, slots, owner>>

-----------------------------------------------------------------------------
\* memory is the allocation that goes when the body's memory is freed: NULL if
\* the memory was imported, or is the host's own.
Body == [hRTResource : Resource \union {NULL},
         request : Request,
         pResource : Image \union {NULL},
         hKMAllocation : Image \union {NULL},
         memory : Image \union {NULL}]

NoBody == [hRTResource |-> NULL, request |-> "plain", pResource |-> NULL,
           hKMAllocation |-> NULL, memory |-> NULL]

Live(r) == resource[r].pResource # NULL

LiveResource == {r \in Resource : Live(r)}

HeldImages == {resource[r].pResource : r \in LiveResource}

\* One slot for each group that is set by one family of handlers: shader
\* resources of the stages of 10.0 and of 11.0, compute UAVs below and from
\* D3D11_PS_CS_UAV_REGISTER_COUNT on, and the output merger.
Slot == {"SRV10", "SRV11", "UAV", "HighUAV", "OM"}

\* The kinds of views the handler of a slot takes at an interface version.
Accepts(s) ==
    CASE s = "OM"      -> IF Interface >= 110 THEN {"RTV", "DSV", "UAV"} ELSE {"RTV", "DSV"}
      [] s = "SRV10"   -> {"SRV"}
      [] s = "SRV11"   -> IF Interface >= 110 THEN {"SRV"} ELSE {}
      [] s = "UAV"     -> IF Interface >= 110 THEN {"UAV"} ELSE {}
      [] s = "HighUAV" -> IF Interface >= 111 THEN {"UAV"} ELSE {}

Init ==
    /\ drm \in BOOLEAN
    /\ resource = [r \in Resource |-> NoBody]
    /\ link = [c \in Resource \union View |-> NULL]
    /\ ppPrev = [v \in View |-> NULL]
    /\ pResource = [v \in View |-> NULL]
    /\ host = [v \in View |-> NULL]
    /\ slotView = [s \in Slot |-> NULL]
    /\ slotHost = [s \in Slot |-> NULL]
    /\ owner = [a \in Image |-> NULL]

-----------------------------------------------------------------------------
(* Creation and destruction.                                               *)

\* Exported Vulkan memory, which the ICD gets from the driver's hook: shared
\* textures, and swap chains' buffers where they have to be linear.
Exported(request) == request = "shared" \/ (request = "present" /\ drm)

NewBody(r, a, request) ==
    [hRTResource |-> r, request |-> request, pResource |-> a,
     hKMAllocation |-> IF request = "plain" THEN NULL ELSE a,
     memory |-> IF Exported(request) THEN a ELSE NULL]

\* Any of the create paths, or the opening, when it succeeds: a new image, and
\* an allocation under the runtime's handle for all but a plain resource.  A
\* name is not given out again while a wrapper holds it, whether or not its
\* allocation is still there.
CreateResource(r, a, request) ==
    /\ ~Live(r)
    /\ a \notin HeldImages /\ owner[a] = NULL
    /\ resource' = [resource EXCEPT ![r] = NewBody(r, a, request)]
    /\ link' = [link EXCEPT ![r] = NULL]
    /\ owner' = [owner EXCEPT ![a] = IF request = "plain" THEN NULL ELSE r]
    /\ UNCHANGED <<ppPrev, pResource, host, slots>>

\* vk_FreeMemory: the ICD closes what it got from the hook, and the hook frees
\* that allocation by its own handle (virtio_wddm_runtime_free).
FreeMemory(r) ==
    [a \in Image |-> IF a = resource[r].memory THEN NULL ELSE owner[a]]

\* pfnDeallocateCb with hResource: every allocation there still is under the
\* handle goes.
Deallocate(r, allocated) ==
    [a \in Image |-> IF /\ resource[r].hKMAllocation # NULL
                        /\ allocated[a] = resource[r].hRTResource
                     THEN NULL ELSE allocated[a]]

\* The runtime destroys a resource after the views on it.
DestroyResource(r) ==
    /\ Live(r)
    /\ \A v \in View : pResource[v] # r
    /\ owner' = Deallocate(r, FreeMemory(r))
    /\ resource' = [resource EXCEPT ![r] = NoBody]
    /\ link' = [link EXCEPT ![r] = NULL]
    /\ UNCHANGED <<ppPrev, pResource, host, slots>>

\* tritonResourceLinkView
LinkView(r, v) ==
    /\ link' = [link EXCEPT ![v] = link[r], ![r] = v]
    /\ ppPrev' = [w \in View |-> IF w = v THEN r
                                 ELSE IF w = link[r] THEN v ELSE ppPrev[w]]

\* Mutant: the view after v goes on pointing back at v.
ViewUnlinkHalf(v) ==
    /\ link' = [link EXCEPT ![ppPrev[v]] = link[v], ![v] = NULL]
    /\ ppPrev' = [ppPrev EXCEPT ![v] = NULL]

\* tritonViewUnlink, of a linked view: every live view is linked.
ViewUnlink(v) ==
    /\ link' = [link EXCEPT ![ppPrev[v]] = link[v], ![v] = NULL]
    /\ ppPrev' = [w \in View |-> IF w = v THEN NULL
                                 ELSE IF w = link[v] THEN ppPrev[v] ELSE ppPrev[w]]

\* A view the host refuses is not linked and the runtime does not use it.
CreateView(r, v) ==
    /\ Live(r) /\ pResource[v] = NULL
    /\ pResource' = [pResource EXCEPT ![v] = r]
    /\ host' = [host EXCEPT ![v] = resource[r].pResource]
    /\ LinkView(r, v)
    /\ UNCHANGED <<resource, slots, owner>>

\* The runtime destroys a view once it is bound nowhere.
DestroyView(v) ==
    /\ pResource[v] # NULL
    /\ \A s \in Slot : slotView[s] # v
    /\ ViewUnlink(v)
    /\ pResource' = [pResource EXCEPT ![v] = NULL]
    /\ host' = [host EXCEPT ![v] = NULL]
    /\ UNCHANGED <<resource, slots, owner>>

-----------------------------------------------------------------------------
(* Binding: the setters pass the host objects of the views they are given. *)

\* Mutant: the wrapper is passed in the place of its host object.
WrapperOf(v, hosts) == v

HostOf(v, hosts) == IF v = NULL THEN NULL ELSE hosts[v]

SetSlot(s, v) ==
    /\ v # NULL => pResource[v] # NULL /\ Kind[v] \in Accepts(s)
    /\ slotView' = [slotView EXCEPT ![s] = v]
    /\ slotHost' = [slotHost EXCEPT ![s] = HostOf(v, host)]
    /\ UNCHANGED <<resource, lists, pResource, host, owner>>

-----------------------------------------------------------------------------
(* Rotation.                                                               *)

\* The views a walk of r's list meets: those in every set of views that holds
\* the list's head and, with a view, the one after it.
Closed(r, views) ==
    /\ link[r] \in views \union {NULL}
    /\ \A v \in views : link[v] \in views \union {NULL}

Walked(r) == {v \in View : \A views \in SUBSET View : Closed(r, views) => v \in views}

\* The runtime rotates the buffers of one swap chain, which are all alike, and
\* neither textures shared by other means nor opened ones; with fewer than two
\* of them the call returns at once.
Rotations ==
    {q \in UNION {[1..n -> LiveResource] : n \in 2..Cardinality(Resource)} :
        \A i, j \in DOMAIN q :
           /\ q[i] = q[j] => i = j
           /\ resource[q[i]].request = resource[q[j]].request
           /\ resource[q[i]].request \in {"plain", "present"}}

Rotated(q) == {q[i] : i \in DOMAIN q}

\* The wrapper whose body r takes over.
Source(q, r) ==
    LET i == CHOOSE i \in DOMAIN q : q[i] = r
    IN IF i + 1 \in DOMAIN q THEN q[i + 1] ELSE q[1]

\* Mutant: the runtime handle moves with the rest of the body.
MoveAll(q, r) == resource[Source(q, r)]

\* Mutant: the allocation stays where the runtime handle stays.
MoveAllocationKept(q, r) ==
    [resource[Source(q, r)] EXCEPT !.hRTResource = resource[r].hRTResource,
                                   !.hKMAllocation = resource[r].hKMAllocation]

\* The struct copy, and the handle put back.
Move(q, r) ==
    [resource[Source(q, r)] EXCEPT !.hRTResource = resource[r].hRTResource]

MovedBody(q) == [r \in Resource |-> IF r \in Rotated(q) THEN Move(q, r) ELSE resource[r]]

\* The heads of the lists are put back as well.
KeptLists(q) == link

\* tritonResourceRecreateViews on every rotated wrapper: a view has no host
\* object afterwards if it had none, or if the host refuses one (lost).
Recreated(q, lost) ==
    [v \in View |->
        IF \E r \in Rotated(q) : v \in Walked(r)
        THEN IF host[v] = NULL \/ v \in lost THEN NULL
             ELSE MovedBody(q)[CHOOSE r \in Rotated(q) : v \in Walked(r)].pResource
        ELSE host[v]]

\* Mutant: the callbacks of 11.0 are not called.
SetAgain10 == {"SRV10", "OM"}

\* The slots the pfnState...Cb callbacks have the runtime set again.
SetAgain == {"SRV10", "OM"} \union IF Interface >= 110 THEN {"SRV11", "UAV"} ELSE {}

RotateResourceIdentities(q, lost) ==
    /\ resource' = MovedBody(q)
    /\ link' = KeptLists(q)
    /\ host' = Recreated(q, lost)
    /\ slotHost' = [s \in Slot |-> IF s \in SetAgain THEN HostOf(slotView[s], host')
                                   ELSE slotHost[s]]
    /\ UNCHANGED <<ppPrev, pResource, slotView, owner>>

\* The views a rotation may lose: any that have a host object, up to the bound.
Refused(q) ==
    {lost \in SUBSET {v \in View : pResource[v] \in Rotated(q) /\ host[v] # NULL} :
        Cardinality(lost \union {v \in View : pResource[v] # NULL /\ host[v] = NULL}) <= MaxLost}

Next ==
    /\ UNCHANGED drm
    /\ \/ \E r \in Resource, a \in Image, request \in Asked : CreateResource(r, a, request)
       \/ \E r \in Resource : DestroyResource(r)
       \/ \E r \in Resource, v \in View : CreateView(r, v)
       \/ \E v \in View : DestroyView(v)
       \/ \E s \in Slot, v \in View \union {NULL} : SetSlot(s, v)
       \/ \E q \in Rotations : \E lost \in Refused(q) : RotateResourceIdentities(q, lost)

Spec == Init /\ [][Next]_vars

-----------------------------------------------------------------------------
TypeOK ==
    /\ drm \in BOOLEAN
    /\ resource \in [Resource -> Body]
    /\ link \in [Resource \union View -> View \union {NULL}]
    /\ ppPrev \in [View -> Resource \union View \union {NULL}]
    /\ pResource \in [View -> Resource \union {NULL}]
    /\ host \in [View -> Image \union {NULL}]
    /\ slotView \in [Slot -> View \union {NULL}]
    /\ slotHost \in [Slot -> Image \union {NULL}]
    /\ owner \in [Image -> Resource \union {NULL}]

ViewsOf(r) == {v \in View : pResource[v] = r}

\* A walk of a wrapper's list meets exactly the live views made on the
\* wrapper, whatever was created, destroyed in the middle, or rotated.
WalkFindsViews == \A r \in Resource : Walked(r) = ViewsOf(r)

\* No view shows the image its wrapper had before a rotation.
ViewsFollowBody ==
    \A v \in View : pResource[v] # NULL =>
        host[v] \in {NULL, resource[pResource[v]].pResource}

\* After a rotation, too, what a draw through a slot writes or reads is what
\* the view in the slot shows (compute UAVs from the eighth on excepted: the
\* rotation does not have them set again).
SlotsCurrent ==
    \A s \in Slot \ {"HighUAV"} :
        slotView[s] # NULL => slotHost[s] = host[slotView[s]]

\* What is drawn through the output merger is what a present of the wrapper
\* names: the host image and the handle of its allocation move together.
PresentShowsDraws ==
    LET v == slotView["OM"] IN
    v # NULL /\ slotHost["OM"] # NULL =>
        resource[pResource[v]].hKMAllocation \in {NULL, slotHost["OM"]}

\* No rotation makes two wrappers share an image, so none is lost either.
ImagesNotShared ==
    \A r, t \in LiveResource :
        resource[r].pResource = resource[t].pResource => r = t

\* No allocation outlives the wrapper of the runtime handle it was made under,
\* wherever its image and the memory on it have gone since.  Where swap chains'
\* buffers are imported into Vulkan (no DRM capset), it is not freed before that
\* either: neither under memory that is bound to it, nor with another wrapper
\* that shows its image.
AllocationsOwned ==
    /\ \A a \in Image :
          owner[a] # NULL => Live(owner[a]) /\ resource[owner[a]].hKMAllocation # NULL
    /\ ~drm => \A r \in Resource :
          /\ resource[r].hKMAllocation # NULL => \E a \in Image : owner[a] = r
          /\ resource[r].memory # NULL => owner[resource[r].memory] = r

\* No runtime resource is retired while memory from one of its allocations is
\* still held by a wrapper (device.c:134-137).
RetiredAfterMemory ==
    \A r \in Resource : resource[r].memory # NULL => owner[resource[r].memory] # NULL

-----------------------------------------------------------------------------
(* The inductive invariant.                                                *)

\* A view and the cell that holds its address point to each other.
LinksMutual ==
    /\ \A v \in View :
          /\ ppPrev[v] # NULL => link[ppPrev[v]] = v
          /\ ppPrev[v] = NULL <=> pResource[v] = NULL
          /\ ppPrev[v] = NULL => link[v] = NULL
    /\ \A c \in Resource \union View : link[c] # NULL => ppPrev[link[c]] = c

\* The list of r stays among the views of r, and leaves none of them out.
ListsComplete ==
    \A r \in Resource :
        /\ Closed(r, ViewsOf(r))
        /\ \A views \in SUBSET View : Closed(r, views) => ViewsOf(r) \subseteq views

\* A body that is live has the handle of the wrapper it is in, and what was
\* made for its image is still with the image, allocation and memory; one that
\* is not live is all zero.
BodiesWhole ==
    \A r \in Resource :
        IF Live(r)
        THEN /\ resource[r].hRTResource = r
             /\ resource[r].hKMAllocation =
                   IF resource[r].request = "plain" THEN NULL ELSE resource[r].pResource
             /\ resource[r].memory =
                   IF Exported(resource[r].request) THEN resource[r].pResource ELSE NULL
        ELSE resource[r] = NoBody

\* Views are on live resources, and slots hold live views.
RefsLive ==
    /\ \A v \in View : IF pResource[v] = NULL THEN host[v] = NULL ELSE Live(pResource[v])
    /\ \A s \in Slot : slotView[s] # NULL =>
          pResource[slotView[s]] # NULL /\ Kind[slotView[s]] \in Accepts(s)

ViewInv ==
    /\ LinksMutual
    /\ ListsComplete
    /\ BodiesWhole
    /\ RefsLive
    /\ ViewsFollowBody
    /\ SlotsCurrent
    /\ ImagesNotShared
    /\ AllocationsOwned
=============================================================================

---------------------------- MODULE ResourceAlloc ----------------------------
(***************************************************************************)
(* How a resource gets its kernel allocation (resource.c) and how the      *)
(* allocation an ICD asks for in the middle of vkAllocateMemory finds its  *)
(* way back to the CreateResource further up the stack (device.c): through *)
(* two thread-local slots, a scope that tells the hook what is being       *)
(* created and a record that tells CreateResource what was allocated.      *)
(* Several threads create, open and destroy resources of one device.       *)
(***************************************************************************)
EXTENDS Naturals

CONSTANTS
    Resource,            \* resource blocks, and the runtime handles that go with them
    Alloc,               \* kernel allocation handles, reused once free
    Thread,
    NULL

PrivateMemory == "private"     \* memory the ICD did not get from the hook

ASSUME ResourceAllocAssumption ==
    /\ NULL \notin Resource \union Alloc
    /\ PrivateMemory \notin Alloc \union {NULL}

VARIABLES
    drm,                 \* the adapter has VIRTIO_WDDM_CAPSET_MASK_DRM
    resource,            \* the wrappers
    call,                \* where in which handler each thread is
    record,              \* virtio_wddm_last_runtime_alloc, thread-local
    scope,               \* virtio_wddm_runtime_alloc_scope, thread-local
    km                   \* kernel: the allocation behind each handle

vars == <<drm, resource, call, record, scope, km>>

-----------------------------------------------------------------------------
\* What is asked for: a buffer or texture of this process, a shared texture,
\* a swap chain's buffer, one that can be flipped to, an opened texture.
Request == {"plain", "shared", "present", "primary", "opened"}

PresentRequest == {"present", "primary"}

\* allocate_3d, is_shared || linear_present, and the rest.
Path(request) ==
    IF request = "opened" THEN "open"
    ELSE IF request \in PresentRequest /\ ~drm THEN "3d"
    ELSE IF request = "plain" THEN "plain"
    ELSE "blob"

Linear(request) == request \in PresentRequest /\ drm

Unused == [stage |-> "unused", request |-> "plain", hKMAllocation |-> NULL,
           image |-> FALSE, memory |-> NULL, pResource |-> FALSE]

Idle == [pc |-> "idle", r |-> NULL, blob |-> NULL]

NoRecord == [hRTResource |-> NULL, hAllocation |-> NULL]

NoScope == [hRTResource |-> NULL, primary |-> FALSE]

\* A kernel allocation: the runtime resource it belongs to, and who has made
\* it: CreateResource itself, the hook, or the runtime (an opened one).
Free == [rt |-> NULL, by |-> "nobody", primary |-> FALSE, resident |-> FALSE]

Used(a) == km[a] # Free

Init ==
    /\ drm \in BOOLEAN
    /\ resource = [r \in Resource |-> Unused]
    /\ call = [t \in Thread |-> Idle]
    /\ record = [t \in Thread |-> NoRecord]
    /\ scope = [t \in Thread |-> NoScope]
    /\ km = [a \in Alloc |-> Free]

-----------------------------------------------------------------------------
At(t, pc) == call[t].pc = pc

R(t) == call[t].r

Goto(t, pc) == call' = [call EXCEPT ![t].pc = pc]

\* Every error path: tritonSetError, and the handler returns.
Fail(t, body) ==
    /\ resource' = [resource EXCEPT ![R(t)] = [body EXCEPT !.stage = "failed"]]
    /\ call' = [call EXCEPT ![t] = Idle]

\* Mutant: a record of an earlier resource is left in place.
RecordKept(t) == record

ClearRecord(t) == [record EXCEPT ![t] = NoRecord]

-----------------------------------------------------------------------------
(* The hooks, called by the ICD on the thread that called it.              *)

\* Mutant: whatever is allocated inside the scope of a primary is one.
IsPrimaryInScope(t, rt) == scope[t].primary

IsPrimary(t, rt) == rt # NULL /\ scope[t].hRTResource = rt /\ scope[t].primary

RuntimeAlloc(t, rt, a) ==
    /\ ~Used(a)
    /\ km' = [km EXCEPT ![a] = [rt |-> rt, by |-> "hook", primary |-> IsPrimary(t, rt),
                                resident |-> FALSE]]
    /\ record' = [record EXCEPT ![t] = [hRTResource |-> rt, hAllocation |-> a]]

\* The allocation for the image that CreateResource waits for.
BlobAlloc(t, a) ==
    /\ At(t, "memory") /\ Path(resource[R(t)].request) = "blob" /\ call[t].blob = NULL
    /\ RuntimeAlloc(t, R(t), a)
    /\ call' = [call EXCEPT ![t].blob = a]
    /\ UNCHANGED <<resource, scope>>

\* Any other allocation or release the ICD has to make meanwhile.
UnrelatedAlloc(t, a) ==
    /\ RuntimeAlloc(t, NULL, a)
    /\ UNCHANGED <<resource, call, scope>>

RecordWithout(t, a) == IF record[t].hAllocation = a THEN ClearRecord(t) ELSE record

RuntimeFree(t, a) ==
    /\ km' = [km EXCEPT ![a] = Free]
    /\ record' = RecordWithout(t, a)

UnrelatedFree(t, a) ==
    /\ km[a].by = "hook" /\ km[a].rt = NULL
    /\ RuntimeFree(t, a)
    /\ UNCHANGED <<resource, call, scope>>

\* vkFreeMemory: the ICD returns what it got from the hook to the hook.
FreeMemory(t, memory) ==
    IF memory \in Alloc /\ km[memory].by = "hook"
    THEN RuntimeFree(t, memory)
    ELSE UNCHANGED <<km, record>>

-----------------------------------------------------------------------------
(* virtio_wddm_create_resource                                             *)

\* Where the three paths begin.
FirstStep(request) ==
    CASE Path(request) = "3d"    -> "allocate"
      [] Path(request) = "blob"  -> "image"
      [] Path(request) = "plain" -> "object"

CreateResource(t, r, request) ==
    /\ At(t, "idle") /\ resource[r].stage = "unused"
    /\ resource' = [resource EXCEPT ![r] =
          [Unused EXCEPT !.stage = "busy", !.request = request]]
    /\ call' = [call EXCEPT ![t] = [pc |-> FirstStep(request), r |-> r, blob |-> NULL]]
    /\ IF Path(request) = "blob"
       THEN /\ record' = ClearRecord(t)
            /\ scope' = [scope EXCEPT ![t] = [hRTResource |-> r, primary |-> request = "primary"]]
       ELSE UNCHANGED <<record, scope>>
    /\ UNCHANGED km

\* A linear buffer with mips, layers or samples is refused at once.
RefuseLinear(t, r, request) ==
    /\ At(t, "idle") /\ resource[r].stage = "unused" /\ Linear(request)
    /\ resource' = [resource EXCEPT ![r] =
          [Unused EXCEPT !.stage = "failed", !.request = request]]
    /\ UNCHANGED <<call, record, scope, km>>

\* create_shared_3d_resource: pfnAllocateCb, query_resource_info, and
\* make_resource_resident.
Allocate3d(t, a) ==
    /\ At(t, "allocate") /\ ~Used(a)
    /\ km' = [km EXCEPT ![a] = [rt |-> R(t), by |-> "driver", resident |-> FALSE,
                                primary |-> resource[R(t)].request = "primary"]]
    /\ resource' = [resource EXCEPT ![R(t)].hKMAllocation = a]
    /\ Goto(t, "query")
    /\ UNCHANGED <<record, scope>>

Query3d(t) ==
    /\ At(t, "query")
    /\ Goto(t, "resident")
    /\ UNCHANGED <<resource, record, scope, km>>

FreeByResource(r) == [a \in Alloc |-> IF km[a].rt = r THEN Free ELSE km[a]]

\* Mutant: the handle is forgotten also when deallocation fails.
HandleAfterCleanupGone(t, retired) == NULL

HandleAfterCleanup(t, retired) ==
    IF retired THEN NULL ELSE resource[R(t)].hKMAllocation

Query3dFails(t, retired) ==
    /\ At(t, "query")
    /\ km' = IF retired THEN FreeByResource(R(t)) ELSE km
    /\ Fail(t, [resource[R(t)] EXCEPT !.hKMAllocation = HandleAfterCleanup(t, retired)])
    /\ UNCHANGED <<record, scope>>

MakeResident(t) ==
    /\ At(t, "resident")
    /\ km' = [km EXCEPT ![resource[R(t)].hKMAllocation].resident = TRUE]
    /\ Goto(t, IF Path(resource[R(t)].request) = "3d" THEN "image" ELSE "publish")
    /\ UNCHANGED <<resource, record, scope>>

\* create_shared_vk_image: the image, then memory that is imported from
\* hKMAllocation, or else allocated through the hook, and bound.
CreateImage(t) ==
    /\ At(t, "image")
    /\ resource' = [resource EXCEPT ![R(t)].image = TRUE]
    /\ Goto(t, "memory")
    /\ UNCHANGED <<record, scope, km>>

\* Mutant: the slot is cleared with the record's empty value.
RestoreScopeMixed(t) == scope' = [scope EXCEPT ![t] = NoRecord]

RestoreScope(t) == scope' = [scope EXCEPT ![t] = NoScope]

\* No format, no image; or an image and no memory type for it.
CreateImageFails(t, left) ==
    /\ At(t, "image")
    /\ Fail(t, [resource[R(t)] EXCEPT !.image = left])
    /\ RestoreScope(t)
    /\ UNCHANGED <<record, km>>

BoundMemory(t) ==
    IF Path(resource[R(t)].request) # "blob" THEN resource[R(t)].hKMAllocation
    ELSE IF call[t].blob # NULL THEN call[t].blob
    ELSE PrivateMemory

AllocateMemory(t) ==
    /\ At(t, "memory")
    /\ resource' = [resource EXCEPT ![R(t)].memory = BoundMemory(t)]
    /\ Goto(t, IF Path(resource[R(t)].request) = "blob" THEN "record" ELSE "import")
    /\ RestoreScope(t)
    /\ UNCHANGED <<record, km>>

AllocateMemoryFails(t) ==
    /\ At(t, "memory")
    /\ FreeMemory(t, call[t].blob)
    /\ Fail(t, [resource[R(t)] EXCEPT !.image = FALSE])
    /\ RestoreScope(t)

Trusts(t) == record[t].hAllocation # NULL /\ record[t].hRTResource = R(t)

\* Mutant: the swap chain's linear buffers skip make_resource_resident.
AfterRecordPublish(t) == "publish"

AfterRecord(t) == IF Linear(resource[R(t)].request) THEN "resident" ELSE "publish"

CheckRecord(t) ==
    /\ At(t, "record")
    /\ IF Trusts(t)
       THEN /\ resource' = [resource EXCEPT ![R(t)].hKMAllocation = record[t].hAllocation]
            /\ Goto(t, AfterRecord(t))
       ELSE Fail(t, resource[R(t)])
    /\ UNCHANGED <<record, scope, km>>

\* VIRTIO_WDDM_ESCAPE_BLOB_INFO_SET
Publish(t) ==
    /\ At(t, "publish")
    /\ Goto(t, "import")
    /\ UNCHANGED <<resource, record, scope, km>>

\* The texture DXVK makes from the image, or all of a plain resource.
Complete(t) ==
    /\ At(t, "import") \/ At(t, "object")
    /\ resource' = [resource EXCEPT ![R(t)] = [@ EXCEPT !.pResource = TRUE, !.stage = "live"]]
    /\ call' = [call EXCEPT ![t] = Idle]
    /\ UNCHANGED <<record, scope, km>>

\* The steps that can fail and leave what they found.
StepFails(t) ==
    /\ call[t].pc \in {"allocate", "resident", "publish", "import", "object"}
    /\ Fail(t, resource[R(t)])
    /\ UNCHANGED <<record, scope, km>>

-----------------------------------------------------------------------------
(* virtio_wddm_open_resource: the runtime has opened the allocation before *)
(* it calls.                                                               *)

Opened(r) == [rt |-> r, by |-> "runtime", primary |-> FALSE, resident |-> FALSE]

OpenResource(t, r, a) ==
    /\ At(t, "idle") /\ resource[r].stage = "unused" /\ ~Used(a)
    /\ km' = [km EXCEPT ![a] = Opened(r)]
    /\ resource' = [resource EXCEPT ![r] =
          [Unused EXCEPT !.stage = "busy", !.request = "opened", !.hKMAllocation = a]]
    /\ call' = [call EXCEPT ![t] = [pc |-> "image", r |-> r, blob |-> NULL]]
    /\ UNCHANGED <<record, scope>>

\* query_resource_info fails, before the handle is stored, or what it says
\* is not an allocation that can be opened.
OpenResourceFails(t, r, a, stored) ==
    /\ At(t, "idle") /\ resource[r].stage = "unused" /\ ~Used(a)
    /\ km' = [km EXCEPT ![a] = Opened(r)]
    /\ resource' = [resource EXCEPT ![r] =
          [Unused EXCEPT !.stage = "failed", !.request = "opened",
                         !.hKMAllocation = IF stored THEN a ELSE NULL]]
    /\ UNCHANGED <<call, record, scope>>

-----------------------------------------------------------------------------
(* virtio_wddm_destroy_resource.  Here the runtime destroys what it could  *)
(* not create, too; FailureRetires is about one that does not.             *)

\* Mutant: the runtime resource is retired while its memory is still there.
DestroyResourceFirst(t, r) ==
    /\ At(t, "idle") /\ resource[r].stage \in {"live", "failed"}
    /\ km' = IF resource[r].hKMAllocation # NULL THEN FreeByResource(r) ELSE km
    /\ resource' = [resource EXCEPT ![r].stage = "busy", ![r].hKMAllocation = NULL]
    /\ call' = [call EXCEPT ![t] = [pc |-> "deallocate", r |-> r, blob |-> NULL]]
    /\ UNCHANGED <<record, scope>>

DestroyResource(t, r) ==
    /\ At(t, "idle") /\ resource[r].stage \in {"live", "failed"}
    /\ FreeMemory(t, resource[r].memory)
    /\ resource' = [resource EXCEPT ![r] =
          [@ EXCEPT !.stage = "busy", !.pResource = FALSE, !.image = FALSE, !.memory = NULL]]
    /\ call' = [call EXCEPT ![t] = [pc |-> "deallocate", r |-> r, blob |-> NULL]]
    /\ UNCHANGED <<scope>>

\* Nothing the runtime opened survives its resource.
RuntimeCloses(r, allocs) ==
    [a \in Alloc |-> IF allocs[a].rt = r /\ allocs[a].by = "runtime" THEN Free ELSE allocs[a]]

Deallocate(t) ==
    /\ At(t, "deallocate")
    /\ km' = RuntimeCloses(R(t),
          IF resource[R(t)].hKMAllocation # NULL THEN FreeByResource(R(t)) ELSE km)
    /\ resource' = [resource EXCEPT ![R(t)] = Unused]
    /\ call' = [call EXCEPT ![t] = Idle]
    /\ UNCHANGED <<record, scope>>

Next ==
    /\ UNCHANGED drm
    /\ \/ \E t \in Thread, a \in Alloc :
             \/ BlobAlloc(t, a) \/ UnrelatedAlloc(t, a) \/ UnrelatedFree(t, a)
             \/ Allocate3d(t, a)
             \/ \E r \in Resource :
                   OpenResource(t, r, a) \/ \E stored \in BOOLEAN : OpenResourceFails(t, r, a, stored)
       \/ \E t \in Thread, r \in Resource :
             \/ \E request \in Request \ {"opened"} :
                   CreateResource(t, r, request) \/ RefuseLinear(t, r, request)
             \/ DestroyResource(t, r)
       \/ \E t \in Thread :
             \/ Query3d(t) \/ \E retired \in BOOLEAN : Query3dFails(t, retired)
             \/ MakeResident(t)
             \/ CreateImage(t) \/ \E left \in BOOLEAN : CreateImageFails(t, left)
             \/ AllocateMemory(t) \/ AllocateMemoryFails(t)
             \/ CheckRecord(t) \/ Publish(t) \/ Complete(t) \/ StepFails(t)
             \/ Deallocate(t)

Spec == Init /\ [][Next]_vars

-----------------------------------------------------------------------------
PC == {"idle", "allocate", "query", "resident", "image", "memory", "record", "publish",
       "import", "object", "deallocate"}

TypeOK ==
    /\ drm \in BOOLEAN
    /\ resource \in [Resource -> [stage : {"unused", "busy", "live", "failed"},
                                  request : Request, hKMAllocation : Alloc \union {NULL},
                                  image : BOOLEAN, memory : Alloc \union {NULL, PrivateMemory},
                                  pResource : BOOLEAN]]
    /\ call \in [Thread -> [pc : PC, r : Resource \union {NULL}, blob : Alloc \union {NULL}]]
    /\ record \in [Thread -> [hRTResource : Resource \union {NULL},
                              hAllocation : Alloc \union {NULL}]]
    /\ scope \in [Thread -> [hRTResource : Resource \union {NULL}, primary : BOOLEAN]]
    /\ km \in [Alloc -> [rt : Resource \union {NULL}, primary : BOOLEAN, resident : BOOLEAN,
                         by : {"nobody", "driver", "hook", "runtime"}]]

\* The allocation other processes and the display are told about is the one
\* the pixels are in, and belongs to the resource: no stale or foreign record
\* is ever taken for it, whatever other threads and the ICD allocate meanwhile.
Attributed ==
    \A r \in Resource :
        resource[r].stage = "live" =>
            LET a == resource[r].hKMAllocation IN
            IF resource[r].request = "plain" THEN a = NULL
            ELSE a # NULL /\ resource[r].memory = a /\ km[a].rt = r

\* Nothing frees an allocation under the memory that is bound to it, neither
\* the cleanup of a failed step nor the destruction of the resource.
MemoryBacked ==
    \A r \in Resource :
        resource[r].memory \in Alloc => km[resource[r].memory].rt = r

\* The kernel sees the primary flag on the allocations of primaries, and on no
\* other that is made while one is being created.
PrimaryMarked ==
    \A a \in Alloc :
        km[a].primary <=> /\ km[a].rt # NULL
                          /\ resource[km[a].rt].request = "primary"

\* What the runtime may present is resident when the creation returns.
PresentsResident ==
    \A r \in Resource :
        resource[r].stage = "live" /\ resource[r].request \in PresentRequest =>
            km[resource[r].hKMAllocation].resident

\* No allocation outlives its resource, created or not, however far the
\* creation got, and whoever made the allocation (resource.c:1355-1385).
NothingLeftBehind ==
    \A a \in Alloc : km[a].rt # NULL => resource[km[a].rt].stage # "unused"

\* A creation that has its allocation but no image yet, and fails, retires the
\* runtime resource instead of waiting for a DestroyResource.
FailureRetires ==
    [][\A t \in Thread :
          /\ At(t, "resident") /\ ~resource[R(t)].image
          /\ resource'[R(t)].stage = "failed"
          => \A a \in Alloc : km'[a].rt # R(t)]_vars

=============================================================================

------------------------------ MODULE DeviceWork ------------------------------
(***************************************************************************)
(* What the runtime learns of work that the GPU does later                 *)
(* (tritonResource.c, tritonQuery.c): resources are created and commands   *)
(* recorded on them, the host hands commands over to its ring and the GPU  *)
(* executes them in order, while maps, the staging probe and queries are   *)
(* asked how far it has got, and shared surfaces pass to another process.  *)
(*                                                                         *)
(* Commands are counted: the recorded ones, of those the submitted ones    *)
(* and of those the executed ones.  What a command does to the bytes is    *)
(* left out; a resource or a query is ready when the last command on it    *)
(* has been executed.                                                      *)
(***************************************************************************)
EXTENDS Integers, FiniteSets

CONSTANTS
    Resource,            \* resource blocks
    Query,               \* query blocks
    Asked,               \* the D3D11DDIARG_CREATERESOURCEs the runtime passes
    MaxWork,             \* bound: commands recorded
    None

ASSUME DeviceWorkAssumption ==
    /\ MaxWork \in Nat
    /\ None \notin Resource

VARIABLES
    resource,            \* None, or what was asked for and what the host has made of it
    query,               \* the host query: "none", "made" or "refused"
    recorded,            \* commands given to the immediate context,
    submitted,           \* handed over to the host's ring,
    executed,            \* and executed by the GPU
    lastWrite,           \* the last command recorded that writes a resource,
    lastUse,             \* reads or writes it,
    ended,               \* or ends a query
    mapped,              \* the resources that are mapped on the host
    held,                \* the resources the runtime knows to be mapped
    idle,                \* the resources it was told may be read at once
    answered,            \* the queries whose data it took
    waiting,             \* the resource a blocking map waits for, or None
    spinning,            \* the resource whose probe the runtime repeats
    handover,            \* the shared surface a consumer may acquire, or None
    released,            \* how much had been recorded when it was released
    acquired,            \* where in the ring the consumer's work begins
    lost                 \* the device has been removed

work  == <<recorded, submitted, executed, lastWrite, lastUse, ended>>
told  == <<mapped, held, idle, answered>>
calls == <<waiting, spinning>>
other == <<handover, released, acquired>>
vars  == <<resource, query, work, told, calls, other, lost>>

-----------------------------------------------------------------------------
(* The creation arguments and what the host is asked for.  A flag word is  *)
(* the set of its bits.                                                    *)

DdiBind ==
    [vertex |-> 1, index |-> 2, constant |-> 4, shaderResource |-> 8, streamOutput |-> 16,
     renderTarget |-> 32, depthStencil |-> 64, present |-> 128, unordered |-> 256,
     decoder |-> 512, encoder |-> 1024]

HostBind ==
    [vertex |-> 1, index |-> 2, constant |-> 4, shaderResource |-> 8, streamOutput |-> 16,
     renderTarget |-> 32, depthStencil |-> 64, unordered |-> 128,
     decoder |-> 512, encoder |-> 1024]

\* Sharing, generated mips, indirect arguments, raw views, structure, clamp.
HostMisc == {1, 2, 16, 32, 64, 128}

Meant(word, bits) == {n \in DOMAIN word : word[n] \in bits}

\* Mutant: the bind flags are copied bit for bit.
TranslateBindVerbatim(bits) == bits

TranslateBind(bits) ==
    {HostBind[n] : n \in Meant(DdiBind, bits) \intersect DOMAIN HostBind}

\* tritonTranslateUsage; the map flags and the usages are numbered alike.
TranslateUsage(a) ==
    [usage |-> a.usage, cpu |-> a.cpu, bind |-> TranslateBind(a.bind),
     misc |-> a.misc \intersect HostMisc]

\* Mutant: a cube with an array size of zero is taken at its word.
GivenByArraySize(a, memory) ==
    IF ~a.data \/ ~memory THEN 0 ELSE a.mips * a.arraySize

\* The entries of the block that tritonBuildInitData makes of pInitialDataUP;
\* without memory for it, it returns NULL as if there were no data.
Given(a, memory) ==
    IF ~a.data \/ ~memory THEN 0
    ELSE IF a.dimension = "cube" /\ a.arraySize = 0 THEN a.mips * 6
    ELSE a.mips * a.arraySize

\* What may be presented is shared, and read by shaders unless it is staging.
Presentable(a) == DdiBind.present \in a.bind

\* What virtio_wddm_create_resource asks the host for, and how many entries of
\* initial data it passes with it; the host reads one for each subresource.
HostDesc(a, memory) ==
    LET u == TranslateUsage(a)
        cube == a.dimension = "cube"
    IN [usage |-> u.usage, cpu |-> u.cpu,
        bind |-> u.bind \union
            (IF Presentable(a) /\ a.usage # "staging" THEN {HostBind.shaderResource} ELSE {}),
        misc |-> u.misc \union (IF Presentable(a) THEN {2} ELSE {})
                        \union (IF cube THEN {4} ELSE {}),
        subresources |-> a.mips * (IF cube /\ a.arraySize = 0 THEN 6 ELSE a.arraySize),
        given |-> Given(a, memory)]

-----------------------------------------------------------------------------
Init ==
    /\ resource = [r \in Resource |-> None]
    /\ query = [q \in Query |-> "none"]
    /\ recorded = 0 /\ submitted = 0 /\ executed = 0
    /\ lastWrite = [r \in Resource |-> 0] /\ lastUse = [r \in Resource |-> 0]
    /\ ended = [q \in Query |-> 0]
    /\ mapped = {} /\ held = {} /\ idle = {} /\ answered = {}
    /\ waiting = None /\ spinning = None
    /\ handover = None /\ released = 0 /\ acquired = 0
    /\ lost = FALSE

\* One thread uses the device: it is inside no blocking map and no probe loop.
Free == waiting = None /\ spinning = None

Made(r) == resource[r] # None

Shared(r) == Made(r) /\ 2 \in resource[r].host.misc

\* A block of initial data that cannot be allocated is no error; memory keeps
\* whether it could, and only a creation with data needs one.
Create(r, a, memory) ==
    /\ Free /\ ~Made(r)
    /\ a.data \/ memory
    /\ resource' =
         [resource EXCEPT ![r] = [asked |-> a, memory |-> memory, host |-> HostDesc(a, memory)]]
    /\ UNCHANGED <<query, work, told, calls, other, lost>>

\* A command that reads rs and writes ws is appended.
Record(rs, ws) ==
    /\ Free /\ ~lost /\ recorded < MaxWork
    /\ \A r \in rs \union ws : Made(r) /\ r \notin mapped
    /\ recorded' = recorded + 1
    /\ lastWrite' = [r \in Resource |-> IF r \in ws THEN recorded' ELSE lastWrite[r]]
    /\ lastUse' = [r \in Resource |-> IF r \in rs \union ws THEN recorded' ELSE lastUse[r]]
    /\ idle' = idle \ ws
    /\ UNCHANGED <<resource, query, submitted, executed, ended, mapped, held, answered, calls,
                   other, lost>>

\* tritonResourceUpdateSubresourceUP and its kin; tritonUpdateTiles, which is
\* in the tables of WDDM 1.3 and later only, versions that are not offered.
Update(r) == Record({}, {r})

\* tritonResourceCopy, CopyRegion, ResolveSubresource (and CopyTiles).
Copy(d, s) == d # s /\ Record({s}, {d})

Flush ==
    /\ Free
    /\ submitted' = recorded
    /\ UNCHANGED <<resource, query, recorded, executed, lastWrite, lastUse, ended, told, calls,
                   other, lost>>

\* The host hands commands over whenever it likes.
HostSubmits ==
    /\ submitted < recorded
    /\ submitted' \in submitted + 1 .. recorded
    /\ UNCHANGED <<resource, query, recorded, executed, lastWrite, lastUse, ended, told, calls,
                   other, lost>>

Execute ==
    /\ executed < submitted /\ ~lost
    /\ executed' = executed + 1
    /\ UNCHANGED <<resource, query, recorded, submitted, lastWrite, lastUse, ended, told, calls,
                   other, lost>>

LoseDevice ==
    /\ ~lost /\ lost' = TRUE
    /\ UNCHANGED <<resource, query, work, told, calls, other>>

-----------------------------------------------------------------------------
(* The host's map.  A discard never waits, for it gets new memory.          *)

MapAllowed(r, type) ==
    LET h == resource[r].host IN
    CASE type = "read"    -> "read" \in h.cpu
      [] type = "write"   -> "write" \in h.cpu /\ h.usage = "staging"
      [] type = "discard" -> "write" \in h.cpu /\ h.usage = "dynamic"

Awaited(r, type) ==
    CASE type = "read"    -> lastWrite[r]
      [] type = "write"   -> lastUse[r]
      [] type = "discard" -> 0

\* What ID3D11DeviceContext::Map answers when it may not wait.
MapResult(r, type) ==
    IF lost \/ ~MapAllowed(r, type) THEN "failed"
    ELSE IF executed < Awaited(r, type) THEN "still drawing" ELSE "ok"

\* A map that finds the resource in use hands over what is recorded.
SubmittedBy(result) == IF result = "still drawing" THEN recorded ELSE submitted

\* Whether tritonResourceMap gives the runtime data, and sets no error.
MapSucceeded(result) == result = "ok"

\* tritonResourceMap with D3D10_DDI_MAP_FLAG_DONOTWAIT.
MapNoWait(r, type) ==
    /\ Free /\ Made(r) /\ r \notin mapped
    /\ LET result == MapResult(r, type) IN
       /\ submitted' = SubmittedBy(result)
       /\ mapped' = IF result = "ok" THEN mapped \union {r} ELSE mapped
       /\ held' = IF MapSucceeded(result) THEN held \union {r} ELSE held
       /\ idle' = IF MapSucceeded(result) /\ type = "read" THEN idle \union {r} ELSE idle
    /\ UNCHANGED <<resource, query, recorded, executed, lastWrite, lastUse, ended, answered, calls,
                   other, lost>>

\* tritonResourceMap without it; the reading map is the one that matters.
MapBegins(r) ==
    /\ Free /\ Made(r) /\ r \notin mapped /\ MapAllowed(r, "read")
    /\ submitted' = recorded
    /\ waiting' = r
    /\ UNCHANGED <<resource, query, recorded, executed, lastWrite, lastUse, ended, told, spinning,
                   other, lost>>

MapReturns(r) ==
    /\ waiting = r
    /\ lost \/ executed >= lastWrite[r]
    /\ waiting' = None
    /\ IF MapSucceeded(MapResult(r, "read"))
       THEN mapped' = mapped \union {r} /\ held' = held \union {r} /\ idle' = idle \union {r}
       ELSE UNCHANGED <<mapped, held, idle>>
    /\ UNCHANGED <<resource, query, work, answered, spinning, other, lost>>

Unmap(r) ==
    /\ Free /\ r \in held
    /\ mapped' = mapped \ {r} /\ held' = held \ {r}
    /\ UNCHANGED <<resource, query, work, idle, answered, calls, other, lost>>

-----------------------------------------------------------------------------
(* tritonResourceIsStagingBusy.                                             *)

\* Mutant: the probe always maps for reading.
ProbeTypeRead(a) == "read"

\* The probe's map type, or none when the CPU has no access.
ProbeType(a) ==
    IF "read" \in a.cpu THEN "read" ELSE IF "write" \in a.cpu THEN "write" ELSE "none"

ProbeResult(r) ==
    IF ProbeType(resource[r].asked) = "none" THEN "failed"
    ELSE MapResult(r, ProbeType(resource[r].asked))

\* The runtime has a copy to the staging resource it wants to read or refill.
Spin(r) ==
    /\ Free /\ Made(r) /\ r \notin mapped
    /\ resource[r].asked.usage = "staging" /\ resource[r].asked.cpu # {}
    /\ spinning' = r
    /\ UNCHANGED <<resource, query, work, told, waiting, other, lost>>

\* The probe maps and unmaps; the runtime asks again as long as it hears TRUE.
Probe ==
    /\ spinning # None
    /\ submitted' = SubmittedBy(ProbeResult(spinning))
    /\ IF ProbeResult(spinning) = "ok"
       THEN idle' = idle \union {spinning} /\ spinning' = None
       ELSE UNCHANGED <<idle, spinning>>
    /\ UNCHANGED <<resource, query, recorded, executed, lastWrite, lastUse, ended, mapped, held,
                   answered, waiting, other, lost>>

\* With the device gone the probe never says FALSE, and the runtime gives up.
StopSpinning ==
    /\ spinning # None
    /\ lost
    /\ spinning' = None
    /\ UNCHANGED <<resource, query, work, told, waiting, other, lost>>

-----------------------------------------------------------------------------
(* Queries.  A query that the host refused has pQuery = NULL, and the      *)
(* handlers return at once.                                                *)

\* Mutant: the pointer keeps what was in the block.
CreateQueryKept(q) ==
    /\ Free /\ query[q] = "none"
    /\ query' = [query EXCEPT ![q] = None]
    /\ UNCHANGED <<resource, work, told, calls, other, lost>>

CreateQuery(q) ==
    /\ Free /\ query[q] = "none"
    /\ query' = [query EXCEPT ![q] = "made"]
    /\ UNCHANGED <<resource, work, told, calls, other, lost>>

\* The failure is logged only.
CreateQueryFails(q) ==
    /\ Free /\ query[q] = "none"
    /\ query' = [query EXCEPT ![q] = "refused"]
    /\ UNCHANGED <<resource, work, told, calls, other, lost>>

DestroyQuery(q) ==
    /\ Free /\ query[q] # "none"
    /\ query' = [query EXCEPT ![q] = "none"]
    /\ ended' = [ended EXCEPT ![q] = 0]
    /\ answered' = answered \ {q}
    /\ UNCHANGED <<resource, recorded, submitted, executed, lastWrite, lastUse, mapped, held, idle,
                   calls, other, lost>>

\* The command that ends a query: what it will answer for is all that was
\* recorded so far, itself included if there is a host query to end.
QueryEnd(q) ==
    /\ Free /\ ~lost /\ query[q] # "none" /\ recorded < MaxWork
    /\ recorded' = IF query[q] = "made" THEN recorded + 1 ELSE recorded
    /\ ended' = [ended EXCEPT ![q] = recorded']
    /\ answered' = answered \ {q}
    /\ UNCHANGED <<resource, query, submitted, executed, lastWrite, lastUse, mapped, held, idle,
                   calls, other, lost>>

\* What ID3D11DeviceContext::GetData answers.
QueryResult(q) ==
    IF lost THEN "failed" ELSE IF executed < ended[q] THEN "not ready" ELSE "ok"

\* Mutant: S_FALSE is a success like any other.
DataTakenUnlessFailed(q) == query[q] = "refused" \/ QueryResult(q) # "failed"

\* No error is set, and the runtime takes pData for the answer.
DataTaken(q) == query[q] = "refused" \/ QueryResult(q) = "ok"

\* Without D3D11_ASYNC_GETDATA_DONOTFLUSH what is recorded is handed over.
QueryGetData(q, doNotFlush) ==
    /\ Free /\ ended[q] > 0
    /\ submitted' =
         IF query[q] = "made" /\ QueryResult(q) = "not ready" /\ ~doNotFlush
         THEN recorded ELSE submitted
    /\ answered' = IF DataTaken(q) THEN answered \union {q} ELSE answered
    /\ UNCHANGED <<resource, query, recorded, executed, lastWrite, lastUse, ended, mapped, held,
                   idle, calls, other, lost>>

-----------------------------------------------------------------------------
(* The sync token of a shared surface.  The two handlers are in the table  *)
(* of WDDM 2.1 only (tritonDDI.c:625-632), which has a case in the switch  *)
(* over pArgs->Interface but is not among the versions this build offers.  *)

\* Mutant: the release does not flush.
ReleaseResourceUnflushed(r) ==
    /\ Free /\ Shared(r) /\ handover = None
    /\ submitted' = submitted
    /\ handover' = r /\ released' = lastWrite[r] /\ acquired' = acquired
    /\ UNCHANGED <<resource, query, recorded, executed, lastWrite, lastUse, ended, told, calls,
                   lost>>

\* tritonReleaseResource, after which the token is signalled.
ReleaseResource(r) ==
    /\ Free /\ Shared(r) /\ handover = None
    /\ submitted' = recorded
    /\ handover' = r /\ released' = lastWrite[r] /\ acquired' = acquired
    /\ UNCHANGED <<resource, query, recorded, executed, lastWrite, lastUse, ended, told, calls,
                   lost>>

\* The consumer's tritonAcquireResource does nothing, and its work joins the
\* ring behind everything handed over so far.
ConsumerAcquires ==
    /\ handover # None
    /\ acquired' = submitted /\ handover' = None
    /\ UNCHANGED <<resource, query, work, told, calls, released, lost>>

-----------------------------------------------------------------------------
Next ==
    \/ \E r \in Resource :
         \/ \E a \in Asked, memory \in BOOLEAN : Create(r, a, memory)
         \/ Update(r)
         \/ \E s \in Resource : Copy(r, s)
         \/ \E type \in {"read", "write", "discard"} : MapNoWait(r, type)
         \/ MapBegins(r) \/ MapReturns(r) \/ Unmap(r)
         \/ Spin(r) \/ ReleaseResource(r)
    \/ \E q \in Query :
         \/ CreateQuery(q) \/ CreateQueryFails(q) \/ DestroyQuery(q) \/ QueryEnd(q)
         \/ \E doNotFlush \in BOOLEAN : QueryGetData(q, doNotFlush)
    \/ Flush \/ HostSubmits \/ Execute \/ LoseDevice
    \/ Probe \/ StopSpinning \/ ConsumerAcquires

\* The GPU executes what is in its ring, and a runtime that spins goes on.
Fairness == WF_vars(Execute) /\ WF_vars(Probe)

Spec == Init /\ [][Next]_vars /\ Fairness

-----------------------------------------------------------------------------
TypeOK ==
    /\ \A r \in Resource : Made(r) => resource[r].asked \in Asked
    /\ query \in [Query -> {"none", "made", "refused"}]
    /\ recorded \in 0 .. MaxWork /\ submitted \in 0 .. recorded /\ executed \in 0 .. submitted
    /\ lastUse \in [Resource -> 0 .. recorded]
    /\ lastWrite \in [Resource -> Nat] /\ \A r \in Resource : lastWrite[r] <= lastUse[r]
    /\ ended \in [Query -> 0 .. recorded]
    /\ mapped \subseteq Resource /\ held \subseteq Resource /\ idle \subseteq Resource
    /\ answered \subseteq Query
    /\ waiting \in Resource \union {None} /\ spinning \in Resource \union {None}
    /\ handover \in Resource \union {None}
    /\ released \in 0 .. recorded /\ acquired \in 0 .. submitted
    /\ lost \in BOOLEAN

\* The host has the kind of resource the runtime asked for: a back buffer is no
\* unordered-access resource because DDI and D3D11 number the bind flags
\* differently, and an unordered-access resource is one (tritonResource.c:40-46).
\* When there is memory for the block of initial data, it has an entry for every
\* subresource that the host reads from it, each face of a cube included, and
\* for no other (tritonResource.c:103-106), so that the host neither reads behind
\* it nor makes a face without its data.  That data the runtime passes always
\* arrive is not said, and not so: without that memory the resource is made
\* without them, and nobody hears of it (tritonResource.c:118).
BornAsAsked ==
    \A r \in Resource : Made(r) =>
        LET a == resource[r].asked
            h == resource[r].host IN
        /\ Meant(HostBind, h.bind) \ {"shaderResource"} =
              Meant(DdiBind, a.bind) \ {"shaderResource", "present"}
        /\ "shaderResource" \in Meant(DdiBind, a.bind) => HostBind.shaderResource \in h.bind
        /\ h.given = (IF a.data /\ resource[r].memory THEN h.subresources ELSE 0)

\* What the runtime was told is so.  A resource it takes to be mapped is; one
\* it was told may be read at once, by map data or by a probe's FALSE, has no
\* writer outstanding ("returning FALSE would let the runtime read garbage",
\* tritonResource.c:735-737); and a query whose data it took has ended on the
\* GPU, where a host query exists (tritonQuery.c:113-117).
ToldTrue ==
    /\ mapped = held
    /\ \A r \in idle : executed >= lastWrite[r]
    /\ \A q \in answered : query[q] = "made" => executed >= ended[q]

\* A consumer that has acquired a shared surface reads it behind everything its
\* producer had recorded on it: "the surface contents have to be submitted (and
\* host-ordered) before the consumer's acquire, or DWM composes whatever bytes
\* the surface happens to hold" (tritonResource.c:1179-1185).
ConsumerSeesReleased == handover = None => acquired >= released

\* A runtime that repeats the probe of a staging resource is told in the end
\* that it is not busy, whatever access the CPU has, unless the device is lost:
\* a probe of the wrong type "would report busy forever" (tritonResource.c:
\* 740-745).
StagingGetsReady ==
    \A r \in Resource : spinning = r ~> (spinning = None \/ lost)

\* The runtime takes no data for an answer that is none: "so we propagate that
\* via pfnSetErrorCb so the app doesn't read stale pData" (tritonQuery.c:
\* 113-117).
NoStaleData == \A q \in answered : query[q] = "made"
=============================================================================

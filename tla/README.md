# A verification of virtio-d3d11

virtio-d3d11 is a user-mode display driver for Windows guests. The Direct3D 11
runtime calls it through the DDI; it forwards most calls to DXVK, which runs on a
Vulkan ICD whose commands go to the host, and talks to the guest's kernel driver
through callbacks (allocations, contexts, presents). This directory models the
parts of the driver that keep state of their own, checks them with TLC, and proves
the most important invariants with TLAPS.

`T/` below stands for `src/thirdparty/triton/src/virtio/neptune/triton/`.

## 1. Inventory

The driver is one DLL. The runtime serialises the DDI calls on one device (the
driver reports no threading capabilities, `T/tritonDDI.c:1085`), but the DXGI base
functions may come from several threads at once (`T/triton.h:157-180`), as may
calls on different devices, which share the process-wide caches.

| component | state it keeps | operations | what is hard |
|---|---|---|---|
| Adapter (`adapter.c`) | adapter block, log file state | OpenAdapter10_2, close, lazy opening of the log | lock-free publication |
| Device life cycle (`device.c`) | libraries, Vulkan instance, DXVK interfaces, present context, paging queue | create_device, destroy_device, cleanup of a failed creation | 30 failure points, order of release, presents in flight |
| Present and blit (`dxgi.c`) | `presentFenceValue`, the fence, the kernel context | present, blt, blt1, sync_with_present_context | threads without a lock, time-outs, out-of-order signals |
| DXGI base functions (`dxgi.c`) | none | residency, offer, reclaim, gamma, display mode | which of several statuses wins |
| Rotation (`dxgi.c`, `T/tritonView.c`) | bodies of resource wrappers, intrusive view lists, the runtime's slots | view create and destroy, setters, rotate | bodies move while addresses, lists and handles stay |
| Resource creation (`resource.c`, `device.c`) | wrapper, Vulkan image and memory, kernel allocation, thread-local record and scope | create, open, destroy, allocation hooks | error paths, nested callbacks, handles that must find their resource |
| Input-layout resolver (`T/tritonShader.c`, `T/tritonState.c`) | cookies, cached layout and retyped shader, weak references | shader and layout create, bind, destroy, resolve | stale caches, reused blocks, failures half way |
| Format capabilities (`T/tritonQuery.c`) | process-wide caches of masks and quality levels | CheckFormatSupport, CheckMultisampleQualityLevels | caches filled from several paths and threads |
| Queries (`T/tritonQuery.c`) | host query object | create, begin, end, get data | a success code that is no answer, a refusal nobody hears of |
| Shader container builder (`T/tritonDxbc.c`) | none that outlives a call | token scan, completion and naming of signatures, chunks, hash | lengths read from the program, entries that are missing, sizes computed twice |
| Signature parser, stream output (`T/tritonShader.c`) | the shader's container | parse, find, create GS with SO | reader and writer know the chunk layouts separately |
| State objects and draws (`T/tritonState.c`) | host state objects | translate, forward | two layouts of one description, flags that mean different things |
| Maps, updates, tiles (`T/tritonResource.c`) | none of its own | map, staging probe, update, copy, tiles, initial data, release and acquire | answers about work that the GPU does later |
| Tables, versions, capabilities (`T/tritonDDI.c`) | none | GetSupportedVersions, GetCaps, the function tables | what is offered in one place is accepted in another |
| DXVK glue, protocol headers, blit shaders, build files | none | | |

How they interact. `OpenAdapter10_2` hands the runtime `create_device`, which fills
the function tables with the handlers of all the others. `create_resource` calls
Vulkan, which calls the ICD, which calls the driver's allocation hooks back on the
same thread. `rotate_resource_identities` rewrites the wrappers of `resource.c`,
then calls `tritonResourceRecreateViews` and asks the runtime through callbacks to
set its slots again, which re-enters the setters of `tritonView.c`. `present` uses
the immediate context that the handlers of `tritonState.c` record in, and the
handle that `create_resource` stored. Binding a vertex shader or an element layout
calls the resolver, which writes to both.

What is built. `Makefile.triton` defines `TRITON_BUILD_COMMON_TRANSLATION_LAYER`. It
takes out `tritonCreateResource`, `tritonOpenResource` and `tritonDestroyResource`,
`tritonCreateDevice` and `tritonDestroyDevice` (the driver has its own in
`resource.c` and `device.c`), and, in the resolver, the building of the retyped
vertex shader; and only the interfaces 11.0 and 11.1 are offered. The models follow the code that is built; `InputLayout` takes
the variant of the resolver as a constant (`Reconcile`): the run has the fuller variant, in
which only the pairs in `Retyped` are retyped and the others go the way of the code
that is built, and the theorems hold for either value.


## 2. Plan

Done, in the order of what matters most:

1. `PresentGate`, `PresentFence` - presents; refinement; proved.
2. `InputLayout` - the resolver; proved.
3. `ResourceViews` - views and rotation; proved.
4. `ResourceAlloc` - creation, opening and destruction of resources; proved.
5. `DeviceLifecycle`, composed of `Adapter` and `PipelineState` - the log, the adapter
   and its versions, the device, its state objects; proved.
6. `FormatCaps` - format and multisample support; proved.
7. `ShaderTokens`, `ShaderSignature`, `ShaderSource`, `ShaderContainer` - from a
   program's tokens to the container and its readers; proved.
8. `DeviceWork` - resources, maps, queries and hand-overs against the GPU; proved.

What a next step would take: the widening of conversion components and the
retyping of an input signature in `tritonDxbc.c`; tile mappings; and one module that
composes `ResourceAlloc`'s life cycle with `ResourceViews` and `PresentFence`, so
that what is presented after a rotation is resident and complete. Every safety property
a run checks is proved, so what is left to prove is about such a composition.

## 3. Modules

**PresentGate** is the abstract promise of a present: work is recorded and completed in
order, and a call that returns success did so after everything recorded before it
began was complete. It has no fence, no values and no events.

**PresentFence** is `virtio_wddm_present`, the presenting and plain variants of
`virtio_wddm_blt1`, and `virtio_wddm_sync_with_present_context`, one action per
line that other threads can come between: `TakeValue` (the atomic add), `Signal`,
`Flush`, `CreateEvent`, `Arm` (SetEventOnCompletion), `WaitDone`, `WaitTimeout`,
`PresentCbReturns`, and `CallFails` for the error returns. `stream` is the immediate
context: `Draw` adds rendering, `Signal` a value, the context may submit by itself
(`ContextSubmits`, external), and the GPU executes the flushed part in order
(`Execute`). `mark` is history: how much was recorded when the call began.

**InputLayout** has the blocks of shaders and element layouts, which are reused once
destroyed, the device's weak references, and what is bound in the host context. A host
object is known by the cookie, signature and elements it was made from, so a stale one
can be told from a fresh one. `Resolve` is `tritonResolveInputLayout` as it is called at
the end of `VsSetShader` and `IaSetInputLayout`: nothing to do, bound from the cache,
failed somewhere on the way, or built. The other shader stages appear only as cookies.

**ResourceViews** keeps the links of the intrusive lists as the code does (`pViewList`,
`pNext`, and `ppPrev` as the cell it points to), the wrapper bodies, the images host
views show, and the slots twice: what the runtime thinks is in them and what the
context has. One action is the whole of `virtio_wddm_rotate_resource_identities`:
bodies moved, views of every rotated wrapper made again (the host may refuse them, up to
`MaxLost` at one time), slots set again through the callbacks. A body knows what it was
asked for (`Request`) and the allocation that goes with its `memory`: that of a shared
texture, and of a swap chain's buffer where the adapter has the DRM capset (`drm`), is
exported by the ICD, which got it from the driver's hook. `DestroyResource` frees twice,
as the code does: the memory of the body, and with it that allocation by its own handle
(`FreeMemory`), then all there still is under the wrapper's runtime handle (`Deallocate`).
A rotation moves the former and leaves the latter.

**ResourceAlloc** is `virtio_wddm_create_resource`, `open_resource` and
`destroy_resource`, as steps separated by the external calls they make, with every
error return; the three paths (nothing shared, exported Vulkan memory, a 3D
allocation made by the driver); and the hooks `virtio_wddm_runtime_alloc` and `free`
with the thread-local record and scope. The ICD may also allocate and free for
itself on any thread inside any call. Kernel allocations know the runtime resource
they belong to, who made them, whether they are primaries, and whether they are resident.
Whether the adapter has the DRM capset, which selects the paths, is chosen in `Init` (`drm`).

**Adapter** is the process-wide part. The log output is set up lazily and without a
lock: a thread reads `state`, opens the file (`LogOpens`), publishes it with a
compare-exchange or closes its own (`LogPublishes`), and reads again; each access is an
action. `OpenAdapter10_2` checks the capsets; `GetSupportedVersions` is answered in two
calls, and `offered` is what the runtime has heard.

**PipelineState** has the blend, depth-stencil, rasterizer and sampler states of one
device. The runtime describes a state in the structures of the interface the device was
made with; `Translated` is what the handler in that interface's table makes of it, and
`Means` what the runtime meant. The interfaces are told apart as in the code: the table
of 11.1 is that of 11.0 with some slots replaced.

**DeviceLifecycle** extends both. It runs `virtio_wddm_create_device` as its list of
acquisitions and checks in order, each of which can fail, with what each early return
frees by itself; then the cleanup attributes in their order; and
`virtio_wddm_destroy_device` as its list of releases. `fields` is what the code can see
(pointers that are not NULL), `refs` what is really held, so that a field left behind
after a release is a double release. The versions and levels the device is asked for are
those of `Adapter`, and a live device takes the steps of `PipelineState`, so that what is
offered, what is accepted and what the tables do with it meet in one state machine.

**FormatCaps** is `tritonCheckFormatSupport` and `tritonCheckMultisampleQualityLevels`
with `s_fmtCache` and `s_msaaCache`, which are shared by all devices: each read and each
publication of a cache entry is a step. What the host says, which formats are blacklisted
and which formats' queries can be lost on the way is chosen at the start and fixed
(`setting`). The assumption on the constants is what `k_msaaGroups` and the switches say:
the families do not overlap, the read-only views are among the excluded formats and each is in a
family; qualities are the code's `UINT`. A lost query is taken for a "no", as in the code. Formats are below 256. The
caches' valid bit is in the value, so one load reads both, and a model value `Invalid`
stands for its absence.

**ShaderTokens** is the scan of a program's declarations: the iterator over
instructions with its three limits, the decoding of an operand, and the collection of
registers, outputs, phases and streams, one instruction per step. A word of the program
carries every field the scan reads from it, so that a wrong length makes the scan read
words that were meant as something else. **ShaderSignature** takes the entries the
runtime hands over (of 12 or of 20 bytes), keeps those the declarations corroborate,
adds what is missing, sorts, and gives names and indices. **ShaderSource** is no code of
the driver but what the driver relies on (`CompilerMade`): the lines of a program in the
words of the token format, one for every element of the source, and a runtime that
reports no more than is true, however little it reports. It says what the lines mean
without the operators of the scan. **ShaderContainer** lays out
the signature chunks and the hash's blocks, and has the readers: the signature parser,
the input layout that is built from the parsed signature, and the geometry shader with
stream output. A run creates the shaders of a `Pipeline` one after the other (`created`),
each from its own call, so that the properties can compare stages that never saw each other.

**DeviceWork** counts the commands given to the immediate context (`recorded`), handed
to the host's ring (`submitted`) and executed (`executed`); a resource remembers the last
command that uses or writes it. Resources are created through the translation of bind,
misc and access flags, with the block of initial data or, when there is no memory for
the block, without it and without an error (`Given`); `Update` and `Copy` record; maps with and without waiting, the
staging probe, `QueryGetData` and `ReleaseResource` ask or hand over. `held`, `idle` and
`answered` are what the runtime was told. `QueryEnd` and the copies count as commands,
the bytes are left out.

The `MC*` modules only give names to constants. In each module, an operator whose comment
starts with "Mutant" is the definition after it (or after the next) with one plausible
bug, and is used by no specification; `PROJECT.json` says which property notices it.

## 4. Runs

| run | module | shows |
|---|---|---|
| `present_concurrent` | PresentFence | no frame is presented before the GPU is done with it, without a lock; calls return; the gate is implemented |
| `input_layout` | InputLayout | over every order of creating, binding and destroying, no stale layout is used and the current shader is bound |
| `views_rotate` | ResourceViews | lists, views, slots and images stay consistent over rotations, with views the host refuses to make again; no allocation outlives the wrapper of its runtime handle |
| `alloc_paths` | ResourceAlloc | every resource gets its own allocation and no other, and none outlives it, with every failure |
| `driver` | DeviceLifecycle | nothing leaks whatever step fails; what is offered can be had and means what the runtime described; one log file stays open |
| `formats_family` | FormatCaps | the shared caches change no answer, but for the two a blacklisted format can have, and nothing is overclaimed |
| `containers` | ShaderContainer | the scan stays inside and ends; signatures are complete, stages have one name and index for exactly what begins at one component, containers are sound, readers find their elements |
| `work` | DeviceWork | the runtime is never told that something is ready before it is, and is told in the end |
| `alloc_resident_fails`, `views_retire`, `streams_attributed`, `query_stale` | | the findings of section 5 |

Why the bounds are enough. *Presents* (2 threads, 3 values, 2 units of rendering): the
hazard is one thread's value overtaking another's; two threads with three values have
every order of two overlapping calls, and a third value after them. The proofs lift the
bounds. *Input layouts* (two blocks each, 3 cookies): a stale cache entry needs a shader,
its destruction, and another in the same block (two cookies); a third lets it come back
once more. *Views*: three views make a list with a middle, three wrappers a rotation that
is not its own inverse. Lists are per wrapper, so the kinds of the views matter only to
the slots that take them. Resources asked for are shared textures and swap chains' buffers,
with and without the DRM capset; plain and opened ones have no memory of their own that could
go, and the proofs cover them. One view has lost its host object at a time, since each is made
again apart from the others. *Allocations* (2 resources, 3 handles, 2 threads): a wrong
attribution needs two resources, or one and an allocation of the ICD's own; three
handles allow both at once, and handles are reused. *Driver*: two loggers make the race;
one device at a time, of every version, level and capset; two state blocks let one state
be bound while another is made or destroyed; the eight descriptions have each kind with
the values its handler has a case for. *Formats*: members of a family are told apart by
what the host says and by being typeless, read-only or a target; one of each is there and
one format alone; two calls at once are enough for one to read what the other is half way
through publishing. The 14 settings vary the host's answers for the parent and both
targets, blacklist members, and lose queries of two of them; the sample counts are those
at the edges of the cache's index (0, 1, 8, 33). *Containers*: 225 pipelines of one or
two shaders: elements packed into a register, system values, patch constants
that two phases declare, streams, more entries than `MaxSigEntries` (6), more stream-output entries
than `MaxSoEntries` (4), and programs cut off or with lengths of zero and past the end.
The real limits are larger; both sides of the small ones are met. *Work* (2 resources, 1
query, 2 commands): a copy relates two resources, and a hazard here is a command that is
recorded, submitted or executed when it is asked about; the proofs lift the bound. Five
descriptions have the usages and flags the translation has cases for, and each is created
with and without memory for the block of initial data.

`MaxCalls`, `MaxValue`, `MaxWork`, `MaxCookie` and `MaxLost` bound what is named after them; no
other variable is bounded. Deadlock is checked except in the runs of `PresentFence`,
`FormatCaps` and `ShaderContainer`, which really stop: at their bounds, or when the last
shader of the pipeline is created.

**Fairness.** `PresentFence`: weak fairness of the steps of a thread inside a call, since
a thread in the driver keeps running. The GPU has none there: it may never complete a
value, which is why `CallReturns` depends on the ten seconds of the wait. `DeviceWork`:
weak fairness of `Execute`, a GPU that is not lost works off its ring, and of `Probe`, the
loop of a runtime that waits for a staging resource (`T/tritonResource.c:725-745`).
Submission has none: that the loop ends depends on the probe's flush. `ShaderContainer`:
weak fairness of a step of the scan, which is a loop of the calling thread. The
application has none anywhere.

## 5. What the runs found

1. `alloc_resident_fails`: `create_shared_3d_resource` returns without retiring the
   allocation when it cannot be made resident, though the failure just before does retire it.
2. `views_retire`: the order that `device.c:134-137` asks for, memory first and the runtime
   resource after it, is lost by a rotation. Destroying one of two rotated buffers whose
   memory is exported frees, with the memory it has now, the allocation made under the
   other's handle, and then retires by its own handle the allocation whose memory the other
   still holds. Without rotations it holds on every path (`MemoryBacked`).
3. `streams_attributed`: with entries that carry no stream, an element of stream 1 is
   attributed to stream 0 as well when stream 0 declares another part of its register.
4. `query_stale`: when the host refuses to create a query, the runtime takes whatever was
   in its buffer for the query's data.

`PROJECT.json` quotes the lines. What else was seen while modelling, without a run:

- Two threads can signal their fence values out of order, and the lock that
  `T/triton.h:165` describes is not taken, so two threads can be inside `pfnPresentCb`.
  The gate holds in spite of it (section 6).
- Nothing makes `virtio_wddm_destroy_device` wait for a present that is inside.
- Error returns after the block of initial data was built leak it (`resource.c:799`).
- When the resolver gives up (`BuildFails`), the host layout of the previous element
  layout stays bound.
- An opened resource stores the handle of the runtime's allocation, which
  `T/triton.h:285` says stays 0, and deallocates by its runtime handle.
- A host query lost on the way splits a format family for the life of the process, since
  what is made of it is cached; `NeverOverclaims` shows that this errs on the safe side.
- Without the DRM capset, the allocation of a rotated buffer is freed with the wrapper of its
  runtime handle, although another wrapper still shows its image.
- When there is no memory for the block of initial data, `tritonBuildInitData` returns NULL
  (`T/tritonResource.c:118`), which its caller takes for a resource without initial data: it is
  made without the data the runtime passed, and nobody hears of it. `BornAsAsked` says what the
  host reads in either case.
- A blacklisted format (comment at `T/tritonQuery.c:289`) is said to multisample if another
  member of its family was asked about first: the family's value is published for it, too
  (376-385), and the cache is looked up (337) before the blacklist (348).
  `AnswersIndependentOfCache` says that its answer is zero or the family's.
- A rotation sets `D3D11_PS_CS_UAV_REGISTER_COUNT` compute UAV slots again,
  `tritonCsSetUAVs` binds more at 11.1.
- A residency query of several resources answers for the last one that is not resident.
- `T/tritonDDI.c` and `device.c` have cases for interfaces above 11.1, which are not
  among the versions offered; the hand-over of shared surfaces is one of their handlers.
- A shader that declares only a later component of an element gets another `ATTRIB` index
  than a producer that declares it whole, although the comment at `T/tritonDxbc.c:1003-1010` says
  that indices "agree between stages by construction", also where splits differ. `StagesLink`
  says exactly when they agree, and a shader of the run reads such an element.

## 6. Proofs

Each proof module proves type correctness, then an inductive invariant action by action,
and the safety properties from it. The theorems hold for every value of the constants that
satisfies the assumption named in the module: any number of threads, blocks, resources
and views, rotations of any length, any descriptions, programs of any length and contents.

*Presents.* `FlipAfterGpuDone` is not inductive: that the event is set says nothing
unless whoever's signal set it comes after the caller's work. `GateInv` adds
that (`SignalsFollowWork`: every signal in the stream with a value not below the caller's
follows the caller's work), which holds because values are taken after the work is recorded
and no value above the counter has been signalled (`ValuesTaken`); that the fence holds
an executed value (`FenceWasExecuted`); and that a set event means the work is done. This is the
reason why out-of-order signals are harmless: a larger value can only have been signalled later
than a smaller one was taken. `FenceImplementsGate` then maps the stream's length, the
executed length and the marks to the gate's variables, and shows that each step is a step
of the gate or leaves them alone.

*Input layouts.* `CacheSound` needs that cookies are never given out twice and none beyond the
counter is in use, also by dead blocks (`CookiesDistinct`). What is bound needs the weak
references to be live and the retyped shader to be tracked (`ReconTracked`), or the unbinding
in front of a failed resolve would miss it.

*Views.* That a walk finds every view is a statement about reachability, proved without
induction over lists: the views of a wrapper are closed under the links, and every closed set that
holds the head holds all of them (`ListsComplete`), so the least closed set is exactly that one.
`LinksMutual` says that cells and views point at each other, which is what unlinking in the middle needs;
`BodiesWhole` ties a body to its wrapper's handle, and its allocation and memory to its image
and to what was asked for. Then `AllocationsOwned` is kept: the call by the runtime handle leaves
nothing under a wrapper that goes, so no allocation outlives it. That none is freed before that
is said, and true, only without the DRM capset, where the memory of a buffer that can be rotated
takes no allocation with it (`RetiredAfterMemory` of section 5 is what fails with it).

*Allocations.* `AllocInv` has a rule for each thread (what a creation has got at its step,
whether the record is to be trusted, that the scope is the image's resource while the ICD may
allocate), one for each block, and one for each kernel allocation: whoever made it for a
resource, something will free it. `CallsApart` says that no two threads work on one block, so a step
touches one block, that block's allocations and such as belong to none; `StepIsLocal` shows
once that the rules of all others are kept, and each action's lemma proves the rules of what
it touches. `NothingLeftBehind` needs all of it: an allocation the hook made is
accounted for only by the memory of its image, or by the thread that is still binding it.

*Formats.* `FormatInv` says what a cached value or mask may be (`GoodValue`, `GoodMask`): never
above what the family can do, only for a target, and exactly what the host's capabilities
determine when nothing is lost; and what a call knows at its step (`GoodCall`). Since these depend on
the fixed setting alone (`Fixed`), it does not matter who published. That the
family's maximum exists is proved from the well-foundedness of `<` (`GreatestExists`); it is
needed because a lost query shrinks the set the maximum is taken of.

*Driver.* `DriverInv` has three parts. `LogInv` says for each place a thread can be in what
it has opened and what it has seen of `state`, so that a file is published once and every
other one is held by the thread that will close it. `DeviceInv` says that fields and
references agree outside the steps that part them, in what order objects depend on each
other (`Layered`), and exactly what a creation has acquired at its step (`Creating`);
`NothingLeft` at "none" then follows. `PipeInv` says that every state object was
translated from a description the device's interface can carry, and what is bound is the
one that was set; `InterfaceHonoured` follows with `TranslationMeans`, a lemma about the
translations alone.

*Work.* `WorkInv` adds to the properties that a query that does not exist has not ended and was
not answered for (`QueriesFresh`), so that a reused block starts afresh, and that what is on its
way to a consumer has been handed to the ring (`HandedOver`). `ToldTrue` is then kept because
the executed part only grows, and a new command withdraws what was told of its resource.

*Containers.* `ScanInv` is that the scan stands between the program's first word and the
word after its end, and that no word past the end was read; it holds for any words, because
the iterator clips a length before it moves. `SigTypes` bounds every list in every phase.
For a shader a compiler made, `DecodedInv` says that the scan stands at the beginning of
a line and has found what the lines before declare, each once, and nothing else; it is
kept because the length in the tokens is the line's (`LineLength`), the decoder comes to
the register and the name of the operand (`ElementDecoded`), elements that merge are the
same one (`DeclaredApart`), and an array without repetitions that still misses an element
is not full (`OnceIsShort`). At the end that is `ScanExact` (`DeclarationsFound`).
`EntriesInv` says where entries come from: a report that the declarations corroborate, or
a declaration no report covers; no component is in two of them, unless a report of a single
stream has it twice. `SysOutsInv` counts the entries of a
pixel shader that have no register. With `ScanExact` they give `SignatureComplete`. `MatchInv`
carries the names by place over to the shaders that were created, which is all that
`StagesLink` needs: each stage names by register and first component, and gives each such place
a number of its own (`PlaceNumbers`), so two stages agree exactly on what begins at the same
place, not because they saw each other. `NumbersInv` (no two outputs of a stream share a name and
a number) makes what a stream-output entry names unambiguous, and `ContainerInv` says that
the parser gets back what the writer put at the offsets of a variant; together they are
`ReadersFindElements`. `ContainerSound` is arithmetic over the offsets: names begin where the
elements end and each once, the budget has 64 bytes for an element where 32 and the
longest name are enough.

The loops of this component are folds over its lists, written as recursive functions.
The library's induction theorems take an operator, which the provers cannot instantiate, so
`Induct` and `Recursion` restate induction and the existence of a recursive function
over the naturals with sets and functions, proved from the well-foundedness of `<`; each fold
then has a lemma with its steps (`AttributedSteps`, `CompletedSteps`, `SortedSteps`,
`ResolvedSteps`, `SysOutsSteps`) and one with what it keeps.

Only model-checked: the liveness properties `CallReturns`, `ScanTerminates` and
`StagingGetsReady`, since temporal properties under fairness are out of reach of the prover.
Every other property of a run that passes is a theorem. (`EntriesAttributed` and the other
properties of section 5 do not hold.)

## 7. What is assumed, and what is left out

- The runtime serialises the calls on a device, except the DXGI base functions; unbinds views before it
  destroys them, and destroys the views of a resource before the resource; rotates the buffers of one
  swap chain, which are alike, neither shared by other means nor opened; validates the descriptions it passes on (`PipelineStateAssumption`). It may call
  `DestroyResource` after a failed creation (`FailureRetires` is about a runtime that does
  not). It does not destroy a device while a present is inside.
- A compiler declares each element of a signature by a line of its own with the register and
  all its components (and again where another phase writes it), at most `MaxSigEntries` in a class and
  no two that share a component of a register in one stream; the runtime reports of an element what the
  shader says (`CompilerMade`, assumed of the shaders marked `sound`). The bounds, the containers and the
  blocks of the hash are proved of every other program, too.
- The immediate context, the fence, the GPU, the ICD, the host and the kernel are external, and modelled
  by how the code uses them; the GPU executes what was handed over in order.
- `pfnDeallocateCb` does not fail while a resource is destroyed; the code does not look.
- In `ResourceViews` the name of an allocation is not given out again while a wrapper has it, also when
  the allocation is gone; that a handle of the kernel can be reused is part of `ResourceAlloc`.
- A creation's steps fail independently of each other; the pointer of `vkDestroyInstance` is fetched twice
  and found both times.
- Data races inside a component the driver calls are not modelled; the driver's own shared
  variables are accessed in single steps, as the interlocked operations and aligned loads do.
- Partly modelled: the tables (the slots whose argument changes layout; the others are constant data),
  state objects and draws (draws, dispatches and bindings are forwarded one to one), the
  container builder (the rounds of the hash, the widening of conversion components and the
  retyped input signature are left out), format support (the flags-aware query and the
  second word of format support are forwarded), queries (`QueryBegin`, predication and counters
  are forwarded), maps and tiles (tile mappings and constant-buffer bindings are forwarded).
- Not modelled: the DXGI base functions that answer from their arguments or forward one call;
  the DXVK glue (two forwarding calls), protocol headers, blit shaders and build files.

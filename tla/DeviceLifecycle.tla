--------------------------- MODULE DeviceLifecycle ---------------------------
(***************************************************************************)
(* The making and unmaking of a device (device.c) on an adapter that was   *)
(* opened: the chain of libraries, Vulkan instance, DXVK objects and       *)
(* kernel objects that virtio_wddm_create_device acquires, what each of    *)
(* its early returns has given back by the time its cleanup attributes     *)
(* have run, and the order in which virtio_wddm_destroy_device lets go.    *)
(* The device that was made has state objects and the table of functions   *)
(* of its interface, and other threads of the process log meanwhile.       *)
(***************************************************************************)
EXTENDS Adapter, PipelineState

VARIABLES
    phase,               \* "none", or what is being done to the block
    step,                \* how far it has got
    fields,              \* the pointers that are not NULL, locals included
    refs,                \* the references that are really held
    interface,           \* pArgs->Interface of the device
    level                \* the pipeline level in pArgs->Flags, while it is read

deviceVars == <<phase, step, fields, refs, interface, level>>

vars == <<logVars, adapterVars, deviceVars, pipelineVars>>

-----------------------------------------------------------------------------
Dev == {"pDev1", "pDev2", "pDev3", "pDev5"}
Ctx == {"pCtx1", "pCtx2", "pCtx3", "pCtx4"}

\* ID3D11Device and its context, released on every way out of the function.
Locals == {"d3d11_device", "d3d11_context"}

\* What virtio_wddm_create_device does, in order; a name of an object stands
\* for acquiring it, any other name for a check or a call that can fail.  The
\* libraries come first, then DXVK's objects, then those of the kernel.
Creation ==
    <<"vulkan", "icd", "icd entry point", "loader entry points", "extensions", "instance",
      "factory", "adapter", "pipeline level", "d3d11",
      "pDev1", "pDev2", "pDev3", "pDev5", "pCtx1", "pCtx2", "pCtx3", "pCtx4",
      "vulkan handles", "entry points", "pPresentFence",
      "present.context", "context init", "paging.queue", "function tables">>

DxvkObject == {"factory", "adapter", "pPresentFence"} \union Locals \union Dev \union Ctx

Object == {"vulkan", "icd", "instance", "present.context", "paging.queue"} \union DxvkObject

\* The interfaces that have a case in the switch over pArgs->Interface.
Tables == {"11.0", "11.1", "WDDM 1.3", "WDDM 2.0", "WDDM 2.1"}

\* The pipeline levels that have a case in the switch over pArgs->Flags.
AcceptedLevels == {"10.0", "10.1", "11.0", "11.1"}

\* A check of what the runtime asked for, which it passes or does not.
Passes(s) ==
    /\ s = "pipeline level" => level \in AcceptedLevels
    /\ s = "function tables" => interface \in Tables

\* What creating each thing gives the driver a reference to.
Gains(s) == IF s = "d3d11" THEN Locals ELSE {s} \intersect Object

\* Mutant: the factory is not released once the adapter is found.
DropsNothing(s) == {}

\* The factory is needed for one call only.
Drops(s) == IF s = "adapter" THEN {"factory"} ELSE {}

\* The early returns that give something back themselves.
DropsOnFailure(s) ==
    CASE s = "icd"             -> {"vulkan"}
      [] s = "icd entry point" -> {"icd", "vulkan"}
      [] OTHER                 -> Drops(s)

\* Mutant: the instance is destroyed as soon as the fence is gone.
DestructionInstanceFirst ==
    <<"pPresentFence", "instance", "pCtx1", "pCtx2", "pCtx3", "pCtx4",
      "pDev1", "pDev2", "pDev3", "pDev5",
      "paging.queue", "present.context", "adapter", "vulkan", "icd">>

\* The order of virtio_wddm_destroy_device.
Destruction ==
    <<"pPresentFence", "pCtx1", "pCtx2", "pCtx3", "pCtx4",
      "pDev1", "pDev2", "pDev3", "pDev5",
      "paging.queue", "present.context", "adapter", "instance", "vulkan", "icd">>

Init ==
    /\ phase = "none"
    /\ step = 1
    /\ fields = {}
    /\ refs = [x \in Object |-> 0]
    /\ interface = None /\ level = None
    /\ LogInit /\ AdapterInit /\ PipelineInit

-----------------------------------------------------------------------------
Taken(xs) == [x \in Object |-> IF x \in xs THEN refs[x] + 1 ELSE refs[x]]

Released(xs) == [x \in Object |-> IF x \in xs THEN refs[x] - 1 ELSE refs[x]]

\* The runtime asks for a version and a level that it was offered.
CreateDevice ==
    /\ phase = "none" /\ adapter # None
    /\ interface' \in offered /\ level' \in Levels
    /\ phase' = "create" /\ step' = 1 /\ fields' = {}
    /\ UNCHANGED refs

CreateStep ==
    /\ phase = "create" /\ step <= Len(Creation)
    /\ Passes(Creation[step])
    /\ LET s == Creation[step] IN
       /\ fields' = (fields \union Gains(s)) \ Drops(s)
       /\ refs' = [x \in Object |-> IF x \in Drops(s) THEN refs[x] - 1 ELSE Taken(Gains(s))[x]]
    /\ step' = step + 1
    /\ level' = IF Creation[step] = "d3d11" THEN None ELSE level
    /\ UNCHANGED <<phase, interface>>

\* Any step can fail, and nothing is gained by it; a check of what was asked
\* for does so when it is not passed, and only a DRM context is initialised.
CreateStepFails ==
    /\ phase = "create" /\ step <= Len(Creation)
    /\ Creation[step] \in {"pipeline level", "function tables"} => ~ Passes(Creation[step])
    /\ Creation[step] = "context init" => "drm" \in adapter
    /\ refs' = Released(DropsOnFailure(Creation[step]))
    /\ fields' = fields \ DropsOnFailure(Creation[step])
    /\ phase' = "unwind" /\ level' = None
    /\ UNCHANGED <<step, interface>>

\* Mutant: the local references have no cleanup attribute.
UnwindKeepsLocals ==
    /\ phase = "unwind"
    /\ phase' = "destroy" /\ step' = 1
    /\ UNCHANGED <<fields, refs, interface, level>>

\* The cleanup attributes: the local references, and only then the device.
Unwind ==
    /\ phase = "unwind"
    /\ refs' = Released(Locals \intersect fields)
    /\ fields' = fields \ Locals
    /\ phase' = "destroy" /\ step' = 1
    /\ UNCHANGED <<interface, level>>

\* failed_device = NULL: the local references go and the device stays.
CreateReturns ==
    /\ phase = "create" /\ step = Len(Creation) + 1
    /\ refs' = Released(Locals \intersect fields)
    /\ fields' = fields \ Locals
    /\ phase' = "live"
    /\ UNCHANGED <<step, interface, level>>

\* The runtime destroys the objects of a device before the device.
DestroyDevice ==
    /\ phase = "live" /\ \A b \in StateBlock : made[b] = NoBlock
    /\ phase' = "destroy" /\ step' = 1
    /\ UNCHANGED <<fields, refs, interface, level>>

DestroyStep ==
    /\ phase = "destroy" /\ step <= Len(Destruction)
    /\ LET x == Destruction[step] IN
       /\ refs' = Released({x} \intersect fields)
       /\ fields' = fields \ {x}
    /\ step' = step + 1
    /\ UNCHANGED <<phase, interface, level>>

\* The block is wiped and the runtime has it back.
DestroyReturns ==
    /\ phase = "destroy" /\ step = Len(Destruction) + 1
    /\ fields' = {}
    /\ phase' = "none" /\ step' = 1 /\ interface' = None
    /\ UNCHANGED <<refs, level>>

DeviceStep ==
    \/ CreateDevice \/ CreateStep \/ CreateStepFails \/ Unwind \/ CreateReturns
    \/ DestroyDevice \/ DestroyStep \/ DestroyReturns

\* The runtime closes an adapter that has no device.
AdapterStep ==
    \/ \E info \in AdapterInfo : OpenAdapter(info)
    \/ \E entries \in 0 .. 3 : GetSupportedVersions(entries)
    \/ phase = "none" /\ CloseAdapter

Next ==
    \/ DeviceStep /\ UNCHANGED <<logVars, adapterVars, pipelineVars>>
    \/ phase = "live" /\ PipelineStep(interface) /\ UNCHANGED <<logVars, adapterVars, deviceVars>>
    \/ AdapterStep /\ UNCHANGED <<logVars, deviceVars, pipelineVars>>
    \/ LogStep /\ UNCHANGED <<adapterVars, deviceVars, pipelineVars>>

Spec == Init /\ [][Next]_vars

-----------------------------------------------------------------------------
TypeOK ==
    /\ state \in 0 .. 2 /\ out \in Logger \union {None} /\ open \subseteq Logger
    /\ adapter \in {None} \union SUBSET {"venus", "drm"}
    /\ offered \subseteq ToSet(Versions)
    /\ phase \in {"none", "create", "unwind", "live", "destroy"}
    /\ phase # "none" => adapter # None /\ step \in 1 .. Len(Creation) + 1
    /\ fields \subseteq Object
    /\ refs \in [Object -> Int] /\ \A x \in Object : refs[x] <= 1
    /\ interface \in {None} \union offered
    /\ level \in {None} \union Levels /\ phase # "create" => level = None
    /\ \A b \in StateBlock : made[b] # NoBlock => made[b].asked \in StateDesc
    /\ set \in [Kind -> StateBlock \union {NoBlock}]
    /\ phase # "live" => made = [b \in StateBlock |-> NoBlock]

Held == {x \in Object : refs[x] > 0}

\* A device block that the runtime has back, after a failed creation as after
\* a destruction, has left nothing behind: whatever step failed, everything
\* gained before it was given back exactly once (device.c:399-404 and every
\* early return; one that frees something itself clears the field, because the
\* cleanup attribute runs on it afterwards, device.c:591-596).
NothingLeft ==
    /\ phase = "none" => Held = {}
    /\ \A x \in Object : refs[x] >= 0

\* Every layer outlives what uses it: "the imported Vulkan instance must outlive
\* every DXVK object using it" (device.c:399-400), and no library is unloaded
\* while the instance made through it is alive (device.c:376-394); also on the
\* way out of a failed creation, whose local references the cleanup attributes
\* release in an order of their own.
LayersOutliveUsers ==
    /\ Held \intersect DxvkObject # {} => "instance" \in Held
    /\ "instance" \in Held => {"vulkan", "icd"} \subseteq Held

\* The driver keeps what it offers.  A device is never refused for its
\* interface or its pipeline level, after everything else was made for it: each
\* version of tritonGetSupportedVersions has a case in the switch of
\* virtio_wddm_create_device (device.c:912-936), whatever part of the list
\* fitted the runtime's array, and each level of tritonGetCaps has one
\* (device.c:761-778).  And the device draws with what its runtime described in
\* the structures of that interface and set last (DrawsAsAsked).
InterfaceHonoured ==
    /\ phase = "unwind" => Creation[step] \notin {"pipeline level", "function tables"}
    /\ DrawsAsAsked
=============================================================================

------------------------- MODULE ResourceAlloc_proofs -------------------------
(***************************************************************************)
(* Proofs about ResourceAlloc: for any number of resources, allocations    *)
(* and threads, every resource has its own allocation and no other, and    *)
(* none outlives it.                                                       *)
(*                                                                         *)
(* The invariant has a rule for each thread, each block and each           *)
(* allocation.  A step of a thread touches the block it works on, the      *)
(* allocations of that block's resource, and such as belong to none        *)
(* (Touches), and StepIsLocal shows that the rules of all others are kept. *)
(***************************************************************************)
EXTENDS ResourceAlloc, TLAPS

\* The kernel allocation whose handle is stored in a block.
Handle(r) == resource[r].hKMAllocation

PathOf(r) == Path(resource[r].request)

\* The memory of the image is the allocation others are told about.
Bound(r) == Handle(r) # NULL /\ resource[r].memory = Handle(r)

Bare(r) == resource[r].memory = NULL

\* A handle that is stored stands for an allocation of the block's resource.
Backed(r) == Handle(r) # NULL => km[Handle(r)].rt = r

\* What a creation has got, by where it is.
Progress(t, r) ==
    /\ At(t, "allocate")   => PathOf(r) = "3d" /\ Handle(r) = NULL /\ Bare(r)
    /\ At(t, "query")      => PathOf(r) = "3d" /\ Handle(r) # NULL /\ Bare(r)
    /\ At(t, "resident")   => \/ PathOf(r) = "3d" /\ Handle(r) # NULL /\ Bare(r)
                              \/ PathOf(r) = "blob" /\ Bound(r)
    /\ At(t, "image") \/ At(t, "memory") =>
          /\ Bare(r)
          /\ \/ PathOf(r) \in {"3d", "open"} /\ Handle(r) # NULL
             \/ PathOf(r) = "blob" /\ Handle(r) = NULL
    /\ At(t, "record")     => PathOf(r) = "blob" /\ Handle(r) = NULL
    /\ At(t, "publish")    => PathOf(r) = "blob" /\ Bound(r)
    /\ At(t, "import")     => PathOf(r) \in {"3d", "open", "blob"} /\ Bound(r)
    /\ At(t, "object")     => PathOf(r) = "plain" /\ Handle(r) = NULL /\ Bare(r)
    /\ At(t, "deallocate") => Bare(r)

\* Past the step that makes it so, what may be presented is resident.
ResidentInTime(t, r) ==
    /\ call[t].pc \in {"image", "memory", "publish", "import"}
    /\ resource[r].request \in PresentRequest /\ Handle(r) # NULL
    => km[Handle(r)].resident

\* A record that is trusted is the one of the allocation under the image.
RecordRight(t, r) ==
    PathOf(r) = "blob" /\ Trusts(t) =>
        /\ ~At(t, "image")
        /\ At(t, "memory") => call[t].blob = record[t].hAllocation
        /\ At(t, "record") => resource[r].memory = record[t].hAllocation

\* While the ICD may allocate for an image, the scope is the image's resource.
ScopeRight(t, r) ==
    (At(t, "image") \/ At(t, "memory")) /\ PathOf(r) = "blob" =>
        scope[t] = [hRTResource |-> r, primary |-> resource[r].request = "primary"]

\* The allocation that is on its way to an image was made for it.
BlobOwned(t, r) ==
    /\ At(t, "image") \/ PathOf(r) # "blob" => call[t].blob = NULL
    /\ At(t, "memory") /\ call[t].blob # NULL =>
          km[call[t].blob].by = "hook" /\ km[call[t].blob].rt = r

\* A thread inside a handler works on a block that is busy.
Working(t, r) ==
    /\ r \in Resource /\ resource[r].stage = "busy"
    /\ Progress(t, r) /\ ResidentInTime(t, r) /\ RecordRight(t, r)
    /\ ScopeRight(t, r) /\ BlobOwned(t, r)
    /\ At(t, "deallocate") \/ Backed(r)

ThreadRule(t) == IF At(t, "idle") THEN call[t] = Idle ELSE Working(t, R(t))

\* No two threads work on one block.
CallsApart ==
    \A t, u \in Thread : t # u /\ ~At(t, "idle") /\ ~At(u, "idle") => R(t) # R(u)

\* What the run's invariants say of one block.
AttributedTo(r) ==
    resource[r].stage = "live" =>
        IF resource[r].request = "plain" THEN Handle(r) = NULL
        ELSE Bound(r) /\ km[Handle(r)].rt = r

BlockRule(r) ==
    /\ resource[r].stage = "busy" \/ Backed(r)
    /\ AttributedTo(r)
    /\ resource[r].memory \in Alloc => km[resource[r].memory].rt = r
    /\ resource[r].stage = "live" /\ resource[r].request \in PresentRequest =>
          km[Handle(r)].resident

\* The allocation is on its way to the image of resource r.
Awaits(r, a) == \E t \in Thread : At(t, "memory") /\ R(t) = r /\ call[t].blob = a

\* Whoever made an allocation for a resource, something will free it: vkFreeMemory
\* what came through the hook, the deallocation by resource what the driver made,
\* and the runtime what it opened.
AllocRule(a) ==
    /\ km[a].rt # NULL =>
          /\ km[a].by # "nobody"
          /\ km[a].by = "hook" => resource[km[a].rt].memory = a \/ Awaits(km[a].rt, a)
          /\ km[a].by = "driver" => Handle(km[a].rt) = a
          /\ resource[km[a].rt].stage # "unused"
    /\ km[a].primary <=> km[a].rt # NULL /\ resource[km[a].rt].request = "primary"

\* The inductive invariant.
AllocInv ==
    /\ TypeOK /\ CallsApart
    /\ \A t \in Thread : ThreadRule(t)
    /\ \A r \in Resource : BlockRule(r)
    /\ \A a \in Alloc : AllocRule(a)

-----------------------------------------------------------------------------
\* The thread is at work on the block, or takes one that nobody works on.
Works(t, r) ==
    R(t) = r \/ (At(t, "idle") /\ r \in Resource /\ resource[r].stage # "busy")

\* What a step of thread t on block r touches.
Touches(t, r) ==
    /\ drm' = drm
    /\ \A s \in Resource : s # r => resource'[s] = resource[s]
    /\ \A u \in Thread : u # t =>
          call'[u] = call[u] /\ record'[u] = record[u] /\ scope'[u] = scope[u]
    /\ \A x \in Alloc : km[x].rt \notin {r, NULL} => km'[x] = km[x]
    /\ \A x \in Alloc : km[x].rt \in {r, NULL} => km'[x].rt \in {r, NULL}
    /\ call'[t].pc = "idle" \/ call'[t].r = r

\* Where the handles point.
Ranges ==
    /\ \A s \in Resource : /\ resource[s].hKMAllocation \in Alloc \union {NULL}
                           /\ resource[s].memory \in Alloc \union {NULL, PrivateMemory}
    /\ \A u \in Thread : /\ call[u].r \in Resource \union {NULL}
                         /\ call[u].blob \in Alloc \union {NULL}
                         /\ record[u].hAllocation \in Alloc \union {NULL}
    /\ \A x \in Alloc : km[x].rt \in Resource \union {NULL}

LEMMA TypesGiveRanges == TypeOK => Ranges
  BY DEF TypeOK, Ranges

LEMMA TypesGiveRangesNext == TypeOK' => Ranges'
  BY DEF TypeOK, Ranges

\* The rules of other threads, blocks and allocations are kept.
LEMMA StepIsLocal ==
    ASSUME AllocInv, TypeOK', NEW t \in Thread, NEW r \in Resource \union {NULL},
           Works(t, r), Touches(t, r), ThreadRule(t)',
           r \in Resource => BlockRule(r)',
           \A x \in Alloc : km[x].rt \in {r, NULL} => AllocRule(x)'
    PROVE  AllocInv'
  <1> USE ResourceAllocAssumption
  <1>a. Ranges /\ Ranges'
    BY TypesGiveRanges, TypesGiveRangesNext DEF AllocInv
  <1>b. \A u \in Thread : u # t /\ ~At(u, "idle") =>
           R(u) \in Resource /\ R(u) # r /\ resource[R(u)].stage = "busy"
    <2> SUFFICES ASSUME NEW u \in Thread, u # t, ~At(u, "idle")
                 PROVE  R(u) \in Resource /\ R(u) # r /\ resource[R(u)].stage = "busy"
      OBVIOUS
    <2>1. R(u) \in Resource /\ resource[R(u)].stage = "busy"
      BY DEF AllocInv, ThreadRule, Working
    <2>2. CASE R(t) = r /\ At(t, "idle")
      <3>1. r = NULL
        BY <2>2 DEF AllocInv, ThreadRule, R, Idle
      <3> QED
        BY <2>1, <3>1
    <2>3. CASE R(t) = r /\ ~At(t, "idle")
      BY <2>1, <2>3 DEF AllocInv, CallsApart
    <2>4. CASE At(t, "idle") /\ resource[r].stage # "busy"
      BY <2>1, <2>4
    <2> QED
      BY <2>2, <2>3, <2>4 DEF Works
  <1>1. CallsApart'
    BY <1>b DEF CallsApart, Touches, AllocInv, At, R
  <1>2. ASSUME NEW u \in Thread, u # t PROVE ThreadRule(u)'
    <2>0. call'[u] = call[u] /\ record'[u] = record[u] /\ scope'[u] = scope[u] /\ drm' = drm
      BY <1>2 DEF Touches
    <2>1. CASE At(u, "idle")
      BY <2>0, <2>1 DEF AllocInv, ThreadRule, At
    <2>2. CASE ~At(u, "idle")
      <3>0. PICK s \in Resource : s = call[u].r
        BY <1>b, <1>2, <2>2 DEF R
      <3>1. s # r /\ Working(u, s)
        BY <1>b, <1>2, <2>2, <3>0 DEF AllocInv, ThreadRule, R
      <3>2. resource'[s] = resource[s]
        BY <3>1 DEF Touches
      <3>3. \A x \in Alloc : km[x].rt = s => km'[x] = km[x]
        BY <3>1, ResourceAllocAssumption DEF Touches
      <3>4. Handle(s) \in Alloc \union {NULL} /\ call[u].blob \in Alloc \union {NULL}
        BY <3>1, <1>a DEF Ranges, Handle
      <3>5. Progress(u, s)'
        BY <2>0, <3>1, <3>2 DEF Working, Progress, PathOf, Path, Bound, Bare, Handle, At
      <3>6. ~At(u, "deallocate") => Backed(s)
        BY <3>1 DEF Working
      <3>7. ResidentInTime(u, s)'
        BY <2>0, <3>1, <3>2, <3>3, <3>4, <3>6 DEF Working, ResidentInTime, Backed, Handle, At
      <3>8. RecordRight(u, s)'
        <4>1. call'[u].r = s
          BY <2>0, <3>0
        <4>2. RecordRight(u, s) /\ call[u].r = s
          BY <3>0, <3>1 DEF Working
        <4> QED
          BY <2>0, <3>2, <4>1, <4>2 DEF RecordRight, PathOf, Path, Trusts, At, R
      <3>9. ScopeRight(u, s)'
        BY <2>0, <3>1, <3>2 DEF Working, ScopeRight, PathOf, Path, At
      <3>10. BlobOwned(u, s)'
        BY <2>0, <3>1, <3>2, <3>3, <3>4 DEF Working, BlobOwned, PathOf, Path, At
      <3>11. At(u, "deallocate")' \/ Backed(s)'
        BY <2>0, <3>2, <3>3, <3>4, <3>6 DEF Backed, Handle, At
      <3>12. resource'[s].stage = "busy"
        BY <3>1, <3>2 DEF Working
      <3>13. Working(u, s)'
        BY <3>1, <3>5, <3>7, <3>8, <3>9, <3>10, <3>11, <3>12 DEF Working
      <3>14. R(u)' = s
        BY <2>0, <3>0 DEF R
      <3> QED
        BY <2>0, <2>2, <3>13, <3>14 DEF ThreadRule, At
    <2> QED
      BY <2>1, <2>2
  <1>3. ASSUME NEW s \in Resource, s # r PROVE BlockRule(s)'
    <2>1. BlockRule(s) /\ resource'[s] = resource[s]
      BY <1>3 DEF AllocInv, Touches
    <2>2. \A x \in Alloc : km[x].rt = s => km'[x] = km[x]
      BY <1>3, ResourceAllocAssumption DEF Touches
    <2>3. Handle(s) \in Alloc \union {NULL}
      BY <1>a DEF Ranges, Handle
    <2> QED
      BY <2>1, <2>2, <2>3 DEF BlockRule, AttributedTo, Backed, Bound, Handle, PresentRequest
  <1>4. ASSUME NEW x \in Alloc, km[x].rt \notin {r, NULL} PROVE AllocRule(x)'
    <2>4. PICK s \in Resource : s = km[x].rt
      BY <1>4, <1>a DEF Ranges
    <2>1. s # r /\ s # NULL
      BY <1>4, <2>4
    <2>2. km'[x] = km[x] /\ resource'[s] = resource[s] /\ AllocRule(x) /\ km'[x].rt = s
      BY <1>4, <2>1, <2>4 DEF Touches, AllocInv
    <2>3. Awaits(s, x) => Awaits(s, x)'
      <3> SUFFICES ASSUME NEW u \in Thread, At(u, "memory"), R(u) = s, call[u].blob = x
                   PROVE  Awaits(s, x)'
        BY DEF Awaits
      <3>1. ~At(u, "idle")
        BY DEF At
      <3>2. u # t
        BY <2>1, <3>1 DEF Works
      <3>3. call'[u] = call[u]
        BY <3>2 DEF Touches
      <3> QED
        BY <3>3 DEF Awaits, At, R
    <2> QED
      BY <2>1, <2>2, <2>3, <2>4 DEF AllocRule, Handle
  <1>5. \A u \in Thread : ThreadRule(u)'
    BY <1>2
  <1>6. \A s \in Resource : BlockRule(s)'
    BY <1>3
  <1>7. \A x \in Alloc : AllocRule(x)'
    BY <1>4
  <1> QED
    BY <1>1, <1>5, <1>6, <1>7 DEF AllocInv

-----------------------------------------------------------------------------
Block == [stage : {"unused", "busy", "live", "failed"}, request : Request,
          hKMAllocation : Alloc \union {NULL}, image : BOOLEAN,
          memory : Alloc \union {NULL, PrivateMemory}, pResource : BOOLEAN]

Call == [pc : PC, r : Resource \union {NULL}, blob : Alloc \union {NULL}]

Allocation == [rt : Resource \union {NULL}, primary : BOOLEAN, resident : BOOLEAN,
               by : {"nobody", "driver", "hook", "runtime"}]

Record == [hRTResource : Resource \union {NULL}, hAllocation : Alloc \union {NULL}]

Scope == [hRTResource : Resource \union {NULL}, primary : BOOLEAN]

LEMMA Types ==
    TypeOK <=> /\ drm \in BOOLEAN /\ resource \in [Resource -> Block] /\ call \in [Thread -> Call]
               /\ record \in [Thread -> Record] /\ scope \in [Thread -> Scope]
               /\ km \in [Alloc -> Allocation]
  BY DEF TypeOK, Block, Call, Allocation, Record, Scope

LEMMA TypesNext ==
    TypeOK' <=> /\ drm' \in BOOLEAN /\ resource' \in [Resource -> Block] /\ call' \in [Thread -> Call]
                /\ record' \in [Thread -> Record] /\ scope' \in [Thread -> Scope]
                /\ km' \in [Alloc -> Allocation]
  BY DEF TypeOK, Block, Call, Allocation, Record, Scope

\* A thread that is inside a handler has a block of its own, and what the hook
\* allocated for that block is under its image or on the way there.
LEMMA AtWork ==
    ASSUME AllocInv, NEW t \in Thread, ~At(t, "idle"), NEW r, r = R(t)
    PROVE  /\ r \in Resource /\ r # NULL /\ resource[r] \in Block /\ call[t] \in Call
           /\ Working(t, r) /\ Works(t, r) /\ BlockRule(r)
           /\ \A x \in Alloc : km[x].rt = r /\ km[x].by = "hook" =>
                 resource[r].memory = x \/ (At(t, "memory") /\ call[t].blob = x)
  <1> USE ResourceAllocAssumption
  <1>1. r \in Resource /\ Working(t, r)
    BY DEF AllocInv, ThreadRule, Working
  <1>2. resource[r] \in Block /\ call[t] \in Call
    BY <1>1, Types DEF AllocInv
  <1>6. BlockRule(r)
    BY <1>1 DEF AllocInv
  <1>3. ASSUME NEW x \in Alloc, km[x].rt = r, km[x].by = "hook", resource[r].memory # x
        PROVE  At(t, "memory") /\ call[t].blob = x
    <2>1. Awaits(r, x)
      BY <1>1, <1>3 DEF AllocInv, AllocRule
    <2>2. PICK u \in Thread : At(u, "memory") /\ R(u) = r /\ call[u].blob = x
      BY <2>1 DEF Awaits
    <2>3. u = t
      BY <2>2 DEF AllocInv, CallsApart, At
    <2> QED
      BY <2>2, <2>3
  <1>4. r # NULL /\ Works(t, r)
    BY <1>1 DEF Works
  <1>5. \A x \in Alloc : km[x].rt = r /\ km[x].by = "hook" =>
           resource[r].memory = x \/ (At(t, "memory") /\ call[t].blob = x)
    BY <1>3
  <1> QED
    BY <1>1, <1>2, <1>4, <1>5, <1>6

\* Nobody is at work on a block that is not busy.
LEMMA AtRest ==
    ASSUME AllocInv, NEW r \in Resource, resource[r].stage # "busy"
    PROVE  /\ r # NULL /\ resource[r] \in Block /\ BlockRule(r)
           /\ \A x \in Alloc : km[x].rt = r /\ km[x].by = "hook" => resource[r].memory = x
  <1> USE ResourceAllocAssumption
  <1>1. r # NULL /\ resource[r] \in Block /\ BlockRule(r)
    BY Types DEF AllocInv
  <1>2. ASSUME NEW x \in Alloc, km[x].rt = r, km[x].by = "hook" PROVE resource[r].memory = x
    <2>1. ~ Awaits(r, x)
      BY DEF Awaits, AllocInv, ThreadRule, Working, At
    <2> QED
      BY <1>1, <1>2, <2>1 DEF AllocInv, AllocRule
  <1> QED
    BY <1>1, <1>2

-----------------------------------------------------------------------------
\* The ICD allocates for itself: the record is overwritten with one that names
\* no resource, so nobody trusts it.
LEMMA UnrelatedAllocKeeps ==
    ASSUME AllocInv, NEW t \in Thread, NEW a \in Alloc, UnrelatedAlloc(t, a), UNCHANGED drm
    PROVE  AllocInv'
  <1> USE ResourceAllocAssumption
  <1>t. TypeOK
    BY DEF AllocInv
  <1>r. PICK r \in Resource \union {NULL} : r = R(t)
    BY <1>t DEF TypeOK, R
  <1>g. km[a].rt = NULL
    BY DEF UnrelatedAlloc, RuntimeAlloc, Handle, Used, Free, At, R
  <1>1. TypeOK'
    BY <1>t DEF TypeOK, UnrelatedAlloc, RuntimeAlloc, IsPrimary
  <1>s. resource' = resource /\ scope' = scope /\ call' = call /\ (\A u \in Thread : u # t => record'[u] = record[u])
    BY <1>t, Types DEF UnrelatedAlloc, RuntimeAlloc
  <1>q. record'[t].hRTResource = NULL
    BY <1>t, Types DEF UnrelatedAlloc, RuntimeAlloc
  <1>k. \A x \in Alloc : x # a => km'[x] = km[x]
    BY <1>t, Types DEF UnrelatedAlloc, RuntimeAlloc
  <1>y. IsPrimary(t, NULL) = FALSE
    BY DEF IsPrimary
  <1>l. km'[a].rt = NULL /\ ~km'[a].primary
    BY <1>t, <1>y, Types DEF UnrelatedAlloc, RuntimeAlloc
  <1>2. Touches(t, r)
    BY <1>g, <1>r, <1>s, <1>q, <1>k, <1>y, <1>l DEF Touches, Idle, R
  <1>3. ThreadRule(t)'
    <2>1. CASE At(t, "idle")
      BY <1>s, <2>1 DEF AllocInv, ThreadRule, At
    <2>2. CASE ~At(t, "idle")
      <3>1. r \in Resource /\ Working(t, r)
        BY <1>r, <2>2 DEF AllocInv, ThreadRule, Working
      <3>2. Handle(r) \in Alloc \union {NULL} /\ call[t].blob \in Alloc \union {NULL}
        BY <1>t, <3>1 DEF TypeOK, Handle
      <3>3. Progress(t, r)'
        BY <1>s, <3>1 DEF Working, Progress, PathOf, Path, Bound, Bare, Handle, At
      <3>4. \A x \in Alloc : km[x].rt = r => km'[x] = km[x]
        BY <1>g, <1>k, <1>q, <3>1
      <3>5. ResidentInTime(t, r)' /\ (At(t, "deallocate")' \/ Backed(r)')
        BY <1>s, <3>1, <3>2, <3>4 DEF Working, ResidentInTime, Backed, Handle, At
      <3>6. RecordRight(t, r)'
        BY <1>g, <1>k, <1>q, <1>r, <1>s, <3>1 DEF Working, RecordRight, PathOf, Path,
           Trusts, At, R
      <3>7. ScopeRight(t, r)'
        BY <1>s, <3>1 DEF Working, ScopeRight, PathOf, Path, At
      <3>8. BlobOwned(t, r)'
        BY <1>s, <3>1, <3>2, <3>4 DEF Working, BlobOwned, PathOf, Path, At
      <3>9. resource'[r].stage = "busy" /\ R(t)' = r
        BY <1>r, <1>s, <3>1 DEF Working, R
      <3>10. Working(t, r)'
        BY <3>1, <3>3, <3>5, <3>6, <3>7, <3>8, <3>9 DEF Working
      <3> QED
        BY <3>9, <3>10, <1>s, <2>2 DEF ThreadRule, At
    <2> QED
      BY <2>1, <2>2
  <1>4. r \in Resource => BlockRule(r)'
    <2> SUFFICES ASSUME r \in Resource PROVE BlockRule(r)'
      OBVIOUS
    <2>1. BlockRule(r) /\ Handle(r) \in Alloc \union {NULL}
      BY <1>t DEF AllocInv, TypeOK, Handle
    <2>2. \A x \in Alloc : km[x].rt = r => km'[x] = km[x]
      BY <1>g, <1>k, <1>q
    <2> QED
      BY <1>s, <2>1, <2>2 DEF BlockRule, AttributedTo, Backed, Bound, Handle, PresentRequest
  <1>5. ASSUME NEW x \in Alloc, km[x].rt \in {r, NULL} PROVE AllocRule(x)'
    BY <1>t, <1>5, <1>g, <1>r, <1>s, <1>q, <1>k, <1>y, <1>l DEF AllocInv, AllocRule, Awaits,
       Working, Progress, Bare, Handle, At, R, PathOf, Path
  <1>6. Works(t, r)
    BY <1>g, <1>r DEF Works, At
  <1>7. \A x \in Alloc : km[x].rt \in {r, NULL} => AllocRule(x)'
    BY <1>5
  <1> QED
    BY <1>1, <1>2, <1>3, <1>4, <1>6, <1>7, StepIsLocal

\* The ICD frees what it allocated for itself.
LEMMA UnrelatedFreeKeeps ==
    ASSUME AllocInv, NEW t \in Thread, NEW a \in Alloc, UnrelatedFree(t, a), UNCHANGED drm
    PROVE  AllocInv'
  <1> USE ResourceAllocAssumption
  <1>t. TypeOK
    BY DEF AllocInv
  <1>r. PICK r \in Resource \union {NULL} : r = R(t)
    BY <1>t DEF TypeOK, R
  <1>g. km[a].rt = NULL
    BY DEF UnrelatedFree, RuntimeFree, RecordWithout, ClearRecord, NoRecord, Free, Handle,
       Used, Free, At, R
  <1>1. TypeOK'
    BY <1>t DEF TypeOK, UnrelatedFree, RuntimeFree, RecordWithout, ClearRecord, NoRecord, Free
  <1>s. resource' = resource /\ scope' = scope /\ call' = call /\ (\A u \in Thread : u # t => record'[u] = record[u])
    BY <1>t, Types DEF UnrelatedFree, RuntimeFree, RecordWithout, ClearRecord, NoRecord, Free
  <1>q. record'[t] = record[t] \/ record'[t].hAllocation = NULL
    BY <1>t, Types DEF UnrelatedFree, RuntimeFree, RecordWithout, ClearRecord, NoRecord, Free
  <1>k. \A x \in Alloc : x # a => km'[x] = km[x]
    BY <1>t, Types DEF UnrelatedFree, RuntimeFree, RecordWithout, ClearRecord, NoRecord, Free
  <1>l. km'[a].rt = NULL /\ ~km'[a].primary
    BY <1>t, Types DEF UnrelatedFree, RuntimeFree, RecordWithout, ClearRecord, NoRecord, Free
  <1>2. Touches(t, r)
    BY <1>g, <1>r, <1>s, <1>q, <1>k, <1>l DEF Touches, Idle, R
  <1>3. ThreadRule(t)'
    <2>1. CASE At(t, "idle")
      BY <1>s, <2>1 DEF AllocInv, ThreadRule, At
    <2>2. CASE ~At(t, "idle")
      <3>1. r \in Resource /\ Working(t, r)
        BY <1>r, <2>2 DEF AllocInv, ThreadRule, Working
      <3>2. Handle(r) \in Alloc \union {NULL} /\ call[t].blob \in Alloc \union {NULL}
        BY <1>t, <3>1 DEF TypeOK, Handle
      <3>3. Progress(t, r)'
        BY <1>s, <3>1 DEF Working, Progress, PathOf, Path, Bound, Bare, Handle, At
      <3>4. \A x \in Alloc : km[x].rt = r => km'[x] = km[x]
        BY <1>g, <1>k, <1>q, <3>1
      <3>5. ResidentInTime(t, r)' /\ (At(t, "deallocate")' \/ Backed(r)')
        BY <1>s, <3>1, <3>2, <3>4 DEF Working, ResidentInTime, Backed, Handle, At
      <3>6. RecordRight(t, r)'
        BY <1>g, <1>k, <1>q, <1>r, <1>s, <3>1 DEF Working, RecordRight, PathOf, Path,
           Trusts, At, R
      <3>7. ScopeRight(t, r)'
        BY <1>s, <3>1 DEF Working, ScopeRight, PathOf, Path, At
      <3>8. BlobOwned(t, r)'
        BY <1>s, <3>1, <3>2, <3>4 DEF Working, BlobOwned, PathOf, Path, At
      <3>9. resource'[r].stage = "busy" /\ R(t)' = r
        BY <1>r, <1>s, <3>1 DEF Working, R
      <3>10. Working(t, r)'
        BY <3>1, <3>3, <3>5, <3>6, <3>7, <3>8, <3>9 DEF Working
      <3> QED
        BY <3>9, <3>10, <1>s, <2>2 DEF ThreadRule, At
    <2> QED
      BY <2>1, <2>2
  <1>4. r \in Resource => BlockRule(r)'
    <2> SUFFICES ASSUME r \in Resource PROVE BlockRule(r)'
      OBVIOUS
    <2>1. BlockRule(r) /\ Handle(r) \in Alloc \union {NULL}
      BY <1>t DEF AllocInv, TypeOK, Handle
    <2>2. \A x \in Alloc : km[x].rt = r => km'[x] = km[x]
      BY <1>g, <1>k, <1>q
    <2> QED
      BY <1>s, <2>1, <2>2 DEF BlockRule, AttributedTo, Backed, Bound, Handle, PresentRequest
  <1>5. ASSUME NEW x \in Alloc, km[x].rt \in {r, NULL} PROVE AllocRule(x)'
    BY <1>t, <1>5, <1>g, <1>r, <1>s, <1>q, <1>k, <1>l DEF AllocInv, AllocRule, Awaits,
       Working, Progress, Bare, Handle, At, R, PathOf, Path
  <1>6. Works(t, r)
    BY <1>g, <1>r DEF Works, At
  <1>7. \A x \in Alloc : km[x].rt \in {r, NULL} => AllocRule(x)'
    BY <1>5
  <1> QED
    BY <1>1, <1>2, <1>3, <1>4, <1>6, <1>7, StepIsLocal

\* The hook allocates for the image that is being created, under its scope.
LEMMA BlobAllocKeeps ==
    ASSUME AllocInv, NEW t \in Thread, NEW a \in Alloc, BlobAlloc(t, a), UNCHANGED drm
    PROVE  AllocInv'
  <1> USE ResourceAllocAssumption
  <1>t. TypeOK
    BY DEF AllocInv
  <1>r. PICK r : r = R(t)
    OBVIOUS
  <1>g. At(t, "memory") /\ Path(resource[R(t)].request) = "blob" /\ call[t].blob = NULL /\ km[a].rt = NULL
    BY DEF BlobAlloc, RuntimeAlloc, Handle, Used, Free, At, R
  <1>o. /\ r \in Resource /\ r # NULL /\ resource[r] \in Block /\ call[t] \in Call
        /\ Working(t, r) /\ Works(t, r) /\ BlockRule(r)
        /\ \A x \in Alloc : km[x].rt = r /\ km[x].by = "hook" =>
              resource[r].memory = x \/ (At(t, "memory") /\ call[t].blob = x)
    BY <1>g, <1>r, AtWork DEF At
  <1>x. scope[t] = [hRTResource |-> r, primary |-> resource[r].request = "primary"]
    BY <1>g, <1>o, <1>r DEF Working, ScopeRight, PathOf, R
  <1>b. PICK primary \in BOOLEAN : primary = (resource[r].request = "primary")
    OBVIOUS
  <1>y. scope[t].hRTResource = r /\ scope[t].primary = primary
    BY <1>x, <1>b
  <1>z. IsPrimary(t, r) <=> primary
    BY <1>o, <1>y DEF IsPrimary
  <1>w. IsPrimary(t, r) = primary
    BY <1>z DEF IsPrimary
  <1>1. TypeOK'
    <2>1. IsPrimary(t, r) \in BOOLEAN
      BY DEF IsPrimary
    <2>2. [rt |-> r, by |-> "hook", primary |-> IsPrimary(t, r), resident |-> FALSE] \in Allocation
      BY <1>o, <1>r, <2>1 DEF Allocation
    <2>3. /\ [hRTResource |-> r, hAllocation |-> a] \in Record
            /\ [call[t] EXCEPT !.blob = a] \in Call
      BY <1>o, <1>r DEF Record, Call
    <2> QED
      BY <1>t, <1>o, <1>r, <2>2, <2>3, Types, TypesNext DEF BlobAlloc, RuntimeAlloc, R
  <1>c. /\ \A u \in Thread : u # t => call'[u] = call[u]
        /\ call'[t].pc = ("memory") /\ call'[t].r = r /\ call'[t].blob = a
    BY <1>t, <1>g, <1>o, <1>r, <1>x, <1>b, <1>y, <1>z, <1>w, Types DEF BlobAlloc,
       RuntimeAlloc, Block, Call, Allocation, Record, Scope, Fail, Goto, Unused,
       ClearRecord, NoRecord, RestoreScope, NoScope, Handle, At, R, Idle
  <1>s. resource' = resource /\ scope' = scope /\ (\A u \in Thread : u # t => record'[u] = record[u])
    BY <1>t, Types DEF BlobAlloc, RuntimeAlloc
  <1>q. record'[t].hAllocation = a /\ record'[t].hRTResource = r
    BY <1>t, <1>r, Types DEF BlobAlloc, RuntimeAlloc
  <1>k. \A x \in Alloc : x # a => km'[x] = km[x]
    BY <1>t, Types DEF BlobAlloc, RuntimeAlloc
  <1>l. km'[a] = [rt |-> r, by |-> "hook", primary |-> primary, resident |-> FALSE]
    BY <1>t, <1>r, <1>w, Types DEF BlobAlloc, RuntimeAlloc
  <1>m. km'[a].rt = r /\ km'[a].by = "hook"
    BY <1>l
  <1>n. km'[a].primary = primary
    BY <1>l
  <1>v. km'[a].primary <=> resource[r].request = "primary"
    <2>1. CASE resource[r].request = "primary"
      <3>1. primary = TRUE
        BY <2>1, <1>b
      <3> QED
        BY <2>1, <3>1, <1>n
    <2>2. CASE resource[r].request # "primary"
      <3>1. primary = FALSE
        BY <2>2, <1>b
      <3> QED
        BY <2>2, <3>1, <1>n
    <2> QED
      BY <2>1, <2>2
  <1>2. Touches(t, r)
    BY <1>g, <1>o, <1>r, <1>x, <1>b, <1>y, <1>z, <1>w, <1>c, <1>s, <1>q, <1>k, <1>l, <1>m,
       <1>n, <1>v DEF Touches, Idle
  <1>3. ThreadRule(t)'
    <2>1. R(t)' = r /\ ~At(t, "idle")' /\ resource'[r].stage = "busy"
      BY <1>g, <1>o, <1>r, <1>x, <1>b, <1>y, <1>z, <1>w, <1>c, <1>s, <1>q, <1>k, <1>l, <1>m,
         <1>n, <1>v DEF Working, At, R
    <2>2. Progress(t, r)'
      BY <1>g, <1>o, <1>r, <1>x, <1>b, <1>y, <1>z, <1>w, <1>c, <1>s, <1>q, <1>k, <1>l, <1>m,
         <1>n, <1>v DEF Working, At, Progress, PathOf, Path, Bound, Bare, Handle
    <2>3. ResidentInTime(t, r)'
      BY <1>g, <1>o, <1>r, <1>x, <1>b, <1>y, <1>z, <1>w, <1>c, <1>s, <1>q, <1>k, <1>l, <1>m,
         <1>n, <1>v DEF Working, At, ResidentInTime, Progress, PathOf, Path, PresentRequest,
         Bound, Handle
    <2>4. RecordRight(t, r)'
      BY <1>g, <1>o, <1>r, <1>x, <1>b, <1>y, <1>z, <1>w, <1>c, <1>s, <1>q, <1>k, <1>l, <1>m,
         <1>n, <1>v DEF Working, At, RecordRight, Progress, BlobOwned, PathOf, Path, Trusts,
         R
    <2>5. ScopeRight(t, r)'
      BY <1>g, <1>o, <1>r, <1>x, <1>b, <1>y, <1>z, <1>w, <1>c, <1>s, <1>q, <1>k, <1>l, <1>m,
         <1>n, <1>v DEF Working, At, ScopeRight, PathOf, Path
    <2>6. BlobOwned(t, r)'
      BY <1>g, <1>o, <1>r, <1>x, <1>b, <1>y, <1>z, <1>w, <1>c, <1>s, <1>q, <1>k, <1>l, <1>m,
         <1>n, <1>v DEF Working, At, BlobOwned, Progress, PathOf, Path, Handle
    <2>7. At(t, "deallocate")' \/ Backed(r)'
      BY <1>g, <1>o, <1>r, <1>x, <1>b, <1>y, <1>z, <1>w, <1>c, <1>s, <1>q, <1>k, <1>l, <1>m,
         <1>n, <1>v DEF Working, At, Backed, Handle, Progress, PathOf
    <2>8. Working(t, r)'
      BY <1>o, <2>1, <2>2, <2>3, <2>4, <2>5, <2>6, <2>7 DEF Working
    <2> QED
      BY <2>1, <2>8 DEF ThreadRule
  <1>4. BlockRule(r)'
    BY <1>g, <1>o, <1>r, <1>x, <1>b, <1>y, <1>z, <1>w, <1>c, <1>s, <1>q, <1>k, <1>l, <1>m,
       <1>n, <1>v DEF Working, At, Progress, Bare, BlockRule, Backed, AttributedTo, Bound,
       Handle
  <1>5. ASSUME NEW x \in Alloc, km[x].rt \in {r, NULL} PROVE AllocRule(x)'
    BY <1>t, <1>5, <1>g, <1>o, <1>r, <1>x, <1>b, <1>y, <1>z, <1>w, <1>c, <1>s, <1>q, <1>k,
       <1>l, <1>m, <1>n, <1>v DEF AllocInv, AllocRule, Awaits, Working, Progress, Bare,
       Handle, At, R, PathOf, Path
  <1>6. Works(t, r)
    BY <1>g, <1>o, <1>r DEF Works, At
  <1>7. \A x \in Alloc : km[x].rt \in {r, NULL} => AllocRule(x)'
    BY <1>5
  <1> QED
    BY <1>o, <1>1, <1>2, <1>3, <1>4, <1>6, <1>7, StepIsLocal

\* A creation takes an unused block and clears the thread's record.
LEMMA CreateResourceKeeps ==
    ASSUME AllocInv, NEW t \in Thread, NEW r \in Resource,
           NEW request \in Request \ {"opened"}, CreateResource(t, r, request), UNCHANGED drm
    PROVE  AllocInv'
  <1> USE ResourceAllocAssumption
  <1>t. TypeOK
    BY DEF AllocInv
  <1>g. At(t, "idle") /\ resource[r].stage = "unused"
    BY DEF CreateResource, Handle, Used, Free, At, R
  <1>o. /\ r # NULL /\ resource[r] \in Block /\ BlockRule(r)
        /\ \A x \in Alloc : km[x].rt = r /\ km[x].by = "hook" => resource[r].memory = x
    BY <1>g, AtRest
  <1>x. Path(request) \in {"3d", "blob", "plain"} /\ (request = "plain" <=> Path(request) = "plain")
    BY DEF Path, Request, PresentRequest
  <1>1. TypeOK'
    <2>1. [Unused EXCEPT !.stage = "busy", !.request = request] \in Block
      BY DEF Unused, Block, Request
    <2>2. [pc |-> FirstStep(request), r |-> r, blob |-> NULL] \in Call
      BY <1>x DEF FirstStep, Call, PC
    <2>3. NoRecord \in Record
      BY DEF NoRecord, Record
    <2>4. [hRTResource |-> r, primary |-> request = "primary"] \in Scope
      BY DEF Scope
    <2> QED
      BY <1>t, <2>1, <2>2, <2>3, <2>4, Types, TypesNext DEF CreateResource, ClearRecord
  <1>u. \A s \in Resource : s # r => resource'[s] = resource[s]
    BY <1>t, <1>g, <1>o, <1>x, Types DEF CreateResource, Block, Call, Allocation, Record,
       Scope, Fail, Goto, Unused, ClearRecord, NoRecord, RestoreScope, NoScope, Handle, At,
       R, Idle
  <1>p. resource'[r].stage = "busy" /\ resource'[r].request = request
        /\ resource'[r].hKMAllocation = NULL /\ resource'[r].memory = NULL
    BY <1>t, <1>g, <1>o, <1>x, Types DEF CreateResource, Block, Call, Allocation, Record,
       Scope, Fail, Goto, Unused, ClearRecord, NoRecord, RestoreScope, NoScope, Handle, At,
       R, Idle
  <1>c. /\ \A u \in Thread : u # t => call'[u] = call[u]
        /\ call'[t].pc = (FirstStep(request)) /\ call'[t].r = r /\ call'[t].blob = NULL
    BY <1>t, Types DEF CreateResource
  <1>d. /\ Path(request) = "3d" => FirstStep(request) = "allocate"
        /\ Path(request) = "blob" => FirstStep(request) = "image"
        /\ Path(request) = "plain" => FirstStep(request) = "object"
    BY DEF FirstStep
  <1>s. km' = km /\ (\A u \in Thread : u # t => scope'[u] = scope[u]) /\ (\A u \in Thread : u # t => record'[u] = record[u])
    BY <1>t, Types DEF CreateResource, ClearRecord
  <1>k. Path(request) = "blob" =>
            record'[t].hAllocation = NULL /\ scope'[t] = [hRTResource |-> r, primary |-> request = "primary"]
    BY <1>t, Types DEF CreateResource, ClearRecord, NoRecord
  <1>q. PathOf(r)' = Path(request)
    BY <1>p DEF PathOf, Path
  <1>2. Touches(t, r)
    BY <1>g, <1>o, <1>x, <1>u, <1>p, <1>c, <1>d, <1>s, <1>k, <1>q DEF Touches, Idle
  <1>3. ThreadRule(t)'
    <2>1. R(t)' = r /\ ~At(t, "idle")' /\ resource'[r].stage = "busy"
      BY <1>g, <1>o, <1>x, <1>u, <1>p, <1>c, <1>d, <1>s, <1>k, <1>q DEF Working, At, R
    <2>2. Progress(t, r)'
      BY <1>g, <1>o, <1>x, <1>u, <1>p, <1>c, <1>d, <1>s, <1>k, <1>q DEF At, Progress,
         PathOf, Path, Bound, Bare, Handle
    <2>3. ResidentInTime(t, r)'
      BY <1>g, <1>o, <1>x, <1>u, <1>p, <1>c, <1>d, <1>s, <1>k, <1>q DEF At, ResidentInTime,
         Progress, PathOf, Path, PresentRequest, Bound, Handle
    <2>4. RecordRight(t, r)'
      BY <1>g, <1>o, <1>x, <1>u, <1>p, <1>c, <1>d, <1>s, <1>k, <1>q DEF At, RecordRight,
         Progress, BlobOwned, PathOf, Path, Trusts, R
    <2>5. ScopeRight(t, r)'
      BY <1>g, <1>o, <1>x, <1>u, <1>p, <1>c, <1>d, <1>s, <1>k, <1>q DEF At, ScopeRight,
         PathOf, Path
    <2>6. BlobOwned(t, r)'
      BY <1>g, <1>o, <1>x, <1>u, <1>p, <1>c, <1>d, <1>s, <1>k, <1>q DEF At, BlobOwned,
         Progress, PathOf, Path, Handle
    <2>7. At(t, "deallocate")' \/ Backed(r)'
      BY <1>g, <1>o, <1>x, <1>u, <1>p, <1>c, <1>d, <1>s, <1>k, <1>q DEF At, Backed, Handle
    <2>8. Working(t, r)'
      BY <1>o, <2>1, <2>2, <2>3, <2>4, <2>5, <2>6, <2>7 DEF Working
    <2> QED
      BY <2>1, <2>8 DEF ThreadRule
  <1>4. BlockRule(r)'
    <2>1. resource'[r].stage = "busy" \/ Backed(r)'
      BY <1>t, <1>g, <1>o, <1>x, <1>u, <1>p, <1>c, <1>d, <1>s, <1>k, <1>q DEF Progress,
         BlockRule, Backed, Handle
    <2>2. AttributedTo(r)'
      BY <1>t, <1>g, <1>o, <1>x, <1>u, <1>p, <1>c, <1>d, <1>s, <1>k, <1>q DEF Progress,
         BlockRule, AttributedTo, Backed, Bound, Handle, PathOf, Path, Bare, PresentRequest
    <2>3. resource'[r].memory \in Alloc => km'[resource'[r].memory].rt = r
      BY <1>t, <1>g, <1>o, <1>x, <1>u, <1>p, <1>c, <1>d, <1>s, <1>k, <1>q DEF Progress,
         BlockRule, Bare
    <2>4. resource'[r].stage = "live" /\ resource'[r].request \in PresentRequest => km'[Handle(r)'].resident
      BY <1>t, <1>g, <1>o, <1>x, <1>u, <1>p, <1>c, <1>d, <1>s, <1>k, <1>q DEF Progress,
         BlockRule, ResidentInTime, Bound, PresentRequest, PathOf, Path, Handle
    <2> QED
      BY <2>1, <2>2, <2>3, <2>4 DEF BlockRule
  <1>5. ASSUME NEW x \in Alloc, km[x].rt \in {r, NULL} PROVE AllocRule(x)'
    BY <1>t, <1>5, <1>g, <1>o, <1>x, <1>u, <1>p, <1>c, <1>d, <1>s, <1>k, <1>q DEF AllocInv,
       AllocRule, Awaits, Working, Progress, Bare, Handle, At, R, PathOf, Path
  <1>6. Works(t, r)
    BY <1>g, <1>o DEF Works, At
  <1>7. \A x \in Alloc : km[x].rt \in {r, NULL} => AllocRule(x)'
    BY <1>5
  <1> QED
    BY <1>1, <1>2, <1>3, <1>4, <1>6, <1>7, StepIsLocal

\* A refused creation leaves a block without handles.
LEMMA RefuseLinearKeeps ==
    ASSUME AllocInv, NEW t \in Thread, NEW r \in Resource,
           NEW request \in Request \ {"opened"}, RefuseLinear(t, r, request), UNCHANGED drm
    PROVE  AllocInv'
  <1> USE ResourceAllocAssumption
  <1>t. TypeOK
    BY DEF AllocInv
  <1>g. At(t, "idle") /\ resource[r].stage = "unused"
    BY DEF RefuseLinear, Handle, Used, Free, At, R
  <1>o. /\ r # NULL /\ resource[r] \in Block /\ BlockRule(r)
        /\ \A x \in Alloc : km[x].rt = r /\ km[x].by = "hook" => resource[r].memory = x
    BY <1>g, AtRest
  <1>1. TypeOK'
    <2>1. [Unused EXCEPT !.stage = "failed", !.request = request] \in Block
      BY DEF Unused, Block, Request
    <2> QED
      BY <1>t, <2>1, Types, TypesNext DEF RefuseLinear
  <1>u. \A s \in Resource : s # r => resource'[s] = resource[s]
    BY <1>t, <1>g, <1>o, Types DEF RefuseLinear, Block, Call, Allocation, Record, Scope,
       Fail, Goto, Unused, ClearRecord, NoRecord, RestoreScope, NoScope, Handle, At, R, Idle
  <1>p. resource'[r].stage = "failed" /\ resource'[r].request = request
        /\ resource'[r].hKMAllocation = NULL /\ resource'[r].memory = NULL
    BY <1>t, <1>g, <1>o, Types DEF RefuseLinear, Block, Call, Allocation, Record, Scope,
       Fail, Goto, Unused, ClearRecord, NoRecord, RestoreScope, NoScope, Handle, At, R, Idle
  <1>s. call' = call /\ record' = record /\ scope' = scope /\ km' = km
    BY <1>t, <1>g, <1>o, Types DEF RefuseLinear, Block, Call, Allocation, Record, Scope,
       Fail, Goto, Unused, ClearRecord, NoRecord, RestoreScope, NoScope, Handle, At, R, Idle
  <1>2. Touches(t, r)
    BY <1>g, <1>o, <1>u, <1>p, <1>s DEF Touches, Idle, AllocInv, ThreadRule, At, Idle
  <1>3. ThreadRule(t)'
    BY <1>t, <1>g, <1>s DEF AllocInv, ThreadRule, At
  <1>4. BlockRule(r)'
    <2>1. resource'[r].stage = "busy" \/ Backed(r)'
      BY <1>t, <1>g, <1>o, <1>u, <1>p, <1>s DEF Progress, BlockRule, Backed, Handle
    <2>2. AttributedTo(r)'
      BY <1>t, <1>g, <1>o, <1>u, <1>p, <1>s DEF Progress, BlockRule, AttributedTo, Backed,
         Bound, Handle, PathOf, Path, Bare, PresentRequest
    <2>3. resource'[r].memory \in Alloc => km'[resource'[r].memory].rt = r
      BY <1>t, <1>g, <1>o, <1>u, <1>p, <1>s DEF Progress, BlockRule, Bare
    <2>4. resource'[r].stage = "live" /\ resource'[r].request \in PresentRequest => km'[Handle(r)'].resident
      BY <1>t, <1>g, <1>o, <1>u, <1>p, <1>s DEF Progress, BlockRule, ResidentInTime, Bound,
         PresentRequest, PathOf, Path, Handle
    <2> QED
      BY <2>1, <2>2, <2>3, <2>4 DEF BlockRule
  <1>5. ASSUME NEW x \in Alloc, km[x].rt \in {r, NULL} PROVE AllocRule(x)'
    BY <1>t, <1>5, <1>g, <1>o, <1>u, <1>p, <1>s DEF AllocInv, AllocRule, Awaits, Working,
       Progress, Bare, Handle, At, R, PathOf, Path
  <1>6. Works(t, r)
    BY <1>g, <1>o DEF Works, At
  <1>7. \A x \in Alloc : km[x].rt \in {r, NULL} => AllocRule(x)'
    BY <1>5
  <1> QED
    BY <1>1, <1>2, <1>3, <1>4, <1>6, <1>7, StepIsLocal

\* The driver's own allocation is stored at once.
LEMMA Allocate3dKeeps ==
    ASSUME AllocInv, NEW t \in Thread, NEW a \in Alloc, Allocate3d(t, a), UNCHANGED drm
    PROVE  AllocInv'
  <1> USE ResourceAllocAssumption
  <1>t. TypeOK
    BY DEF AllocInv
  <1>r. PICK r : r = R(t)
    OBVIOUS
  <1>g. At(t, "allocate") /\ km[a].rt = NULL /\ km[a].by = "nobody"
    BY DEF Allocate3d, Handle, Used, Free, At, R
  <1>o. /\ r \in Resource /\ r # NULL /\ resource[r] \in Block /\ call[t] \in Call
        /\ Working(t, r) /\ Works(t, r) /\ BlockRule(r)
        /\ \A x \in Alloc : km[x].rt = r /\ km[x].by = "hook" =>
              resource[r].memory = x \/ (At(t, "memory") /\ call[t].blob = x)
    BY <1>g, <1>r, AtWork DEF At
  <1>b. PICK primary \in BOOLEAN : primary = (resource[r].request = "primary")
    OBVIOUS
  <1>1. TypeOK'
    <2>1. [resource[r] EXCEPT !.hKMAllocation = a] \in Block
      BY <1>o, <1>r DEF Block
    <2>2. [call[t] EXCEPT !.pc = "query"] \in Call
      BY <1>o, <1>r DEF Call, PC
    <2>3. [rt |-> r, by |-> "driver", resident |-> FALSE,
             primary |-> resource[r].request = "primary"] \in Allocation
      BY <1>o, <1>r DEF Allocation
    <2> QED
      BY <1>t, <1>o, <1>r, <2>1, <2>2, <2>3, Types, TypesNext DEF Allocate3d, Goto, R
  <1>p. /\ \A s \in Resource : s # r => resource'[s] = resource[s]
        /\ resource'[r].stage = resource[r].stage /\ resource'[r].request = resource[r].request
        /\ resource'[r].hKMAllocation = a /\ resource'[r].memory = resource[r].memory
    BY <1>t, <1>g, <1>o, <1>r, <1>b, Types DEF Allocate3d, Block, Call, Allocation, Record,
       Scope, Fail, Goto, Unused, ClearRecord, NoRecord, RestoreScope, NoScope, Handle, At,
       R, Idle
  <1>c. /\ \A u \in Thread : u # t => call'[u] = call[u]
        /\ call'[t].pc = ("query") /\ call'[t].r = r /\ call'[t].blob = call[t].blob
    BY <1>t, <1>g, <1>o, <1>r, <1>b, Types DEF Allocate3d, Block, Call, Allocation, Record,
       Scope, Fail, Goto, Unused, ClearRecord, NoRecord, RestoreScope, NoScope, Handle, At,
       R, Idle
  <1>s. record' = record /\ scope' = scope
    BY <1>t, <1>g, <1>o, <1>r, <1>b, Types DEF Allocate3d, Block, Call, Allocation, Record,
       Scope, Fail, Goto, Unused, ClearRecord, NoRecord, RestoreScope, NoScope, Handle, At,
       R, Idle
  <1>k. \A x \in Alloc : x # a => km'[x] = km[x]
    BY <1>t, Types DEF Allocate3d
  <1>l. km'[a] = [rt |-> r, by |-> "driver", resident |-> FALSE, primary |-> primary]
    BY <1>t, <1>r, <1>b, Types DEF Allocate3d, R
  <1>m. km'[a].rt = r /\ km'[a].by = "driver"
    BY <1>l
  <1>n. km'[a].primary = primary
    BY <1>l
  <1>v. km'[a].primary <=> resource[r].request = "primary"
    <2>1. CASE resource[r].request = "primary"
      <3>1. primary = TRUE
        BY <2>1, <1>b
      <3> QED
        BY <2>1, <3>1, <1>n
    <2>2. CASE resource[r].request # "primary"
      <3>1. primary = FALSE
        BY <2>2, <1>b
      <3> QED
        BY <2>2, <3>1, <1>n
    <2> QED
      BY <2>1, <2>2
  <1>2. Touches(t, r)
    BY <1>g, <1>o, <1>r, <1>b, <1>p, <1>c, <1>s, <1>k, <1>l, <1>m, <1>n, <1>v DEF Touches, Idle
  <1>3. ThreadRule(t)'
    <2>1. R(t)' = r /\ ~At(t, "idle")' /\ resource'[r].stage = "busy"
      BY <1>g, <1>o, <1>r, <1>b, <1>p, <1>c, <1>s, <1>k, <1>l, <1>m, <1>n, <1>v DEF Working,
         At, R
    <2>2. Progress(t, r)'
      BY <1>g, <1>o, <1>r, <1>b, <1>p, <1>c, <1>s, <1>k, <1>l, <1>m, <1>n, <1>v DEF Working,
         At, Progress, PathOf, Path, Bound, Bare, Handle
    <2>3. ResidentInTime(t, r)'
      BY <1>g, <1>o, <1>r, <1>b, <1>p, <1>c, <1>s, <1>k, <1>l, <1>m, <1>n, <1>v DEF Working,
         At, ResidentInTime, Progress, PathOf, Path, PresentRequest, Bound, Handle
    <2>4. RecordRight(t, r)'
      BY <1>g, <1>o, <1>r, <1>b, <1>p, <1>c, <1>s, <1>k, <1>l, <1>m, <1>n, <1>v DEF Working,
         At, RecordRight, Progress, BlobOwned, PathOf, Path, Trusts, R
    <2>5. ScopeRight(t, r)'
      BY <1>g, <1>o, <1>r, <1>b, <1>p, <1>c, <1>s, <1>k, <1>l, <1>m, <1>n, <1>v DEF Working,
         At, ScopeRight, PathOf, Path
    <2>6. BlobOwned(t, r)'
      BY <1>g, <1>o, <1>r, <1>b, <1>p, <1>c, <1>s, <1>k, <1>l, <1>m, <1>n, <1>v DEF Working,
         At, BlobOwned, Progress, PathOf, Path, Handle
    <2>7. At(t, "deallocate")' \/ Backed(r)'
      BY <1>g, <1>o, <1>r, <1>b, <1>p, <1>c, <1>s, <1>k, <1>l, <1>m, <1>n, <1>v DEF Working,
         At, Backed, Handle
    <2>8. Working(t, r)'
      BY <1>o, <2>1, <2>2, <2>3, <2>4, <2>5, <2>6, <2>7 DEF Working
    <2> QED
      BY <2>1, <2>8 DEF ThreadRule
  <1>4. BlockRule(r)'
    BY <1>g, <1>o, <1>r, <1>b, <1>p, <1>c, <1>s, <1>k, <1>l, <1>m, <1>n, <1>v DEF Working,
       At, Progress, Bare, BlockRule, Backed, AttributedTo, Bound, Handle
  <1>5. ASSUME NEW x \in Alloc, km[x].rt \in {r, NULL} PROVE AllocRule(x)'
    BY <1>t, <1>5, <1>g, <1>o, <1>r, <1>b, <1>p, <1>c, <1>s, <1>k, <1>l, <1>m, <1>n, <1>v
       DEF AllocInv, AllocRule, Awaits, Working, Progress, Bare, Handle, At, R, PathOf, Path
  <1>6. Works(t, r)
    BY <1>g, <1>o, <1>r DEF Works, At
  <1>7. \A x \in Alloc : km[x].rt \in {r, NULL} => AllocRule(x)'
    BY <1>5
  <1> QED
    BY <1>o, <1>1, <1>2, <1>3, <1>4, <1>6, <1>7, StepIsLocal

\* The query of the new allocation succeeds.
LEMMA Query3dKeeps ==
    ASSUME AllocInv, NEW t \in Thread, Query3d(t), UNCHANGED drm
    PROVE  AllocInv'
  <1> USE ResourceAllocAssumption
  <1>t. TypeOK
    BY DEF AllocInv
  <1>r. PICK r : r = R(t)
    OBVIOUS
  <1>g. At(t, "query")
    BY DEF Query3d, Handle, Used, Free, At, R
  <1>o. /\ r \in Resource /\ r # NULL /\ resource[r] \in Block /\ call[t] \in Call
        /\ Working(t, r) /\ Works(t, r) /\ BlockRule(r)
        /\ \A x \in Alloc : km[x].rt = r /\ km[x].by = "hook" =>
              resource[r].memory = x \/ (At(t, "memory") /\ call[t].blob = x)
    BY <1>g, <1>r, AtWork DEF At
  <1>1. TypeOK'
    <2>1. [call[t] EXCEPT !.pc = "resident"] \in Call
      BY <1>o, <1>r DEF Call, PC
    <2> QED
      BY <1>t, <1>o, <1>r, <2>1, Types, TypesNext DEF Query3d, Goto, R
  <1>c. /\ \A u \in Thread : u # t => call'[u] = call[u]
        /\ call'[t].pc = ("resident") /\ call'[t].r = r /\ call'[t].blob = call[t].blob
    BY <1>t, <1>g, <1>o, <1>r, Types DEF Query3d, Block, Call, Allocation, Record, Scope,
       Fail, Goto, Unused, ClearRecord, NoRecord, RestoreScope, NoScope, Handle, At, R, Idle
  <1>s. resource' = resource /\ record' = record /\ scope' = scope /\ km' = km
    BY <1>t, <1>g, <1>o, <1>r, Types DEF Query3d, Block, Call, Allocation, Record, Scope,
       Fail, Goto, Unused, ClearRecord, NoRecord, RestoreScope, NoScope, Handle, At, R, Idle
  <1>2. Touches(t, r)
    BY <1>g, <1>o, <1>r, <1>c, <1>s DEF Touches, Idle
  <1>3. ThreadRule(t)'
    <2>1. R(t)' = r /\ ~At(t, "idle")' /\ resource'[r].stage = "busy"
      BY <1>g, <1>o, <1>r, <1>c, <1>s DEF Working, At, R
    <2>2. Progress(t, r)'
      BY <1>g, <1>o, <1>r, <1>c, <1>s DEF Working, At, Progress, PathOf, Path, Bound, Bare,
         Handle
    <2>3. ResidentInTime(t, r)'
      BY <1>g, <1>o, <1>r, <1>c, <1>s DEF Working, At, ResidentInTime, Progress, PathOf,
         Path, PresentRequest, Bound, Handle
    <2>4. RecordRight(t, r)'
      BY <1>g, <1>o, <1>r, <1>c, <1>s DEF Working, At, RecordRight, Progress, BlobOwned,
         PathOf, Path, Trusts, R
    <2>5. ScopeRight(t, r)'
      BY <1>g, <1>o, <1>r, <1>c, <1>s DEF Working, At, ScopeRight, PathOf, Path
    <2>6. BlobOwned(t, r)'
      BY <1>g, <1>o, <1>r, <1>c, <1>s DEF Working, At, BlobOwned, Progress, PathOf, Path, Handle
    <2>7. At(t, "deallocate")' \/ Backed(r)'
      BY <1>g, <1>o, <1>r, <1>c, <1>s DEF Working, At, Backed, Handle
    <2>8. Working(t, r)'
      BY <1>o, <2>1, <2>2, <2>3, <2>4, <2>5, <2>6, <2>7 DEF Working
    <2> QED
      BY <2>1, <2>8 DEF ThreadRule
  <1>4. BlockRule(r)'
    BY <1>g, <1>o, <1>r, <1>c, <1>s DEF Working, At, Progress, Bare, BlockRule, Backed,
       AttributedTo, Bound, Handle
  <1>5. ASSUME NEW x \in Alloc, km[x].rt \in {r, NULL} PROVE AllocRule(x)'
    BY <1>t, <1>5, <1>g, <1>o, <1>r, <1>c, <1>s DEF AllocInv, AllocRule, Awaits, Working,
       Progress, Bare, Handle, At, R, PathOf, Path
  <1>6. Works(t, r)
    BY <1>g, <1>o, <1>r DEF Works, At
  <1>7. \A x \in Alloc : km[x].rt \in {r, NULL} => AllocRule(x)'
    BY <1>5
  <1> QED
    BY <1>o, <1>1, <1>2, <1>3, <1>4, <1>6, <1>7, StepIsLocal

\* The query fails; the handle goes only with the allocation.
LEMMA Query3dFailsKeeps ==
    ASSUME AllocInv, NEW t \in Thread, NEW retired \in BOOLEAN, Query3dFails(t, retired),
           UNCHANGED drm
    PROVE  AllocInv'
  <1> USE ResourceAllocAssumption
  <1>t. TypeOK
    BY DEF AllocInv
  <1>r. PICK r : r = R(t)
    OBVIOUS
  <1>g. At(t, "query")
    BY DEF Query3dFails, FreeByResource, HandleAfterCleanup, Handle, Used, Free, At, R
  <1>o. /\ r \in Resource /\ r # NULL /\ resource[r] \in Block /\ call[t] \in Call
        /\ Working(t, r) /\ Works(t, r) /\ BlockRule(r)
        /\ \A x \in Alloc : km[x].rt = r /\ km[x].by = "hook" =>
              resource[r].memory = x \/ (At(t, "memory") /\ call[t].blob = x)
    BY <1>g, <1>r, AtWork DEF At
  <1>1. TypeOK'
    <2>1. [[resource[r] EXCEPT !.hKMAllocation = HandleAfterCleanup(t, retired)] EXCEPT !.stage = "failed"] \in Block
      BY <1>o, <1>r DEF Block, HandleAfterCleanup
    <2>2. Idle \in Call
      BY DEF Idle, Call, PC
    <2>3. Free \in Allocation
      BY DEF Free, Allocation
    <2> QED
      BY <1>t, <1>o, <1>r, <2>1, <2>2, <2>3, Types, TypesNext DEF Query3dFails,
         FreeByResource, Fail, R
  <1>p. /\ \A s \in Resource : s # r => resource'[s] = resource[s]
        /\ resource'[r].stage = "failed" /\ resource'[r].request = resource[r].request
        /\ resource'[r].hKMAllocation = (IF retired THEN NULL ELSE resource[r].hKMAllocation) /\ resource'[r].memory = resource[r].memory
    BY <1>t, <1>g, <1>o, <1>r, Types DEF Query3dFails, FreeByResource, HandleAfterCleanup,
       Block, Call, Allocation, Record, Scope, Fail, Goto, Unused, ClearRecord, NoRecord,
       RestoreScope, NoScope, Handle, At, R, Idle
  <1>c. /\ \A u \in Thread : u # t => call'[u] = call[u]
        /\ call'[t] = Idle
    BY <1>t, <1>g, <1>o, <1>r, Types DEF Query3dFails, FreeByResource, HandleAfterCleanup,
       Block, Call, Allocation, Record, Scope, Fail, Goto, Unused, ClearRecord, NoRecord,
       RestoreScope, NoScope, Handle, At, R, Idle
  <1>s. record' = record /\ scope' = scope
    BY <1>t, <1>g, <1>o, <1>r, Types DEF Query3dFails, FreeByResource, HandleAfterCleanup,
       Block, Call, Allocation, Record, Scope, Fail, Goto, Unused, ClearRecord, NoRecord,
       RestoreScope, NoScope, Handle, At, R, Idle
  <1>h. Handle(r) \in Alloc \union {NULL}
    BY <1>o DEF Block, Handle
  <1>v. retired => resource'[r].hKMAllocation = NULL
    BY <1>p
  <1>w. ~retired => resource'[r].hKMAllocation = resource[r].hKMAllocation
    BY <1>p
  <1>k. \A x \in Alloc : ~((retired /\ km[x].rt = r)) => km'[x] = km[x]
    BY <1>t, <1>g, <1>o, <1>r, Types DEF Query3dFails, FreeByResource, Free, R, Handle,
       Allocation
  <1>l. \A x \in Alloc : (retired /\ km[x].rt = r) => km'[x].rt = NULL /\ km'[x].by = "nobody" /\ ~km'[x].primary
    BY <1>t, <1>g, <1>o, <1>r, Types DEF Query3dFails, FreeByResource, Free, R, Handle,
       Allocation
  <1>2. Touches(t, r)
    BY <1>g, <1>o, <1>r, <1>p, <1>c, <1>s, <1>h, <1>v, <1>w, <1>k, <1>l DEF Touches, Idle
  <1>3. ThreadRule(t)'
    BY <1>p, <1>c, <1>s, <1>h, <1>v, <1>w, <1>k, <1>l DEF ThreadRule, At, Idle
  <1>4. BlockRule(r)'
    <2>1. resource'[r].stage = "busy" \/ Backed(r)'
      BY <1>t, <1>g, <1>o, <1>r, <1>p, <1>c, <1>s, <1>h, <1>v, <1>w, <1>k, <1>l DEF Working,
         At, Progress, BlockRule, Backed, Handle
    <2>2. AttributedTo(r)'
      BY <1>t, <1>g, <1>o, <1>r, <1>p, <1>c, <1>s, <1>h, <1>v, <1>w, <1>k, <1>l DEF Working,
         At, Progress, BlockRule, AttributedTo, Backed, Bound, Handle, PathOf, Path, Bare,
         PresentRequest
    <2>3. resource'[r].memory \in Alloc => km'[resource'[r].memory].rt = r
      BY <1>t, <1>g, <1>o, <1>r, <1>p, <1>c, <1>s, <1>h, <1>v, <1>w, <1>k, <1>l DEF Working,
         At, Progress, BlockRule, Bare
    <2>4. resource'[r].stage = "live" /\ resource'[r].request \in PresentRequest => km'[Handle(r)'].resident
      BY <1>t, <1>g, <1>o, <1>r, <1>p, <1>c, <1>s, <1>h, <1>v, <1>w, <1>k, <1>l DEF Working,
         At, Progress, BlockRule, ResidentInTime, Bound, PresentRequest, PathOf, Path,
         Handle
    <2> QED
      BY <2>1, <2>2, <2>3, <2>4 DEF BlockRule
  <1>5. ASSUME NEW x \in Alloc, km[x].rt \in {r, NULL} PROVE AllocRule(x)'
    BY <1>t, <1>5, <1>g, <1>o, <1>r, <1>p, <1>c, <1>s, <1>h, <1>v, <1>w, <1>k, <1>l DEF
       AllocInv, AllocRule, Awaits, Working, Progress, Bare, Handle, At, R, PathOf, Path
  <1>6. Works(t, r)
    BY <1>g, <1>o, <1>r DEF Works, At
  <1>7. \A x \in Alloc : km[x].rt \in {r, NULL} => AllocRule(x)'
    BY <1>5
  <1> QED
    BY <1>o, <1>1, <1>2, <1>3, <1>4, <1>6, <1>7, StepIsLocal

\* Residency reaches the allocation whose handle is stored.
LEMMA MakeResidentKeeps ==
    ASSUME AllocInv, NEW t \in Thread, MakeResident(t), UNCHANGED drm
    PROVE  AllocInv'
  <1> USE ResourceAllocAssumption
  <1>t. TypeOK
    BY DEF AllocInv
  <1>r. PICK r : r = R(t)
    OBVIOUS
  <1>g. At(t, "resident")
    BY DEF MakeResident, Handle, Used, Free, At, R
  <1>o. /\ r \in Resource /\ r # NULL /\ resource[r] \in Block /\ call[t] \in Call
        /\ Working(t, r) /\ Works(t, r) /\ BlockRule(r)
        /\ \A x \in Alloc : km[x].rt = r /\ km[x].by = "hook" =>
              resource[r].memory = x \/ (At(t, "memory") /\ call[t].blob = x)
    BY <1>g, <1>r, AtWork DEF At
  <1>1. TypeOK'
    <2>1. [call[t] EXCEPT !.pc = IF Path(resource[r].request) = "3d" THEN "image" ELSE "publish"] \in Call
      BY <1>o, <1>r DEF Call, PC
    <2>2. \A x \in Alloc : [km[x] EXCEPT !.resident = TRUE] \in Allocation
      BY <1>t, Types DEF Allocation
    <2> QED
      BY <1>t, <1>o, <1>r, <2>1, <2>2, Types, TypesNext DEF MakeResident, Goto, Handle, R
  <1>c. /\ \A u \in Thread : u # t => call'[u] = call[u]
        /\ call'[t].pc = (IF PathOf(r) = "3d" THEN "image" ELSE "publish") /\ call'[t].r = r /\ call'[t].blob = call[t].blob
    BY <1>t, <1>g, <1>o, <1>r, Types DEF MakeResident, Goto, Call, At, R, PathOf
  <1>s. resource' = resource /\ record' = record /\ scope' = scope
    BY <1>t, <1>g, <1>o, <1>r, Types DEF MakeResident, Block, Call, Allocation, Record,
       Scope, Fail, Goto, Unused, ClearRecord, NoRecord, RestoreScope, NoScope, Handle, At,
       R, Idle
  <1>k. /\ Handle(r) \in Alloc /\ km[Handle(r)].rt = r
    BY <1>g, <1>o DEF Working, Progress, Bound, Backed, Block, Handle, At
  <1>l. \A x \in Alloc : x # Handle(r) => km'[x] = km[x]
    BY <1>t, <1>r, Types DEF MakeResident, R, Handle
  <1>m. km'[Handle(r)] = [km[Handle(r)] EXCEPT !.resident = TRUE]
    BY <1>t, <1>r, <1>k, Types DEF MakeResident, R, Handle
  <1>n. km'[Handle(r)].resident
    BY <1>k, <1>m, <1>t, Types DEF Allocation
  <1>q. \A x \in Alloc : km'[x].rt = km[x].rt /\ km'[x].by = km[x].by /\ (km'[x].primary <=> km[x].primary)
    BY <1>k, <1>l, <1>m, <1>t, Types DEF Allocation
  <1>2. Touches(t, r)
    BY <1>g, <1>o, <1>r, <1>c, <1>s, <1>k, <1>l, <1>m, <1>n, <1>q DEF Touches, Idle
  <1>3. ThreadRule(t)'
    <2>1. R(t)' = r /\ ~At(t, "idle")' /\ resource'[r].stage = "busy"
      BY <1>g, <1>o, <1>r, <1>c, <1>s, <1>k, <1>l, <1>m, <1>n, <1>q DEF Working, At, R
    <2>2. Progress(t, r)'
      BY <1>g, <1>o, <1>r, <1>c, <1>s, <1>k, <1>l, <1>m, <1>n, <1>q DEF Working, At,
         Progress, PathOf, Path, Bound, Bare, Handle
    <2>3. ResidentInTime(t, r)'
      BY <1>g, <1>o, <1>r, <1>c, <1>s, <1>k, <1>l, <1>m, <1>n, <1>q DEF Working, At,
         ResidentInTime, Progress, PathOf, Path, PresentRequest, Bound, Handle
    <2>4. RecordRight(t, r)'
      BY <1>g, <1>o, <1>r, <1>c, <1>s, <1>k, <1>l, <1>m, <1>n, <1>q DEF Working, At,
         RecordRight, Progress, BlobOwned, PathOf, Path, Trusts, R
    <2>5. ScopeRight(t, r)'
      BY <1>g, <1>o, <1>r, <1>c, <1>s, <1>k, <1>l, <1>m, <1>n, <1>q DEF Working, At,
         ScopeRight, PathOf, Path
    <2>6. BlobOwned(t, r)'
      BY <1>g, <1>o, <1>r, <1>c, <1>s, <1>k, <1>l, <1>m, <1>n, <1>q DEF Working, At,
         BlobOwned, Progress, PathOf, Path, Handle
    <2>7. At(t, "deallocate")' \/ Backed(r)'
      BY <1>g, <1>o, <1>r, <1>c, <1>s, <1>k, <1>l, <1>m, <1>n, <1>q DEF Working, At, Backed,
         Handle
    <2>8. Working(t, r)'
      BY <1>o, <2>1, <2>2, <2>3, <2>4, <2>5, <2>6, <2>7 DEF Working
    <2> QED
      BY <2>1, <2>8 DEF ThreadRule
  <1>4. BlockRule(r)'
    BY <1>g, <1>o, <1>r, <1>c, <1>s, <1>k, <1>l, <1>m, <1>n, <1>q DEF Working, At, Progress,
       Bare, BlockRule, Backed, AttributedTo, Bound, Handle
  <1>5. ASSUME NEW x \in Alloc, km[x].rt \in {r, NULL} PROVE AllocRule(x)'
    <2>1. AllocRule(x)
      BY <1>5 DEF AllocInv
    <2>2. km'[x].rt = km[x].rt /\ km'[x].by = km[x].by /\ (km'[x].primary <=> km[x].primary)
      BY <1>5, <1>q
    <2>3. km[x].rt = r /\ km[x].by = "hook" => resource[r].memory = x
      BY <1>g, <1>o, <1>5 DEF At
    <2>4. resource' = resource
      BY <1>s
    <2> QED
      BY <1>5, <1>o, <2>1, <2>2, <2>3, <2>4 DEF AllocRule, Handle
  <1>6. Works(t, r)
    BY <1>g, <1>o, <1>r DEF Works, At
  <1>7. \A x \in Alloc : km[x].rt \in {r, NULL} => AllocRule(x)'
    BY <1>5
  <1> QED
    BY <1>o, <1>1, <1>2, <1>3, <1>4, <1>6, <1>7, StepIsLocal

\* An image without memory yet.
LEMMA CreateImageKeeps ==
    ASSUME AllocInv, NEW t \in Thread, CreateImage(t), UNCHANGED drm
    PROVE  AllocInv'
  <1> USE ResourceAllocAssumption
  <1>t. TypeOK
    BY DEF AllocInv
  <1>r. PICK r : r = R(t)
    OBVIOUS
  <1>g. At(t, "image")
    BY DEF CreateImage, Handle, Used, Free, At, R
  <1>o. /\ r \in Resource /\ r # NULL /\ resource[r] \in Block /\ call[t] \in Call
        /\ Working(t, r) /\ Works(t, r) /\ BlockRule(r)
        /\ \A x \in Alloc : km[x].rt = r /\ km[x].by = "hook" =>
              resource[r].memory = x \/ (At(t, "memory") /\ call[t].blob = x)
    BY <1>g, <1>r, AtWork DEF At
  <1>1. TypeOK'
    <2>1. [resource[r] EXCEPT !.image = TRUE] \in Block
      BY <1>o, <1>r DEF Block
    <2>2. [call[t] EXCEPT !.pc = "memory"] \in Call
      BY <1>o, <1>r DEF Call, PC
    <2> QED
      BY <1>t, <1>o, <1>r, <2>1, <2>2, Types, TypesNext DEF CreateImage, Goto, R
  <1>p. /\ \A s \in Resource : s # r => resource'[s] = resource[s]
        /\ resource'[r].stage = resource[r].stage /\ resource'[r].request = resource[r].request
        /\ resource'[r].hKMAllocation = resource[r].hKMAllocation /\ resource'[r].memory = resource[r].memory
    BY <1>t, <1>g, <1>o, <1>r, Types DEF CreateImage, Block, Call, Allocation, Record,
       Scope, Fail, Goto, Unused, ClearRecord, NoRecord, RestoreScope, NoScope, Handle, At,
       R, Idle
  <1>c. /\ \A u \in Thread : u # t => call'[u] = call[u]
        /\ call'[t].pc = ("memory") /\ call'[t].r = r /\ call'[t].blob = call[t].blob
    BY <1>t, <1>g, <1>o, <1>r, Types DEF CreateImage, Block, Call, Allocation, Record,
       Scope, Fail, Goto, Unused, ClearRecord, NoRecord, RestoreScope, NoScope, Handle, At,
       R, Idle
  <1>s. record' = record /\ scope' = scope /\ km' = km
    BY <1>t, <1>g, <1>o, <1>r, Types DEF CreateImage, Block, Call, Allocation, Record,
       Scope, Fail, Goto, Unused, ClearRecord, NoRecord, RestoreScope, NoScope, Handle, At,
       R, Idle
  <1>2. Touches(t, r)
    BY <1>g, <1>o, <1>r, <1>p, <1>c, <1>s DEF Touches, Idle
  <1>3. ThreadRule(t)'
    <2>1. R(t)' = r /\ ~At(t, "idle")' /\ resource'[r].stage = "busy"
      BY <1>g, <1>o, <1>r, <1>p, <1>c, <1>s DEF Working, At, R
    <2>2. Progress(t, r)'
      BY <1>g, <1>o, <1>r, <1>p, <1>c, <1>s DEF Working, At, Progress, PathOf, Path, Bound,
         Bare, Handle
    <2>3. ResidentInTime(t, r)'
      BY <1>g, <1>o, <1>r, <1>p, <1>c, <1>s DEF Working, At, ResidentInTime, Progress,
         PathOf, Path, PresentRequest, Bound, Handle
    <2>4. RecordRight(t, r)'
      BY <1>g, <1>o, <1>r, <1>p, <1>c, <1>s DEF Working, At, RecordRight, Progress,
         BlobOwned, PathOf, Path, Trusts, R
    <2>5. ScopeRight(t, r)'
      BY <1>g, <1>o, <1>r, <1>p, <1>c, <1>s DEF Working, At, ScopeRight, PathOf, Path
    <2>6. BlobOwned(t, r)'
      BY <1>g, <1>o, <1>r, <1>p, <1>c, <1>s DEF Working, At, BlobOwned, Progress, PathOf,
         Path, Handle
    <2>7. At(t, "deallocate")' \/ Backed(r)'
      BY <1>g, <1>o, <1>r, <1>p, <1>c, <1>s DEF Working, At, Backed, Handle
    <2>8. Working(t, r)'
      BY <1>o, <2>1, <2>2, <2>3, <2>4, <2>5, <2>6, <2>7 DEF Working
    <2> QED
      BY <2>1, <2>8 DEF ThreadRule
  <1>4. BlockRule(r)'
    BY <1>g, <1>o, <1>r, <1>p, <1>c, <1>s DEF Working, At, Progress, Bare, BlockRule,
       Backed, AttributedTo, Bound, Handle
  <1>5. ASSUME NEW x \in Alloc, km[x].rt \in {r, NULL} PROVE AllocRule(x)'
    BY <1>t, <1>5, <1>g, <1>o, <1>r, <1>p, <1>c, <1>s DEF AllocInv, AllocRule, Awaits,
       Working, Progress, Bare, Handle, At, R, PathOf, Path
  <1>6. Works(t, r)
    BY <1>g, <1>o, <1>r DEF Works, At
  <1>7. \A x \in Alloc : km[x].rt \in {r, NULL} => AllocRule(x)'
    BY <1>5
  <1> QED
    BY <1>o, <1>1, <1>2, <1>3, <1>4, <1>6, <1>7, StepIsLocal

\* No image, and the scope is gone.
LEMMA CreateImageFailsKeeps ==
    ASSUME AllocInv, NEW t \in Thread, NEW left \in BOOLEAN, CreateImageFails(t, left),
           UNCHANGED drm
    PROVE  AllocInv'
  <1> USE ResourceAllocAssumption
  <1>t. TypeOK
    BY DEF AllocInv
  <1>r. PICK r : r = R(t)
    OBVIOUS
  <1>g. At(t, "image")
    BY DEF CreateImageFails, RestoreScope, Handle, Used, Free, At, R
  <1>o. /\ r \in Resource /\ r # NULL /\ resource[r] \in Block /\ call[t] \in Call
        /\ Working(t, r) /\ Works(t, r) /\ BlockRule(r)
        /\ \A x \in Alloc : km[x].rt = r /\ km[x].by = "hook" =>
              resource[r].memory = x \/ (At(t, "memory") /\ call[t].blob = x)
    BY <1>g, <1>r, AtWork DEF At
  <1>1. TypeOK'
    <2>1. [[resource[r] EXCEPT !.image = left] EXCEPT !.stage = "failed"] \in Block
      BY <1>o, <1>r DEF Block
    <2>2. Idle \in Call
      BY DEF Idle, Call, PC
    <2>3. NoScope \in Scope
      BY DEF NoScope, Scope
    <2> QED
      BY <1>t, <1>o, <1>r, <2>1, <2>2, <2>3, Types, TypesNext DEF CreateImageFails,
         RestoreScope, Fail, R
  <1>p. /\ \A s \in Resource : s # r => resource'[s] = resource[s]
        /\ resource'[r].stage = "failed" /\ resource'[r].request = resource[r].request
        /\ resource'[r].hKMAllocation = resource[r].hKMAllocation /\ resource'[r].memory = resource[r].memory
    BY <1>t, <1>g, <1>o, <1>r, Types DEF CreateImageFails, RestoreScope, Block, Call,
       Allocation, Record, Scope, Fail, Goto, Unused, ClearRecord, NoRecord, RestoreScope,
       NoScope, Handle, At, R, Idle
  <1>c. /\ \A u \in Thread : u # t => call'[u] = call[u]
        /\ call'[t] = Idle
    BY <1>t, <1>g, <1>o, <1>r, Types DEF CreateImageFails, RestoreScope, Block, Call,
       Allocation, Record, Scope, Fail, Goto, Unused, ClearRecord, NoRecord, RestoreScope,
       NoScope, Handle, At, R, Idle
  <1>s. record' = record /\ km' = km /\ (\A u \in Thread : u # t => scope'[u] = scope[u])
    BY <1>t, <1>g, <1>o, <1>r, Types DEF CreateImageFails, RestoreScope, Block, Call,
       Allocation, Record, Scope, Fail, Goto, Unused, ClearRecord, NoRecord, RestoreScope,
       NoScope, Handle, At, R, Idle
  <1>2. Touches(t, r)
    BY <1>g, <1>o, <1>r, <1>p, <1>c, <1>s DEF Touches, Idle
  <1>3. ThreadRule(t)'
    BY <1>p, <1>c, <1>s DEF ThreadRule, At, Idle
  <1>4. BlockRule(r)'
    <2>1. resource'[r].stage = "busy" \/ Backed(r)'
      BY <1>t, <1>g, <1>o, <1>r, <1>p, <1>c, <1>s DEF Working, At, Progress, BlockRule,
         Backed, Handle
    <2>2. AttributedTo(r)'
      BY <1>t, <1>g, <1>o, <1>r, <1>p, <1>c, <1>s DEF Working, At, Progress, BlockRule,
         AttributedTo, Backed, Bound, Handle, PathOf, Path, Bare, PresentRequest
    <2>3. resource'[r].memory \in Alloc => km'[resource'[r].memory].rt = r
      BY <1>t, <1>g, <1>o, <1>r, <1>p, <1>c, <1>s DEF Working, At, Progress, BlockRule, Bare
    <2>4. resource'[r].stage = "live" /\ resource'[r].request \in PresentRequest => km'[Handle(r)'].resident
      BY <1>t, <1>g, <1>o, <1>r, <1>p, <1>c, <1>s DEF Working, At, Progress, BlockRule,
         ResidentInTime, Bound, PresentRequest, PathOf, Path, Handle
    <2> QED
      BY <2>1, <2>2, <2>3, <2>4 DEF BlockRule
  <1>5. ASSUME NEW x \in Alloc, km[x].rt \in {r, NULL} PROVE AllocRule(x)'
    BY <1>t, <1>5, <1>g, <1>o, <1>r, <1>p, <1>c, <1>s DEF AllocInv, AllocRule, Awaits,
       Working, Progress, Bare, Handle, At, R, PathOf, Path
  <1>6. Works(t, r)
    BY <1>g, <1>o, <1>r DEF Works, At
  <1>7. \A x \in Alloc : km[x].rt \in {r, NULL} => AllocRule(x)'
    BY <1>5
  <1> QED
    BY <1>o, <1>1, <1>2, <1>3, <1>4, <1>6, <1>7, StepIsLocal

\* The image gets the memory that was imported or came through the hook.
LEMMA AllocateMemoryKeeps ==
    ASSUME AllocInv, NEW t \in Thread, AllocateMemory(t), UNCHANGED drm
    PROVE  AllocInv'
  <1> USE ResourceAllocAssumption
  <1>t. TypeOK
    BY DEF AllocInv
  <1>r. PICK r : r = R(t)
    OBVIOUS
  <1>g. At(t, "memory")
    BY DEF AllocateMemory, RestoreScope, Handle, Used, Free, At, R
  <1>o. /\ r \in Resource /\ r # NULL /\ resource[r] \in Block /\ call[t] \in Call
        /\ Working(t, r) /\ Works(t, r) /\ BlockRule(r)
        /\ \A x \in Alloc : km[x].rt = r /\ km[x].by = "hook" =>
              resource[r].memory = x \/ (At(t, "memory") /\ call[t].blob = x)
    BY <1>g, <1>r, AtWork DEF At
  <1>1. TypeOK'
    <2>1. [resource[r] EXCEPT !.memory = BoundMemory(t)] \in Block
      BY <1>o, <1>r DEF Block, BoundMemory, Call
    <2>2. [call[t] EXCEPT !.pc = IF Path(resource[r].request) = "blob" THEN "record" ELSE "import"] \in Call
      BY <1>o, <1>r DEF Call, PC
    <2>3. NoScope \in Scope
      BY DEF NoScope, Scope
    <2> QED
      BY <1>t, <1>o, <1>r, <2>1, <2>2, <2>3, Types, TypesNext DEF AllocateMemory,
         RestoreScope, Goto, R
  <1>p. /\ \A s \in Resource : s # r => resource'[s] = resource[s]
        /\ resource'[r].stage = resource[r].stage /\ resource'[r].request = resource[r].request
        /\ resource'[r].hKMAllocation = resource[r].hKMAllocation /\ resource'[r].memory = BoundMemory(t)
    BY <1>t, <1>g, <1>o, <1>r, Types DEF AllocateMemory, RestoreScope, Block, Call,
       Allocation, Record, Scope, Fail, Goto, Unused, ClearRecord, NoRecord, RestoreScope,
       NoScope, Handle, At, R, Idle
  <1>c. /\ \A u \in Thread : u # t => call'[u] = call[u]
        /\ call'[t].pc = (IF PathOf(r) = "blob" THEN "record" ELSE "import") /\ call'[t].r = r /\ call'[t].blob = call[t].blob
    BY <1>t, <1>g, <1>o, <1>r, Types DEF AllocateMemory, Goto, Call, At, R, PathOf
  <1>s. record' = record /\ km' = km /\ (\A u \in Thread : u # t => scope'[u] = scope[u])
    BY <1>t, <1>g, <1>o, <1>r, Types DEF AllocateMemory, RestoreScope, Block, Call,
       Allocation, Record, Scope, Fail, Goto, Unused, ClearRecord, NoRecord, RestoreScope,
       NoScope, Handle, At, R, Idle
  <1>h. Handle(r) \in Alloc \union {NULL} /\ call[t].blob \in Alloc \union {NULL}
    BY <1>o DEF Block, Call, Handle
  <1>m. BoundMemory(t) = IF PathOf(r) # "blob" THEN Handle(r)
                         ELSE IF call[t].blob # NULL THEN call[t].blob ELSE PrivateMemory
    BY <1>r DEF BoundMemory, PathOf, Handle, R
  <1>2. Touches(t, r)
    BY <1>g, <1>o, <1>r, <1>p, <1>c, <1>s, <1>h, <1>m DEF Touches, Idle
  <1>3. ThreadRule(t)'
    <2>1. R(t)' = r /\ ~At(t, "idle")' /\ resource'[r].stage = "busy"
      BY <1>g, <1>o, <1>r, <1>p, <1>c, <1>s, <1>h, <1>m DEF Working, At, R
    <2>2. Progress(t, r)'
      BY <1>g, <1>o, <1>r, <1>p, <1>c, <1>s, <1>h, <1>m DEF Working, At, Progress, PathOf,
         Path, Bound, Bare, Handle
    <2>3. ResidentInTime(t, r)'
      BY <1>g, <1>o, <1>r, <1>p, <1>c, <1>s, <1>h, <1>m DEF Working, At, ResidentInTime,
         Progress, PathOf, Path, PresentRequest, Bound, Handle
    <2>4. RecordRight(t, r)'
      BY <1>g, <1>o, <1>r, <1>p, <1>c, <1>s, <1>h, <1>m DEF Working, At, RecordRight,
         Progress, BlobOwned, PathOf, Path, Trusts, R
    <2>5. ScopeRight(t, r)'
      BY <1>g, <1>o, <1>r, <1>p, <1>c, <1>s, <1>h, <1>m DEF Working, At, ScopeRight, PathOf,
         Path
    <2>6. BlobOwned(t, r)'
      BY <1>g, <1>o, <1>r, <1>p, <1>c, <1>s, <1>h, <1>m DEF Working, At, BlobOwned,
         Progress, PathOf, Path, Handle
    <2>7. At(t, "deallocate")' \/ Backed(r)'
      BY <1>g, <1>o, <1>r, <1>p, <1>c, <1>s, <1>h, <1>m DEF Working, At, Backed, Handle
    <2>8. Working(t, r)'
      BY <1>o, <2>1, <2>2, <2>3, <2>4, <2>5, <2>6, <2>7 DEF Working
    <2> QED
      BY <2>1, <2>8 DEF ThreadRule
  <1>4. BlockRule(r)'
    BY <1>g, <1>o, <1>r, <1>p, <1>c, <1>s, <1>h, <1>m DEF Working, At, Progress, Bare,
       BlockRule, Backed, AttributedTo, Bound, Handle, BlobOwned, PathOf, Path
  <1>5. ASSUME NEW x \in Alloc, km[x].rt \in {r, NULL} PROVE AllocRule(x)'
    BY <1>t, <1>5, <1>g, <1>o, <1>r, <1>p, <1>c, <1>s, <1>h, <1>m DEF AllocInv, AllocRule,
       Awaits, Working, Progress, Bare, Handle, At, R, PathOf, Path, BlobOwned
  <1>6. Works(t, r)
    BY <1>g, <1>o, <1>r DEF Works, At
  <1>7. \A x \in Alloc : km[x].rt \in {r, NULL} => AllocRule(x)'
    BY <1>5
  <1> QED
    BY <1>o, <1>1, <1>2, <1>3, <1>4, <1>6, <1>7, StepIsLocal

\* The ICD returns what it had got from the hook for the image.
LEMMA AllocateMemoryFailsKeeps ==
    ASSUME AllocInv, NEW t \in Thread, AllocateMemoryFails(t), UNCHANGED drm
    PROVE  AllocInv'
  <1> USE ResourceAllocAssumption
  <1>t. TypeOK
    BY DEF AllocInv
  <1>r. PICK r : r = R(t)
    OBVIOUS
  <1>g. At(t, "memory")
    BY DEF AllocateMemoryFails, RestoreScope, FreeMemory, RuntimeFree, RecordWithout,
       ClearRecord, NoRecord, Handle, Used, Free, At, R
  <1>o. /\ r \in Resource /\ r # NULL /\ resource[r] \in Block /\ call[t] \in Call
        /\ Working(t, r) /\ Works(t, r) /\ BlockRule(r)
        /\ \A x \in Alloc : km[x].rt = r /\ km[x].by = "hook" =>
              resource[r].memory = x \/ (At(t, "memory") /\ call[t].blob = x)
    BY <1>g, <1>r, AtWork DEF At
  <1>1. TypeOK'
    <2>1. [[resource[r] EXCEPT !.image = FALSE] EXCEPT !.stage = "failed"] \in Block
      BY <1>o, <1>r DEF Block
    <2>2. Idle \in Call
      BY DEF Idle, Call, PC
    <2>3. NoScope \in Scope
      BY DEF NoScope, Scope
    <2>4. NoRecord \in Record
      BY DEF NoRecord, Record
    <2>5. Free \in Allocation
      BY DEF Free, Allocation
    <2> QED
      BY <1>t, <1>o, <1>r, <2>1, <2>2, <2>3, <2>4, <2>5, Types, TypesNext DEF
         AllocateMemoryFails, FreeMemory, RuntimeFree, RecordWithout, ClearRecord,
         RestoreScope, Fail, R
  <1>p. /\ \A s \in Resource : s # r => resource'[s] = resource[s]
        /\ resource'[r].stage = "failed" /\ resource'[r].request = resource[r].request
        /\ resource'[r].hKMAllocation = resource[r].hKMAllocation /\ resource'[r].memory = resource[r].memory
    BY <1>t, <1>g, <1>o, <1>r, Types DEF AllocateMemoryFails, RestoreScope, FreeMemory,
       RuntimeFree, RecordWithout, ClearRecord, NoRecord, Block, Call, Allocation, Record,
       Scope, Fail, Goto, Unused, ClearRecord, NoRecord, RestoreScope, NoScope, Handle, At,
       R, Idle
  <1>c. /\ \A u \in Thread : u # t => call'[u] = call[u]
        /\ call'[t] = Idle
    BY <1>t, <1>g, <1>o, <1>r, Types DEF AllocateMemoryFails, RestoreScope, FreeMemory,
       RuntimeFree, RecordWithout, ClearRecord, NoRecord, Block, Call, Allocation, Record,
       Scope, Fail, Goto, Unused, ClearRecord, NoRecord, RestoreScope, NoScope, Handle, At,
       R, Idle
  <1>s. (\A u \in Thread : u # t => scope'[u] = scope[u]) /\ (\A u \in Thread : u # t => record'[u] = record[u])
    BY <1>t, Types DEF AllocateMemoryFails, RestoreScope, FreeMemory, RuntimeFree,
       RecordWithout, ClearRecord, NoRecord
  <1>h. Handle(r) \in Alloc \union {NULL}
    BY <1>o DEF Block, Handle
  <1>v. call[t].blob # NULL => Handle(r) = NULL
    BY <1>g, <1>o DEF Working, Progress, BlobOwned, At
  <1>k. \A x \in Alloc : ~((x = call[t].blob /\ km[x].by = "hook")) => km'[x] = km[x]
    BY <1>t, <1>g, <1>o, <1>r, Types DEF AllocateMemoryFails, FreeMemory, RuntimeFree,
       RecordWithout, ClearRecord, NoRecord, Free, R, Handle, Allocation
  <1>l. \A x \in Alloc : (x = call[t].blob /\ km[x].by = "hook") => km'[x].rt = NULL /\ km'[x].by = "nobody" /\ ~km'[x].primary
    BY <1>t, <1>g, <1>o, <1>r, Types DEF AllocateMemoryFails, FreeMemory, RuntimeFree,
       RecordWithout, ClearRecord, NoRecord, Free, R, Handle, Allocation
  <1>2. Touches(t, r)
    BY <1>g, <1>o, <1>r, <1>p, <1>c, <1>s, <1>h, <1>v, <1>k, <1>l DEF Touches, Idle,
       Working, BlobOwned, At
  <1>3. ThreadRule(t)'
    BY <1>p, <1>c, <1>s, <1>h, <1>v, <1>k, <1>l DEF ThreadRule, At, Idle
  <1>4. BlockRule(r)'
    <2>1. resource'[r].stage = "busy" \/ Backed(r)'
      BY <1>t, <1>g, <1>o, <1>r, <1>p, <1>c, <1>s, <1>h, <1>v, <1>k, <1>l DEF Working, At,
         Progress, BlockRule, Backed, Handle
    <2>2. AttributedTo(r)'
      BY <1>t, <1>g, <1>o, <1>r, <1>p, <1>c, <1>s, <1>h, <1>v, <1>k, <1>l DEF Working, At,
         Progress, BlockRule, AttributedTo, Backed, Bound, Handle, PathOf, Path, Bare,
         PresentRequest
    <2>3. resource'[r].memory \in Alloc => km'[resource'[r].memory].rt = r
      BY <1>t, <1>g, <1>o, <1>r, <1>p, <1>c, <1>s, <1>h, <1>v, <1>k, <1>l DEF Working, At,
         Progress, BlockRule, Bare
    <2>4. resource'[r].stage = "live" /\ resource'[r].request \in PresentRequest => km'[Handle(r)'].resident
      BY <1>t, <1>g, <1>o, <1>r, <1>p, <1>c, <1>s, <1>h, <1>v, <1>k, <1>l DEF Working, At,
         Progress, BlockRule, ResidentInTime, Bound, PresentRequest, PathOf, Path, Handle
    <2> QED
      BY <2>1, <2>2, <2>3, <2>4 DEF BlockRule
  <1>5. ASSUME NEW x \in Alloc, km[x].rt \in {r, NULL} PROVE AllocRule(x)'
    BY <1>t, <1>5, <1>g, <1>o, <1>r, <1>p, <1>c, <1>s, <1>h, <1>v, <1>k, <1>l DEF AllocInv,
       AllocRule, Awaits, Working, Progress, Bare, Handle, At, R, PathOf, Path
  <1>6. Works(t, r)
    BY <1>g, <1>o, <1>r DEF Works, At
  <1>7. \A x \in Alloc : km[x].rt \in {r, NULL} => AllocRule(x)'
    BY <1>5
  <1> QED
    BY <1>o, <1>1, <1>2, <1>3, <1>4, <1>6, <1>7, StepIsLocal

\* A record that names the resource is the one of the memory bound before.
LEMMA RecordTrustedKeeps ==
    ASSUME AllocInv, NEW t \in Thread, CheckRecord(t), Trusts(t), UNCHANGED drm
    PROVE  AllocInv'
  <1> USE ResourceAllocAssumption
  <1>t. TypeOK
    BY DEF AllocInv
  <1>r. PICK r : r = R(t)
    OBVIOUS
  <1>g. At(t, "record")
    BY DEF CheckRecord, Handle, Used, Free, At, R
  <1>o. /\ r \in Resource /\ r # NULL /\ resource[r] \in Block /\ call[t] \in Call
        /\ Working(t, r) /\ Works(t, r) /\ BlockRule(r)
        /\ \A x \in Alloc : km[x].rt = r /\ km[x].by = "hook" =>
              resource[r].memory = x \/ (At(t, "memory") /\ call[t].blob = x)
    BY <1>g, <1>r, AtWork DEF At
  <1>1. TypeOK'
    <2>1. [resource[r] EXCEPT !.hKMAllocation = record[t].hAllocation] \in Block
      BY <1>o, <1>r, <1>t, Types DEF Block, Record
    <2>2. [call[t] EXCEPT !.pc = AfterRecord(t)] \in Call
      BY <1>o, <1>r DEF Call, PC, AfterRecord
    <2> QED
      BY <1>t, <1>o, <1>r, <2>1, <2>2, Types, TypesNext DEF CheckRecord, Goto, R
  <1>p. /\ \A s \in Resource : s # r => resource'[s] = resource[s]
        /\ resource'[r].stage = resource[r].stage /\ resource'[r].request = resource[r].request
        /\ resource'[r].hKMAllocation = record[t].hAllocation /\ resource'[r].memory = resource[r].memory
    BY <1>t, <1>g, <1>o, <1>r, Types DEF CheckRecord, Block, Call, Allocation, Record,
       Scope, Fail, Goto, Unused, ClearRecord, NoRecord, RestoreScope, NoScope, Handle, At,
       R, Idle
  <1>c. /\ \A u \in Thread : u # t => call'[u] = call[u]
        /\ call'[t].pc = (AfterRecord(t)) /\ call'[t].r = r /\ call'[t].blob = call[t].blob
    BY <1>t, <1>g, <1>o, <1>r, Types DEF CheckRecord, Goto, Call, At, R
  <1>s. record' = record /\ scope' = scope /\ km' = km
    BY <1>t, <1>g, <1>o, <1>r, Types DEF CheckRecord, Block, Call, Allocation, Record,
       Scope, Fail, Goto, Unused, ClearRecord, NoRecord, RestoreScope, NoScope, Handle, At,
       R, Idle
  <1>h. record[t].hAllocation \in Alloc /\ record[t].hAllocation = resource[r].memory
    BY <1>t, <1>g, <1>o, Types DEF Working, Progress, RecordRight, Trusts, Record, At
  <1>m. km[resource[r].memory].rt = r
    BY <1>h, <1>o DEF BlockRule
  <1>l. AfterRecord(t) = IF Linear(resource[r].request) THEN "resident" ELSE "publish"
    BY <1>r DEF AfterRecord, R
  <1>2. Touches(t, r)
    BY <1>g, <1>o, <1>r, <1>p, <1>c, <1>s, <1>h, <1>m, <1>l DEF Touches, Idle
  <1>3. ThreadRule(t)'
    <2>1. R(t)' = r /\ ~At(t, "idle")' /\ resource'[r].stage = "busy"
      BY <1>g, <1>o, <1>r, <1>p, <1>c, <1>s, <1>h, <1>m, <1>l DEF Working, At, R
    <2>2. Progress(t, r)'
      BY <1>g, <1>o, <1>r, <1>p, <1>c, <1>s, <1>h, <1>m, <1>l DEF Working, At, Progress,
         PathOf, Path, Bound, Bare, Handle
    <2>3. ResidentInTime(t, r)'
      BY <1>g, <1>o, <1>r, <1>p, <1>c, <1>s, <1>h, <1>m, <1>l DEF Working, At,
         ResidentInTime, Progress, PathOf, Path, PresentRequest, Bound, Handle, Linear
    <2>4. RecordRight(t, r)'
      BY <1>g, <1>o, <1>r, <1>p, <1>c, <1>s, <1>h, <1>m, <1>l DEF Working, At, RecordRight,
         Progress, BlobOwned, PathOf, Path, Trusts, R
    <2>5. ScopeRight(t, r)'
      BY <1>g, <1>o, <1>r, <1>p, <1>c, <1>s, <1>h, <1>m, <1>l DEF Working, At, ScopeRight,
         PathOf, Path
    <2>6. BlobOwned(t, r)'
      BY <1>g, <1>o, <1>r, <1>p, <1>c, <1>s, <1>h, <1>m, <1>l DEF Working, At, BlobOwned,
         Progress, PathOf, Path, Handle
    <2>7. At(t, "deallocate")' \/ Backed(r)'
      BY <1>g, <1>o, <1>r, <1>p, <1>c, <1>s, <1>h, <1>m, <1>l DEF Working, At, Backed, Handle
    <2>8. Working(t, r)'
      BY <1>o, <2>1, <2>2, <2>3, <2>4, <2>5, <2>6, <2>7 DEF Working
    <2> QED
      BY <2>1, <2>8 DEF ThreadRule
  <1>4. BlockRule(r)'
    BY <1>g, <1>o, <1>r, <1>p, <1>c, <1>s, <1>h, <1>m, <1>l DEF Working, At, Progress, Bare,
       BlockRule, Backed, AttributedTo, Bound, Handle
  <1>5. ASSUME NEW x \in Alloc, km[x].rt \in {r, NULL} PROVE AllocRule(x)'
    BY <1>t, <1>5, <1>g, <1>o, <1>r, <1>p, <1>c, <1>s, <1>h, <1>m, <1>l DEF AllocInv,
       AllocRule, Awaits, Working, Progress, Bare, Handle, At, R, PathOf, Path, Bound
  <1>6. Works(t, r)
    BY <1>g, <1>o, <1>r DEF Works, At
  <1>7. \A x \in Alloc : km[x].rt \in {r, NULL} => AllocRule(x)'
    BY <1>5
  <1> QED
    BY <1>o, <1>1, <1>2, <1>3, <1>4, <1>6, <1>7, StepIsLocal

\* A record of something else fails the creation.
LEMMA RecordDistrustedKeeps ==
    ASSUME AllocInv, NEW t \in Thread, CheckRecord(t), ~Trusts(t), UNCHANGED drm
    PROVE  AllocInv'
  <1> USE ResourceAllocAssumption
  <1>t. TypeOK
    BY DEF AllocInv
  <1>r. PICK r : r = R(t)
    OBVIOUS
  <1>g. At(t, "record")
    BY DEF CheckRecord, Handle, Used, Free, At, R
  <1>o. /\ r \in Resource /\ r # NULL /\ resource[r] \in Block /\ call[t] \in Call
        /\ Working(t, r) /\ Works(t, r) /\ BlockRule(r)
        /\ \A x \in Alloc : km[x].rt = r /\ km[x].by = "hook" =>
              resource[r].memory = x \/ (At(t, "memory") /\ call[t].blob = x)
    BY <1>g, <1>r, AtWork DEF At
  <1>1. TypeOK'
    <2>1. [resource[r] EXCEPT !.stage = "failed"] \in Block
      BY <1>o, <1>r DEF Block
    <2>2. Idle \in Call
      BY DEF Idle, Call, PC
    <2> QED
      BY <1>t, <1>o, <1>r, <2>1, <2>2, Types, TypesNext DEF CheckRecord, Fail, R
  <1>p. /\ \A s \in Resource : s # r => resource'[s] = resource[s]
        /\ resource'[r].stage = "failed" /\ resource'[r].request = resource[r].request
        /\ resource'[r].hKMAllocation = resource[r].hKMAllocation /\ resource'[r].memory = resource[r].memory
    BY <1>t, <1>g, <1>o, <1>r, Types DEF CheckRecord, Block, Call, Allocation, Record,
       Scope, Fail, Goto, Unused, ClearRecord, NoRecord, RestoreScope, NoScope, Handle, At,
       R, Idle
  <1>c. /\ \A u \in Thread : u # t => call'[u] = call[u]
        /\ call'[t] = Idle
    BY <1>t, <1>g, <1>o, <1>r, Types DEF CheckRecord, Block, Call, Allocation, Record,
       Scope, Fail, Goto, Unused, ClearRecord, NoRecord, RestoreScope, NoScope, Handle, At,
       R, Idle
  <1>s. record' = record /\ scope' = scope /\ km' = km
    BY <1>t, <1>g, <1>o, <1>r, Types DEF CheckRecord, Block, Call, Allocation, Record,
       Scope, Fail, Goto, Unused, ClearRecord, NoRecord, RestoreScope, NoScope, Handle, At,
       R, Idle
  <1>2. Touches(t, r)
    BY <1>g, <1>o, <1>r, <1>p, <1>c, <1>s DEF Touches, Idle
  <1>3. ThreadRule(t)'
    BY <1>p, <1>c, <1>s DEF ThreadRule, At, Idle
  <1>4. BlockRule(r)'
    <2>1. resource'[r].stage = "busy" \/ Backed(r)'
      BY <1>t, <1>g, <1>o, <1>r, <1>p, <1>c, <1>s DEF Working, At, Progress, BlockRule,
         Backed, Handle
    <2>2. AttributedTo(r)'
      BY <1>t, <1>g, <1>o, <1>r, <1>p, <1>c, <1>s DEF Working, At, Progress, BlockRule,
         AttributedTo, Backed, Bound, Handle, PathOf, Path, Bare, PresentRequest
    <2>3. resource'[r].memory \in Alloc => km'[resource'[r].memory].rt = r
      BY <1>t, <1>g, <1>o, <1>r, <1>p, <1>c, <1>s DEF Working, At, Progress, BlockRule, Bare
    <2>4. resource'[r].stage = "live" /\ resource'[r].request \in PresentRequest => km'[Handle(r)'].resident
      BY <1>t, <1>g, <1>o, <1>r, <1>p, <1>c, <1>s DEF Working, At, Progress, BlockRule,
         ResidentInTime, Bound, PresentRequest, PathOf, Path, Handle
    <2> QED
      BY <2>1, <2>2, <2>3, <2>4 DEF BlockRule
  <1>5. ASSUME NEW x \in Alloc, km[x].rt \in {r, NULL} PROVE AllocRule(x)'
    BY <1>t, <1>5, <1>g, <1>o, <1>r, <1>p, <1>c, <1>s DEF AllocInv, AllocRule, Awaits,
       Working, Progress, Bare, Handle, At, R, PathOf, Path
  <1>6. Works(t, r)
    BY <1>g, <1>o, <1>r DEF Works, At
  <1>7. \A x \in Alloc : km[x].rt \in {r, NULL} => AllocRule(x)'
    BY <1>5
  <1> QED
    BY <1>o, <1>1, <1>2, <1>3, <1>4, <1>6, <1>7, StepIsLocal

\* Publication changes nothing here.
LEMMA PublishKeeps ==
    ASSUME AllocInv, NEW t \in Thread, Publish(t), UNCHANGED drm
    PROVE  AllocInv'
  <1> USE ResourceAllocAssumption
  <1>t. TypeOK
    BY DEF AllocInv
  <1>r. PICK r : r = R(t)
    OBVIOUS
  <1>g. At(t, "publish")
    BY DEF Publish, Handle, Used, Free, At, R
  <1>o. /\ r \in Resource /\ r # NULL /\ resource[r] \in Block /\ call[t] \in Call
        /\ Working(t, r) /\ Works(t, r) /\ BlockRule(r)
        /\ \A x \in Alloc : km[x].rt = r /\ km[x].by = "hook" =>
              resource[r].memory = x \/ (At(t, "memory") /\ call[t].blob = x)
    BY <1>g, <1>r, AtWork DEF At
  <1>1. TypeOK'
    <2>1. [call[t] EXCEPT !.pc = "import"] \in Call
      BY <1>o, <1>r DEF Call, PC
    <2> QED
      BY <1>t, <1>o, <1>r, <2>1, Types, TypesNext DEF Publish, Goto, R
  <1>c. /\ \A u \in Thread : u # t => call'[u] = call[u]
        /\ call'[t].pc = ("import") /\ call'[t].r = r /\ call'[t].blob = call[t].blob
    BY <1>t, <1>g, <1>o, <1>r, Types DEF Publish, Block, Call, Allocation, Record, Scope,
       Fail, Goto, Unused, ClearRecord, NoRecord, RestoreScope, NoScope, Handle, At, R, Idle
  <1>s. resource' = resource /\ record' = record /\ scope' = scope /\ km' = km
    BY <1>t, <1>g, <1>o, <1>r, Types DEF Publish, Block, Call, Allocation, Record, Scope,
       Fail, Goto, Unused, ClearRecord, NoRecord, RestoreScope, NoScope, Handle, At, R, Idle
  <1>2. Touches(t, r)
    BY <1>g, <1>o, <1>r, <1>c, <1>s DEF Touches, Idle
  <1>3. ThreadRule(t)'
    <2>1. R(t)' = r /\ ~At(t, "idle")' /\ resource'[r].stage = "busy"
      BY <1>g, <1>o, <1>r, <1>c, <1>s DEF Working, At, R
    <2>2. Progress(t, r)'
      BY <1>g, <1>o, <1>r, <1>c, <1>s DEF Working, At, Progress, PathOf, Path, Bound, Bare,
         Handle
    <2>3. ResidentInTime(t, r)'
      BY <1>g, <1>o, <1>r, <1>c, <1>s DEF Working, At, ResidentInTime, Progress, PathOf,
         Path, PresentRequest, Bound, Handle
    <2>4. RecordRight(t, r)'
      BY <1>g, <1>o, <1>r, <1>c, <1>s DEF Working, At, RecordRight, Progress, BlobOwned,
         PathOf, Path, Trusts, R
    <2>5. ScopeRight(t, r)'
      BY <1>g, <1>o, <1>r, <1>c, <1>s DEF Working, At, ScopeRight, PathOf, Path
    <2>6. BlobOwned(t, r)'
      BY <1>g, <1>o, <1>r, <1>c, <1>s DEF Working, At, BlobOwned, Progress, PathOf, Path, Handle
    <2>7. At(t, "deallocate")' \/ Backed(r)'
      BY <1>g, <1>o, <1>r, <1>c, <1>s DEF Working, At, Backed, Handle
    <2>8. Working(t, r)'
      BY <1>o, <2>1, <2>2, <2>3, <2>4, <2>5, <2>6, <2>7 DEF Working
    <2> QED
      BY <2>1, <2>8 DEF ThreadRule
  <1>4. BlockRule(r)'
    BY <1>g, <1>o, <1>r, <1>c, <1>s DEF Working, At, Progress, Bare, BlockRule, Backed,
       AttributedTo, Bound, Handle
  <1>5. ASSUME NEW x \in Alloc, km[x].rt \in {r, NULL} PROVE AllocRule(x)'
    BY <1>t, <1>5, <1>g, <1>o, <1>r, <1>c, <1>s DEF AllocInv, AllocRule, Awaits, Working,
       Progress, Bare, Handle, At, R, PathOf, Path
  <1>6. Works(t, r)
    BY <1>g, <1>o, <1>r DEF Works, At
  <1>7. \A x \in Alloc : km[x].rt \in {r, NULL} => AllocRule(x)'
    BY <1>5
  <1> QED
    BY <1>o, <1>1, <1>2, <1>3, <1>4, <1>6, <1>7, StepIsLocal

\* The creation is complete: the block is attributed and resident.
LEMMA CompleteKeeps ==
    ASSUME AllocInv, NEW t \in Thread, Complete(t), UNCHANGED drm
    PROVE  AllocInv'
  <1> USE ResourceAllocAssumption
  <1>t. TypeOK
    BY DEF AllocInv
  <1>r. PICK r : r = R(t)
    OBVIOUS
  <1>g. At(t, "import") \/ At(t, "object")
    BY DEF Complete, Handle, Used, Free, At, R
  <1>o. /\ r \in Resource /\ r # NULL /\ resource[r] \in Block /\ call[t] \in Call
        /\ Working(t, r) /\ Works(t, r) /\ BlockRule(r)
        /\ \A x \in Alloc : km[x].rt = r /\ km[x].by = "hook" =>
              resource[r].memory = x \/ (At(t, "memory") /\ call[t].blob = x)
    BY <1>g, <1>r, AtWork DEF At
  <1>1. TypeOK'
    <2>1. [resource[r] EXCEPT !.pResource = TRUE, !.stage = "live"] \in Block
      BY <1>o, <1>r DEF Block
    <2>2. Idle \in Call
      BY DEF Idle, Call, PC
    <2> QED
      BY <1>t, <1>o, <1>r, <2>1, <2>2, Types, TypesNext DEF Complete, R
  <1>p. /\ \A s \in Resource : s # r => resource'[s] = resource[s]
        /\ resource'[r].stage = "live" /\ resource'[r].request = resource[r].request
        /\ resource'[r].hKMAllocation = resource[r].hKMAllocation /\ resource'[r].memory = resource[r].memory
    BY <1>t, <1>g, <1>o, <1>r, Types DEF Complete, Block, Call, Allocation, Record, Scope,
       Fail, Goto, Unused, ClearRecord, NoRecord, RestoreScope, NoScope, Handle, At, R, Idle
  <1>c. /\ \A u \in Thread : u # t => call'[u] = call[u]
        /\ call'[t] = Idle
    BY <1>t, <1>g, <1>o, <1>r, Types DEF Complete, Block, Call, Allocation, Record, Scope,
       Fail, Goto, Unused, ClearRecord, NoRecord, RestoreScope, NoScope, Handle, At, R, Idle
  <1>s. record' = record /\ scope' = scope /\ km' = km
    BY <1>t, <1>g, <1>o, <1>r, Types DEF Complete, Block, Call, Allocation, Record, Scope,
       Fail, Goto, Unused, ClearRecord, NoRecord, RestoreScope, NoScope, Handle, At, R, Idle
  <1>2. Touches(t, r)
    BY <1>g, <1>o, <1>r, <1>p, <1>c, <1>s DEF Touches, Idle
  <1>3. ThreadRule(t)'
    BY <1>p, <1>c, <1>s DEF ThreadRule, At, Idle
  <1>4. BlockRule(r)'
    <2>1. resource'[r].stage = "busy" \/ Backed(r)'
      BY <1>t, <1>g, <1>o, <1>r, <1>p, <1>c, <1>s DEF Working, At, Progress, BlockRule,
         Backed, Handle
    <2>2. AttributedTo(r)'
      BY <1>t, <1>g, <1>o, <1>r, <1>p, <1>c, <1>s DEF Working, At, Progress, BlockRule,
         AttributedTo, Backed, Bound, Handle, PathOf, Path, Bare, PresentRequest
    <2>3. resource'[r].memory \in Alloc => km'[resource'[r].memory].rt = r
      BY <1>t, <1>g, <1>o, <1>r, <1>p, <1>c, <1>s DEF Working, At, Progress, BlockRule, Bare
    <2>4. resource'[r].stage = "live" /\ resource'[r].request \in PresentRequest => km'[Handle(r)'].resident
      BY <1>t, <1>g, <1>o, <1>r, <1>p, <1>c, <1>s DEF Working, At, Progress, BlockRule,
         ResidentInTime, Bound, PresentRequest, PathOf, Path, Handle
    <2> QED
      BY <2>1, <2>2, <2>3, <2>4 DEF BlockRule
  <1>5. ASSUME NEW x \in Alloc, km[x].rt \in {r, NULL} PROVE AllocRule(x)'
    BY <1>t, <1>5, <1>g, <1>o, <1>r, <1>p, <1>c, <1>s DEF AllocInv, AllocRule, Awaits,
       Working, Progress, Bare, Handle, At, R, PathOf, Path
  <1>6. Works(t, r)
    BY <1>g, <1>o, <1>r DEF Works, At
  <1>7. \A x \in Alloc : km[x].rt \in {r, NULL} => AllocRule(x)'
    BY <1>5
  <1> QED
    BY <1>o, <1>1, <1>2, <1>3, <1>4, <1>6, <1>7, StepIsLocal

\* A failure that leaves what it found.
LEMMA StepFailsKeeps ==
    ASSUME AllocInv, NEW t \in Thread, StepFails(t), UNCHANGED drm
    PROVE  AllocInv'
  <1> USE ResourceAllocAssumption
  <1>t. TypeOK
    BY DEF AllocInv
  <1>r. PICK r : r = R(t)
    OBVIOUS
  <1>g. call[t].pc \in {"allocate", "resident", "publish", "import", "object"}
    BY DEF StepFails, Handle, Used, Free, At, R
  <1>o. /\ r \in Resource /\ r # NULL /\ resource[r] \in Block /\ call[t] \in Call
        /\ Working(t, r) /\ Works(t, r) /\ BlockRule(r)
        /\ \A x \in Alloc : km[x].rt = r /\ km[x].by = "hook" =>
              resource[r].memory = x \/ (At(t, "memory") /\ call[t].blob = x)
    BY <1>g, <1>r, AtWork DEF At
  <1>1. TypeOK'
    <2>1. [resource[r] EXCEPT !.stage = "failed"] \in Block
      BY <1>o, <1>r DEF Block
    <2>2. Idle \in Call
      BY DEF Idle, Call, PC
    <2> QED
      BY <1>t, <1>o, <1>r, <2>1, <2>2, Types, TypesNext DEF StepFails, Fail, R
  <1>p. /\ \A s \in Resource : s # r => resource'[s] = resource[s]
        /\ resource'[r].stage = "failed" /\ resource'[r].request = resource[r].request
        /\ resource'[r].hKMAllocation = resource[r].hKMAllocation /\ resource'[r].memory = resource[r].memory
    BY <1>t, <1>g, <1>o, <1>r, Types DEF StepFails, Block, Call, Allocation, Record, Scope,
       Fail, Goto, Unused, ClearRecord, NoRecord, RestoreScope, NoScope, Handle, At, R, Idle
  <1>c. /\ \A u \in Thread : u # t => call'[u] = call[u]
        /\ call'[t] = Idle
    BY <1>t, <1>g, <1>o, <1>r, Types DEF StepFails, Block, Call, Allocation, Record, Scope,
       Fail, Goto, Unused, ClearRecord, NoRecord, RestoreScope, NoScope, Handle, At, R, Idle
  <1>s. record' = record /\ scope' = scope /\ km' = km
    BY <1>t, <1>g, <1>o, <1>r, Types DEF StepFails, Block, Call, Allocation, Record, Scope,
       Fail, Goto, Unused, ClearRecord, NoRecord, RestoreScope, NoScope, Handle, At, R, Idle
  <1>2. Touches(t, r)
    BY <1>g, <1>o, <1>r, <1>p, <1>c, <1>s DEF Touches, Idle
  <1>3. ThreadRule(t)'
    BY <1>p, <1>c, <1>s DEF ThreadRule, At, Idle
  <1>4. BlockRule(r)'
    <2>1. resource'[r].stage = "busy" \/ Backed(r)'
      BY <1>t, <1>g, <1>o, <1>r, <1>p, <1>c, <1>s DEF Working, At, Progress, BlockRule,
         Backed, Handle
    <2>2. AttributedTo(r)'
      BY <1>t, <1>g, <1>o, <1>r, <1>p, <1>c, <1>s DEF Working, At, Progress, BlockRule,
         AttributedTo, Backed, Bound, Handle, PathOf, Path, Bare, PresentRequest
    <2>3. resource'[r].memory \in Alloc => km'[resource'[r].memory].rt = r
      BY <1>t, <1>g, <1>o, <1>r, <1>p, <1>c, <1>s DEF Working, At, Progress, BlockRule, Bare
    <2>4. resource'[r].stage = "live" /\ resource'[r].request \in PresentRequest => km'[Handle(r)'].resident
      BY <1>t, <1>g, <1>o, <1>r, <1>p, <1>c, <1>s DEF Working, At, Progress, BlockRule,
         ResidentInTime, Bound, PresentRequest, PathOf, Path, Handle
    <2> QED
      BY <2>1, <2>2, <2>3, <2>4 DEF BlockRule
  <1>5. ASSUME NEW x \in Alloc, km[x].rt \in {r, NULL} PROVE AllocRule(x)'
    BY <1>t, <1>5, <1>g, <1>o, <1>r, <1>p, <1>c, <1>s DEF AllocInv, AllocRule, Awaits,
       Working, Progress, Bare, Handle, At, R, PathOf, Path
  <1>6. Works(t, r)
    BY <1>g, <1>o, <1>r DEF Works, At
  <1>7. \A x \in Alloc : km[x].rt \in {r, NULL} => AllocRule(x)'
    BY <1>5
  <1> QED
    BY <1>o, <1>1, <1>2, <1>3, <1>4, <1>6, <1>7, StepIsLocal

\* An opened allocation belongs to the runtime.
LEMMA OpenResourceKeeps ==
    ASSUME AllocInv, NEW t \in Thread, NEW r \in Resource, NEW a \in Alloc,
           OpenResource(t, r, a), UNCHANGED drm
    PROVE  AllocInv'
  <1> USE ResourceAllocAssumption
  <1>t. TypeOK
    BY DEF AllocInv
  <1>g. At(t, "idle") /\ resource[r].stage = "unused" /\ km[a].rt = NULL
    BY DEF OpenResource, Opened, Handle, Used, Free, At, R
  <1>o. /\ r # NULL /\ resource[r] \in Block /\ BlockRule(r)
        /\ \A x \in Alloc : km[x].rt = r /\ km[x].by = "hook" => resource[r].memory = x
    BY <1>g, AtRest
  <1>1. TypeOK'
    <2>1. [Unused EXCEPT !.stage = "busy", !.request = "opened", !.hKMAllocation = a] \in Block
      BY DEF Unused, Block, Request
    <2>2. [pc |-> "image", r |-> r, blob |-> NULL] \in Call
      BY DEF Call, PC
    <2>3. Opened(r) \in Allocation
      BY DEF Opened, Allocation
    <2> QED
      BY <1>t, <2>1, <2>2, <2>3, Types, TypesNext DEF OpenResource
  <1>u. \A s \in Resource : s # r => resource'[s] = resource[s]
    BY <1>t, <1>g, <1>o, Types DEF OpenResource, Opened, Block, Call, Allocation, Record,
       Scope, Fail, Goto, Unused, ClearRecord, NoRecord, RestoreScope, NoScope, Handle, At,
       R, Idle
  <1>p. resource'[r].stage = "busy" /\ resource'[r].request = "opened"
        /\ resource'[r].hKMAllocation = a /\ resource'[r].memory = NULL
    BY <1>t, <1>g, <1>o, Types DEF OpenResource, Opened, Block, Call, Allocation, Record,
       Scope, Fail, Goto, Unused, ClearRecord, NoRecord, RestoreScope, NoScope, Handle, At,
       R, Idle
  <1>c. /\ \A u \in Thread : u # t => call'[u] = call[u]
        /\ call'[t].pc = ("image") /\ call'[t].r = r /\ call'[t].blob = NULL
    BY <1>t, Types DEF OpenResource
  <1>s. record' = record /\ scope' = scope
    BY <1>t, <1>g, <1>o, Types DEF OpenResource, Opened, Block, Call, Allocation, Record,
       Scope, Fail, Goto, Unused, ClearRecord, NoRecord, RestoreScope, NoScope, Handle, At,
       R, Idle
  <1>k. \A x \in Alloc : x # a => km'[x] = km[x]
    BY <1>t, Types DEF OpenResource
  <1>l. km'[a].rt = r /\ km'[a].by = "runtime" /\ ~km'[a].primary
    BY <1>t, Types DEF OpenResource, Opened
  <1>2. Touches(t, r)
    BY <1>g, <1>o, <1>u, <1>p, <1>c, <1>s, <1>k, <1>l DEF Touches, Idle
  <1>3. ThreadRule(t)'
    <2>1. R(t)' = r /\ ~At(t, "idle")' /\ resource'[r].stage = "busy"
      BY <1>g, <1>o, <1>u, <1>p, <1>c, <1>s, <1>k, <1>l DEF Working, At, R
    <2>2. Progress(t, r)'
      BY <1>g, <1>o, <1>u, <1>p, <1>c, <1>s, <1>k, <1>l DEF At, Progress, PathOf, Path,
         Bound, Bare, Handle
    <2>3. ResidentInTime(t, r)'
      BY <1>g, <1>o, <1>u, <1>p, <1>c, <1>s, <1>k, <1>l DEF At, ResidentInTime, Progress,
         PathOf, Path, PresentRequest, Bound, Handle
    <2>4. RecordRight(t, r)'
      BY <1>g, <1>o, <1>u, <1>p, <1>c, <1>s, <1>k, <1>l DEF At, RecordRight, Progress,
         BlobOwned, PathOf, Path, Trusts, R
    <2>5. ScopeRight(t, r)'
      BY <1>g, <1>o, <1>u, <1>p, <1>c, <1>s, <1>k, <1>l DEF At, ScopeRight, PathOf, Path
    <2>6. BlobOwned(t, r)'
      BY <1>g, <1>o, <1>u, <1>p, <1>c, <1>s, <1>k, <1>l DEF At, BlobOwned, Progress, PathOf,
         Path, Handle
    <2>7. At(t, "deallocate")' \/ Backed(r)'
      BY <1>g, <1>o, <1>u, <1>p, <1>c, <1>s, <1>k, <1>l DEF At, Backed, Handle
    <2>8. Working(t, r)'
      BY <1>o, <2>1, <2>2, <2>3, <2>4, <2>5, <2>6, <2>7 DEF Working
    <2> QED
      BY <2>1, <2>8 DEF ThreadRule
  <1>4. BlockRule(r)'
    <2>1. resource'[r].stage = "busy" \/ Backed(r)'
      BY <1>t, <1>g, <1>o, <1>u, <1>p, <1>c, <1>s, <1>k, <1>l DEF Progress, BlockRule,
         Backed, Handle
    <2>2. AttributedTo(r)'
      BY <1>t, <1>g, <1>o, <1>u, <1>p, <1>c, <1>s, <1>k, <1>l DEF Progress, BlockRule,
         AttributedTo, Backed, Bound, Handle, PathOf, Path, Bare, PresentRequest
    <2>3. resource'[r].memory \in Alloc => km'[resource'[r].memory].rt = r
      BY <1>t, <1>g, <1>o, <1>u, <1>p, <1>c, <1>s, <1>k, <1>l DEF Progress, BlockRule, Bare
    <2>4. resource'[r].stage = "live" /\ resource'[r].request \in PresentRequest => km'[Handle(r)'].resident
      BY <1>t, <1>g, <1>o, <1>u, <1>p, <1>c, <1>s, <1>k, <1>l DEF Progress, BlockRule,
         ResidentInTime, Bound, PresentRequest, PathOf, Path, Handle
    <2> QED
      BY <2>1, <2>2, <2>3, <2>4 DEF BlockRule
  <1>5. ASSUME NEW x \in Alloc, km[x].rt \in {r, NULL} PROVE AllocRule(x)'
    BY <1>t, <1>5, <1>g, <1>o, <1>u, <1>p, <1>c, <1>s, <1>k, <1>l DEF AllocInv, AllocRule,
       Awaits, Working, Progress, Bare, Handle, At, R, PathOf, Path
  <1>6. Works(t, r)
    BY <1>g, <1>o DEF Works, At
  <1>7. \A x \in Alloc : km[x].rt \in {r, NULL} => AllocRule(x)'
    BY <1>5
  <1> QED
    BY <1>1, <1>2, <1>3, <1>4, <1>6, <1>7, StepIsLocal

\* An opening that fails, with the handle stored or not.
LEMMA OpenResourceFailsKeeps ==
    ASSUME AllocInv, NEW t \in Thread, NEW r \in Resource, NEW a \in Alloc,
           NEW stored \in BOOLEAN, OpenResourceFails(t, r, a, stored), UNCHANGED drm
    PROVE  AllocInv'
  <1> USE ResourceAllocAssumption
  <1>t. TypeOK
    BY DEF AllocInv
  <1>g. At(t, "idle") /\ resource[r].stage = "unused" /\ km[a].rt = NULL
    BY DEF OpenResourceFails, Opened, Handle, Used, Free, At, R
  <1>o. /\ r # NULL /\ resource[r] \in Block /\ BlockRule(r)
        /\ \A x \in Alloc : km[x].rt = r /\ km[x].by = "hook" => resource[r].memory = x
    BY <1>g, AtRest
  <1>1. TypeOK'
    <2>1. [Unused EXCEPT !.stage = "failed", !.request = "opened",
                        !.hKMAllocation = IF stored THEN a ELSE NULL] \in Block
      BY DEF Unused, Block, Request
    <2>2. Opened(r) \in Allocation
      BY DEF Opened, Allocation
    <2> QED
      BY <1>t, <2>1, <2>2, Types, TypesNext DEF OpenResourceFails
  <1>u. \A s \in Resource : s # r => resource'[s] = resource[s]
    BY <1>t, <1>g, <1>o, Types DEF OpenResourceFails, Opened, Block, Call, Allocation,
       Record, Scope, Fail, Goto, Unused, ClearRecord, NoRecord, RestoreScope, NoScope,
       Handle, At, R, Idle
  <1>p. resource'[r].stage = "failed" /\ resource'[r].request = "opened"
        /\ resource'[r].hKMAllocation = (IF stored THEN a ELSE NULL) /\ resource'[r].memory = NULL
    BY <1>t, <1>g, <1>o, Types DEF OpenResourceFails, Opened, Block, Call, Allocation,
       Record, Scope, Fail, Goto, Unused, ClearRecord, NoRecord, RestoreScope, NoScope,
       Handle, At, R, Idle
  <1>s. call' = call /\ record' = record /\ scope' = scope
    BY <1>t, <1>g, <1>o, Types DEF OpenResourceFails, Opened, Block, Call, Allocation,
       Record, Scope, Fail, Goto, Unused, ClearRecord, NoRecord, RestoreScope, NoScope,
       Handle, At, R, Idle
  <1>k. \A x \in Alloc : x # a => km'[x] = km[x]
    BY <1>t, Types DEF OpenResourceFails
  <1>l. km'[a].rt = r /\ km'[a].by = "runtime" /\ ~km'[a].primary
    BY <1>t, Types DEF OpenResourceFails, Opened
  <1>2. Touches(t, r)
    BY <1>g, <1>o, <1>u, <1>p, <1>s, <1>k, <1>l DEF Touches, Idle, AllocInv, ThreadRule, At,
       Idle
  <1>3. ThreadRule(t)'
    BY <1>t, <1>g, <1>s DEF AllocInv, ThreadRule, At
  <1>4. BlockRule(r)'
    <2>1. resource'[r].stage = "busy" \/ Backed(r)'
      BY <1>t, <1>g, <1>o, <1>u, <1>p, <1>s, <1>k, <1>l DEF Progress, BlockRule, Backed, Handle
    <2>2. AttributedTo(r)'
      BY <1>t, <1>g, <1>o, <1>u, <1>p, <1>s, <1>k, <1>l DEF Progress, BlockRule,
         AttributedTo, Backed, Bound, Handle, PathOf, Path, Bare, PresentRequest
    <2>3. resource'[r].memory \in Alloc => km'[resource'[r].memory].rt = r
      BY <1>t, <1>g, <1>o, <1>u, <1>p, <1>s, <1>k, <1>l DEF Progress, BlockRule, Bare
    <2>4. resource'[r].stage = "live" /\ resource'[r].request \in PresentRequest => km'[Handle(r)'].resident
      BY <1>t, <1>g, <1>o, <1>u, <1>p, <1>s, <1>k, <1>l DEF Progress, BlockRule,
         ResidentInTime, Bound, PresentRequest, PathOf, Path, Handle
    <2> QED
      BY <2>1, <2>2, <2>3, <2>4 DEF BlockRule
  <1>5. ASSUME NEW x \in Alloc, km[x].rt \in {r, NULL} PROVE AllocRule(x)'
    BY <1>t, <1>5, <1>g, <1>o, <1>u, <1>p, <1>s, <1>k, <1>l DEF AllocInv, AllocRule, Awaits,
       Working, Progress, Bare, Handle, At, R, PathOf, Path
  <1>6. Works(t, r)
    BY <1>g, <1>o DEF Works, At
  <1>7. \A x \in Alloc : km[x].rt \in {r, NULL} => AllocRule(x)'
    BY <1>5
  <1> QED
    BY <1>1, <1>2, <1>3, <1>4, <1>6, <1>7, StepIsLocal

\* Destruction frees the memory under the image first.
LEMMA DestroyResourceKeeps ==
    ASSUME AllocInv, NEW t \in Thread, NEW r \in Resource, DestroyResource(t, r), UNCHANGED drm
    PROVE  AllocInv'
  <1> USE ResourceAllocAssumption
  <1>t. TypeOK
    BY DEF AllocInv
  <1>g. At(t, "idle") /\ resource[r].stage # "busy" /\ resource[r].stage # "unused"
    BY DEF DestroyResource, FreeMemory, RuntimeFree, RecordWithout, ClearRecord, NoRecord,
       Handle, Used, Free, At, R
  <1>o. /\ r # NULL /\ resource[r] \in Block /\ BlockRule(r)
        /\ \A x \in Alloc : km[x].rt = r /\ km[x].by = "hook" => resource[r].memory = x
    BY <1>g, AtRest
  <1>1. TypeOK'
    <2>1. [resource[r] EXCEPT !.stage = "busy", !.pResource = FALSE, !.image = FALSE, !.memory = NULL] \in Block
      BY <1>o DEF Block
    <2>2. [pc |-> "deallocate", r |-> r, blob |-> NULL] \in Call
      BY DEF Call, PC
    <2>3. NoRecord \in Record
      BY DEF NoRecord, Record
    <2>4. Free \in Allocation
      BY DEF Free, Allocation
    <2> QED
      BY <1>t, <2>1, <2>2, <2>3, <2>4, Types, TypesNext DEF DestroyResource, FreeMemory,
         RuntimeFree, RecordWithout, ClearRecord
  <1>u. \A s \in Resource : s # r => resource'[s] = resource[s]
    BY <1>t, <1>g, <1>o, Types DEF DestroyResource, FreeMemory, RuntimeFree, RecordWithout,
       ClearRecord, NoRecord, Block, Call, Allocation, Record, Scope, Fail, Goto, Unused,
       ClearRecord, NoRecord, RestoreScope, NoScope, Handle, At, R, Idle
  <1>v. resource'[r] = [resource[r] EXCEPT !.stage = "busy", !.pResource = FALSE, !.image = FALSE, !.memory = NULL]
    BY <1>t, <1>g, <1>o, Types DEF DestroyResource, FreeMemory, RuntimeFree, RecordWithout,
       ClearRecord, NoRecord, Block, Call, Allocation, Record, Scope, Fail, Goto, Unused,
       ClearRecord, NoRecord, RestoreScope, NoScope, Handle, At, R, Idle
  <1>p. resource'[r].stage = "busy" /\ resource'[r].request = resource[r].request
        /\ resource'[r].hKMAllocation = resource[r].hKMAllocation /\ resource'[r].memory = NULL
    BY <1>o, <1>v DEF Block
  <1>c. /\ \A u \in Thread : u # t => call'[u] = call[u]
        /\ call'[t].pc = ("deallocate") /\ call'[t].r = r /\ call'[t].blob = NULL
    BY <1>t, Types DEF DestroyResource
  <1>s. scope' = scope /\ (\A u \in Thread : u # t => record'[u] = record[u])
    BY <1>t, Types DEF DestroyResource, FreeMemory, RuntimeFree, RecordWithout, ClearRecord,
       NoRecord
  <1>k. \A x \in Alloc : ~((x = resource[r].memory /\ km[x].by = "hook")) => km'[x] = km[x]
    BY <1>t, <1>g, <1>o, Types DEF DestroyResource, FreeMemory, RuntimeFree, Free, Allocation
  <1>l. \A x \in Alloc : (x = resource[r].memory /\ km[x].by = "hook") => km'[x].rt = NULL /\ km'[x].by = "nobody" /\ ~km'[x].primary
    BY <1>t, <1>g, <1>o, Types DEF DestroyResource, FreeMemory, RuntimeFree, Free, Allocation
  <1>2. Touches(t, r)
    BY <1>g, <1>o, <1>u, <1>v, <1>p, <1>c, <1>s, <1>k, <1>l DEF Touches, Idle, BlockRule
  <1>3. ThreadRule(t)'
    <2>1. R(t)' = r /\ ~At(t, "idle")' /\ resource'[r].stage = "busy"
      BY <1>g, <1>o, <1>u, <1>v, <1>p, <1>c, <1>s, <1>k, <1>l DEF Working, At, R
    <2>2. Progress(t, r)'
      BY <1>g, <1>o, <1>u, <1>v, <1>p, <1>c, <1>s, <1>k, <1>l DEF At, Progress, PathOf,
         Path, Bound, Bare, Handle
    <2>3. ResidentInTime(t, r)'
      BY <1>g, <1>o, <1>u, <1>v, <1>p, <1>c, <1>s, <1>k, <1>l DEF At, ResidentInTime,
         Progress, PathOf, Path, PresentRequest, Bound, Handle
    <2>4. RecordRight(t, r)'
      BY <1>g, <1>o, <1>u, <1>v, <1>p, <1>c, <1>s, <1>k, <1>l DEF At, RecordRight, Progress,
         BlobOwned, PathOf, Path, Trusts, R
    <2>5. ScopeRight(t, r)'
      BY <1>g, <1>o, <1>u, <1>v, <1>p, <1>c, <1>s, <1>k, <1>l DEF At, ScopeRight, PathOf, Path
    <2>6. BlobOwned(t, r)'
      BY <1>g, <1>o, <1>u, <1>v, <1>p, <1>c, <1>s, <1>k, <1>l DEF At, BlobOwned, Progress,
         PathOf, Path, Handle
    <2>7. At(t, "deallocate")' \/ Backed(r)'
      BY <1>g, <1>o, <1>u, <1>v, <1>p, <1>c, <1>s, <1>k, <1>l DEF At, Backed, Handle
    <2>8. Working(t, r)'
      BY <1>o, <2>1, <2>2, <2>3, <2>4, <2>5, <2>6, <2>7 DEF Working
    <2> QED
      BY <2>1, <2>8 DEF ThreadRule
  <1>4. BlockRule(r)'
    <2>1. resource'[r].stage = "busy" \/ Backed(r)'
      BY <1>t, <1>g, <1>o, <1>u, <1>v, <1>p, <1>c, <1>s, <1>k, <1>l DEF Progress, BlockRule,
         Backed, Handle
    <2>2. AttributedTo(r)'
      BY <1>t, <1>g, <1>o, <1>u, <1>v, <1>p, <1>c, <1>s, <1>k, <1>l DEF Progress, BlockRule,
         AttributedTo, Backed, Bound, Handle, PathOf, Path, Bare, PresentRequest
    <2>3. resource'[r].memory \in Alloc => km'[resource'[r].memory].rt = r
      BY <1>t, <1>g, <1>o, <1>u, <1>v, <1>p, <1>c, <1>s, <1>k, <1>l DEF Progress, BlockRule,
         Bare
    <2>4. resource'[r].stage = "live" /\ resource'[r].request \in PresentRequest => km'[Handle(r)'].resident
      BY <1>t, <1>g, <1>o, <1>u, <1>v, <1>p, <1>c, <1>s, <1>k, <1>l DEF Progress, BlockRule,
         ResidentInTime, Bound, PresentRequest, PathOf, Path, Handle
    <2> QED
      BY <2>1, <2>2, <2>3, <2>4 DEF BlockRule
  <1>5. ASSUME NEW x \in Alloc, km[x].rt \in {r, NULL} PROVE AllocRule(x)'
    <2>1. AllocRule(x)
      BY DEF AllocInv
    <2>2. CASE km'[x] = km[x]
      <3>1. km[x].rt = r => km[x].by # "hook"
        BY <1>o, <1>l, <2>2
      <3> QED
        BY <1>5, <1>g, <1>p, <2>1, <2>2, <3>1 DEF AllocRule, Handle
    <2>3. CASE km'[x] # km[x]
      BY <1>k, <1>l, <2>3 DEF AllocRule
    <2> QED
      BY <2>2, <2>3
  <1>6. Works(t, r)
    BY <1>g, <1>o DEF Works, At
  <1>7. \A x \in Alloc : km[x].rt \in {r, NULL} => AllocRule(x)'
    BY <1>5
  <1> QED
    BY <1>1, <1>2, <1>3, <1>4, <1>6, <1>7, StepIsLocal

\* Then everything else that was made for the resource goes.
LEMMA DeallocateKeeps ==
    ASSUME AllocInv, NEW t \in Thread, Deallocate(t), UNCHANGED drm
    PROVE  AllocInv'
  <1> USE ResourceAllocAssumption
  <1>t. TypeOK
    BY DEF AllocInv
  <1>r. PICK r : r = R(t)
    OBVIOUS
  <1>g. At(t, "deallocate")
    BY DEF Deallocate, RuntimeCloses, FreeByResource, Handle, Used, Free, At, R
  <1>o. /\ r \in Resource /\ r # NULL /\ resource[r] \in Block /\ call[t] \in Call
        /\ Working(t, r) /\ Works(t, r) /\ BlockRule(r)
        /\ \A x \in Alloc : km[x].rt = r /\ km[x].by = "hook" =>
              resource[r].memory = x \/ (At(t, "memory") /\ call[t].blob = x)
    BY <1>g, <1>r, AtWork DEF At
  <1>1. TypeOK'
    <2>1. Unused \in Block
      BY DEF Unused, Block, Request
    <2>2. Idle \in Call
      BY DEF Idle, Call, PC
    <2>3. Free \in Allocation
      BY DEF Free, Allocation
    <2> QED
      BY <1>t, <1>o, <1>r, <2>1, <2>2, <2>3, Types, TypesNext DEF Deallocate, RuntimeCloses,
         FreeByResource, Handle, R
  <1>u. \A s \in Resource : s # r => resource'[s] = resource[s]
    BY <1>t, <1>g, <1>o, <1>r, Types DEF Deallocate, RuntimeCloses, FreeByResource, Block,
       Call, Allocation, Record, Scope, Fail, Goto, Unused, ClearRecord, NoRecord,
       RestoreScope, NoScope, Handle, At, R, Idle
  <1>v. resource'[r] = Unused
    BY <1>t, <1>g, <1>o, <1>r, Types DEF Deallocate, RuntimeCloses, FreeByResource, Block,
       Call, Allocation, Record, Scope, Fail, Goto, Unused, ClearRecord, NoRecord,
       RestoreScope, NoScope, Handle, At, R, Idle
  <1>p. resource'[r].stage = "unused" /\ resource'[r].request = "plain"
        /\ resource'[r].hKMAllocation = NULL /\ resource'[r].memory = NULL
    BY <1>v DEF Unused
  <1>c. /\ \A u \in Thread : u # t => call'[u] = call[u]
        /\ call'[t] = Idle
    BY <1>t, <1>g, <1>o, <1>r, Types DEF Deallocate, RuntimeCloses, FreeByResource, Block,
       Call, Allocation, Record, Scope, Fail, Goto, Unused, ClearRecord, NoRecord,
       RestoreScope, NoScope, Handle, At, R, Idle
  <1>s. record' = record /\ scope' = scope
    BY <1>t, <1>g, <1>o, <1>r, Types DEF Deallocate, RuntimeCloses, FreeByResource, Block,
       Call, Allocation, Record, Scope, Fail, Goto, Unused, ClearRecord, NoRecord,
       RestoreScope, NoScope, Handle, At, R, Idle
  <1>w. \A x \in Alloc : km[x].rt = r => Handle(r) # NULL \/ km[x].by = "runtime"
    BY <1>t, <1>g, <1>o, <1>r, Types DEF AllocInv, AllocRule, Working, Progress, Bare, At,
       Allocation
  <1>k. \A x \in Alloc : ~((km[x].rt = r)) => km'[x] = km[x]
    BY <1>t, <1>g, <1>o, <1>r, <1>w, Types DEF Deallocate, RuntimeCloses, FreeByResource,
       Free, R, Handle, Allocation
  <1>l. \A x \in Alloc : (km[x].rt = r) => km'[x].rt = NULL /\ km'[x].by = "nobody" /\ ~km'[x].primary
    BY <1>t, <1>g, <1>o, <1>r, <1>w, Types DEF Deallocate, RuntimeCloses, FreeByResource,
       Free, R, Handle, Allocation
  <1>2. Touches(t, r)
    BY <1>g, <1>o, <1>r, <1>u, <1>v, <1>p, <1>c, <1>s, <1>w, <1>k, <1>l DEF Touches, Idle
  <1>3. ThreadRule(t)'
    BY <1>u, <1>v, <1>p, <1>c, <1>s, <1>w, <1>k, <1>l DEF ThreadRule, At, Idle
  <1>4. BlockRule(r)'
    <2>1. resource'[r].stage = "busy" \/ Backed(r)'
      BY <1>t, <1>g, <1>o, <1>r, <1>u, <1>v, <1>p, <1>c, <1>s, <1>w, <1>k, <1>l DEF Working,
         At, Progress, BlockRule, Backed, Handle
    <2>2. AttributedTo(r)'
      BY <1>t, <1>g, <1>o, <1>r, <1>u, <1>v, <1>p, <1>c, <1>s, <1>w, <1>k, <1>l DEF Working,
         At, Progress, BlockRule, AttributedTo, Backed, Bound, Handle, PathOf, Path, Bare,
         PresentRequest
    <2>3. resource'[r].memory \in Alloc => km'[resource'[r].memory].rt = r
      BY <1>t, <1>g, <1>o, <1>r, <1>u, <1>v, <1>p, <1>c, <1>s, <1>w, <1>k, <1>l DEF Working,
         At, Progress, BlockRule, Bare
    <2>4. resource'[r].stage = "live" /\ resource'[r].request \in PresentRequest => km'[Handle(r)'].resident
      BY <1>t, <1>g, <1>o, <1>r, <1>u, <1>v, <1>p, <1>c, <1>s, <1>w, <1>k, <1>l DEF Working,
         At, Progress, BlockRule, ResidentInTime, Bound, PresentRequest, PathOf, Path,
         Handle
    <2> QED
      BY <2>1, <2>2, <2>3, <2>4 DEF BlockRule
  <1>5. ASSUME NEW x \in Alloc, km[x].rt \in {r, NULL} PROVE AllocRule(x)'
    BY <1>t, <1>5, <1>g, <1>o, <1>r, <1>u, <1>v, <1>p, <1>c, <1>s, <1>w, <1>k, <1>l DEF
       AllocInv, AllocRule, Awaits, Working, Progress, Bare, Handle, At, R, PathOf, Path
  <1>6. Works(t, r)
    BY <1>g, <1>o, <1>r DEF Works, At
  <1>7. \A x \in Alloc : km[x].rt \in {r, NULL} => AllocRule(x)'
    BY <1>5
  <1> QED
    BY <1>o, <1>1, <1>2, <1>3, <1>4, <1>6, <1>7, StepIsLocal

-----------------------------------------------------------------------------
LEMMA InitHolds == Init => AllocInv
  <1> USE ResourceAllocAssumption
  <1> SUFFICES ASSUME Init PROVE AllocInv
    OBVIOUS
  <1>1. /\ Unused \in Block /\ Idle \in Call /\ NoRecord \in Record
        /\ NoScope \in Scope /\ Free \in Allocation
    BY DEF Unused, Block, Request, Idle, Call, PC, NoRecord, Record, NoScope, Scope, Free, Allocation
  <1>2. TypeOK
    BY <1>1, Types DEF Init
  <1>3. CallsApart /\ \A t \in Thread : ThreadRule(t)
    BY DEF Init, CallsApart, ThreadRule, At, Idle
  <1>4. \A r \in Resource : BlockRule(r)
    BY DEF Init, BlockRule, AttributedTo, Backed, Handle, Unused
  <1>5. \A a \in Alloc : AllocRule(a)
    BY DEF Init, AllocRule, Free
  <1> QED
    BY <1>2, <1>3, <1>4, <1>5 DEF AllocInv

\* Every step of the specification keeps the invariant.
LEMMA NextKeeps == AllocInv /\ [Next]_vars => AllocInv'
  <1> SUFFICES ASSUME AllocInv, [Next]_vars PROVE AllocInv'
    OBVIOUS
  <1>1. CASE UNCHANGED vars
    <2>1. /\ drm' = drm /\ resource' = resource /\ call' = call
          /\ record' = record /\ scope' = scope /\ km' = km
      BY <1>1 DEF vars
    <2>2. TypeOK' /\ CallsApart'
      BY <2>1 DEF AllocInv, TypeOK, CallsApart, At, R
    <2>3. ASSUME NEW t \in Thread PROVE ThreadRule(t)'
      BY <2>1 DEF AllocInv, ThreadRule, Working, Progress, ResidentInTime, RecordRight,
                  ScopeRight, BlobOwned, Backed, Handle, PathOf, Path, Bound, Bare, Trusts, At, R
    <2>4. ASSUME NEW r \in Resource PROVE BlockRule(r)'
      BY <2>1 DEF AllocInv, BlockRule, AttributedTo, Backed, Bound, Handle
    <2>5. ASSUME NEW a \in Alloc PROVE AllocRule(a)'
      BY <2>1 DEF AllocInv, AllocRule, Awaits, Handle, At, R
    <2> QED
      BY <2>2, <2>3, <2>4, <2>5 DEF AllocInv
  <1>2. ASSUME NEW t \in Thread, NEW a \in Alloc, UNCHANGED drm,
               BlobAlloc(t, a) \/ UnrelatedAlloc(t, a) \/ UnrelatedFree(t, a) \/ Allocate3d(t, a)
        PROVE  AllocInv'
    BY <1>2, BlobAllocKeeps, UnrelatedAllocKeeps, UnrelatedFreeKeeps, Allocate3dKeeps
  <1>3. ASSUME NEW t \in Thread, NEW a \in Alloc, NEW r \in Resource, UNCHANGED drm,
               OpenResource(t, r, a) \/ \E stored \in BOOLEAN : OpenResourceFails(t, r, a, stored)
        PROVE  AllocInv'
    BY <1>3, OpenResourceKeeps, OpenResourceFailsKeeps
  <1>4. ASSUME NEW t \in Thread, NEW r \in Resource, UNCHANGED drm,
               \/ \E request \in Request \ {"opened"} :
                     CreateResource(t, r, request) \/ RefuseLinear(t, r, request)
               \/ DestroyResource(t, r)
        PROVE  AllocInv'
    BY <1>4, CreateResourceKeeps, RefuseLinearKeeps, DestroyResourceKeeps
  <1>5. ASSUME NEW t \in Thread, UNCHANGED drm,
               \/ Query3d(t) \/ \E retired \in BOOLEAN : Query3dFails(t, retired)
               \/ MakeResident(t) \/ Publish(t) \/ Complete(t) \/ StepFails(t) \/ Deallocate(t)
        PROVE  AllocInv'
    BY <1>5, Query3dKeeps, Query3dFailsKeeps, MakeResidentKeeps, PublishKeeps, CompleteKeeps,
       StepFailsKeeps, DeallocateKeeps
  <1>6. ASSUME NEW t \in Thread, UNCHANGED drm,
               \/ CreateImage(t) \/ \E left \in BOOLEAN : CreateImageFails(t, left)
               \/ AllocateMemory(t) \/ AllocateMemoryFails(t) \/ CheckRecord(t)
        PROVE  AllocInv'
    BY <1>6, CreateImageKeeps, CreateImageFailsKeeps, AllocateMemoryKeeps,
       AllocateMemoryFailsKeeps, RecordTrustedKeeps, RecordDistrustedKeeps
  <1>7. CASE Next
    BY <1>2, <1>3, <1>4, <1>5, <1>6, <1>7 DEF Next
  <1> QED
    BY <1>1, <1>7

\* The rules of threads, blocks and allocations hold in every reachable state.
THEOREM AllocInvariant == Spec => []AllocInv
  BY InitHolds, NextKeeps, PTL DEF Spec

\* Every reachable state is well typed: handles, records and scopes only ever
\* name resources and allocations that exist.
THEOREM AllocTypeCorrect == Spec => []TypeOK
  <1>1. AllocInv => TypeOK
    BY DEF AllocInv
  <1> QED
    BY <1>1, AllocInvariant, PTL

\* A resource that was created or opened has the handle of the allocation its
\* pixels are in, however many threads create and whatever the ICD allocates
\* meanwhile on the same threads (resource.c:924-960, device.c:90-130).
THEOREM HandlesFindTheirResource == Spec => []Attributed
  <1>1. AllocInv => Attributed
    BY DEF AllocInv, Attributed, BlockRule, AttributedTo, Bound, Handle
  <1> QED
    BY <1>1, AllocInvariant, PTL

\* Nothing frees an allocation under the memory that is bound to it.
THEOREM MemoryStaysBacked == Spec => []MemoryBacked
  <1>1. AllocInv => MemoryBacked
    BY DEF AllocInv, MemoryBacked, BlockRule
  <1> QED
    BY <1>1, AllocInvariant, PTL

\* The primary flag is on the allocations of primaries and on no other.
THEOREM PrimariesMarked == Spec => []PrimaryMarked
  <1>1. AllocInv => PrimaryMarked
    BY DEF AllocInv, PrimaryMarked, AllocRule
  <1> QED
    BY <1>1, AllocInvariant, PTL

\* What the runtime may present is resident when its creation returns.
THEOREM PresentedAreResident == Spec => []PresentsResident
  <1>1. AllocInv => PresentsResident
    BY DEF AllocInv, PresentsResident, BlockRule, Handle
  <1> QED
    BY <1>1, AllocInvariant, PTL

\* No allocation outlives its resource, wherever the creation failed.
THEOREM NothingOutlives == Spec => []NothingLeftBehind
  <1>1. AllocInv => NothingLeftBehind
    BY DEF AllocInv, NothingLeftBehind, AllocRule
  <1> QED
    BY <1>1, AllocInvariant, PTL
=============================================================================

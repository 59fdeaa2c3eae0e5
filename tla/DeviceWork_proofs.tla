-------------------------- MODULE DeviceWork_proofs --------------------------
(***************************************************************************)
(* Proofs about DeviceWork: for any number of resources, queries and       *)
(* commands, what the runtime is told of the GPU's work is so, a consumer  *)
(* sees a released surface, and resources are made as they were asked for. *)
(***************************************************************************)
EXTENDS DeviceWork, TLAPS

USE DeviceWorkAssumption

\* What a resource block holds.
Block ==
    {None} \union {[asked |-> a, memory |-> memory, host |-> HostDesc(a, memory)] :
                      a \in Asked, memory \in BOOLEAN}

\* The blocks hold what their creation put there.
Blocks == resource \in [Resource -> Block]

\* A query that does not exist has not ended and has not been answered for.
QueriesFresh == \A q \in Query : query[q] = "none" => ended[q] = 0 /\ q \notin answered

\* What is on its way to a consumer has been handed over to the ring.
HandedOver == handover # None => released <= submitted

\* The inductive invariant.
WorkInv == TypeOK /\ Blocks /\ QueriesFresh /\ HandedOver /\ ToldTrue /\ ConsumerSeesReleased

-----------------------------------------------------------------------------
\* Where a map is told that it succeeded, what it waited for was done.
LEMMA MapOk ==
    ASSUME NEW r \in Resource, NEW type \in {"read", "write"}, MapResult(r, type) = "ok", TypeOK
    PROVE  executed >= lastWrite[r]
  <1>1. ~(executed < Awaited(r, type))
    BY DEF MapResult
  <1>2. Awaited(r, type) = lastWrite[r] \/ Awaited(r, type) = lastUse[r]
    BY DEF Awaited
  <1> QED
    BY <1>1, <1>2 DEF TypeOK

\* Commands are counted consistently.
Counted ==
    /\ recorded \in 0 .. MaxWork /\ submitted \in 0 .. recorded /\ executed \in 0 .. submitted
    /\ lastUse \in [Resource -> 0 .. recorded]
    /\ lastWrite \in [Resource -> Nat] /\ \A r \in Resource : lastWrite[r] <= lastUse[r]
    /\ ended \in [Query -> 0 .. recorded]

\* Creating a resource.
LEMMA CreateStep ==
    ASSUME WorkInv, NEW r \in Resource, NEW a \in Asked, NEW memory \in BOOLEAN, Create(r, a, memory)
    PROVE  WorkInv'
  <1>1. resource' = [resource EXCEPT ![r] = [asked |-> a, memory |-> memory, host |-> HostDesc(a, memory)]]
    BY DEF Create
  <1>2. UNCHANGED <<query, recorded, submitted, executed, lastWrite, lastUse, ended,
                    mapped, held, idle, answered, waiting, spinning, handover, released, acquired, lost>>
    BY DEF Create, work, told, calls, other
  <1>3. [asked |-> a, memory |-> memory, host |-> HostDesc(a, memory)] \in Block
    BY DEF Block
  <1>4. Blocks'
    BY <1>1, <1>3 DEF WorkInv, Blocks
  <1>5. \A s \in Resource : Made(s)' => resource'[s].asked \in Asked
    BY <1>1 DEF WorkInv, TypeOK, Blocks, Made
  <1> QED
    BY <1>2, <1>4, <1>5 DEF WorkInv, TypeOK, QueriesFresh, HandedOver, ToldTrue, ConsumerSeesReleased

\* Recording a command.
LEMMA RecordStep ==
    ASSUME WorkInv, NEW rs \in SUBSET Resource, NEW ws \in SUBSET Resource, Record(rs, ws)
    PROVE  WorkInv'
  <1>1. /\ recorded' = recorded + 1 /\ recorded < MaxWork
        /\ lastWrite' = [r \in Resource |-> IF r \in ws THEN recorded' ELSE lastWrite[r]]
        /\ lastUse' = [r \in Resource |-> IF r \in rs \union ws THEN recorded' ELSE lastUse[r]]
        /\ idle' = idle \ ws
    BY DEF Record
  <1>2. UNCHANGED <<resource, query, submitted, executed, ended, mapped, held, answered,
                    waiting, spinning, handover, released, acquired, lost>>
    BY DEF Record, calls, other
  <1>3. Counted'
    BY <1>1, <1>2 DEF WorkInv, TypeOK, Counted
  <1>4. TypeOK'
    BY <1>1, <1>2, <1>3 DEF WorkInv, TypeOK, Counted, Made
  <1>5. \A r \in idle' : executed' >= lastWrite'[r]
    BY <1>1, <1>2 DEF WorkInv, ToldTrue, TypeOK
  <1> QED
    BY <1>2, <1>4, <1>5 DEF WorkInv, Blocks, QueriesFresh, HandedOver, ToldTrue, ConsumerSeesReleased

\* What moves the ring, or loses the device.
LEMMA RingStep ==
    ASSUME WorkInv, Flush \/ HostSubmits \/ Execute \/ LoseDevice
    PROVE  WorkInv'
  <1>1. UNCHANGED <<resource, query, recorded, lastWrite, lastUse, ended, mapped, held, idle, answered,
                    waiting, spinning, handover, released, acquired>>
    BY DEF Flush, HostSubmits, Execute, LoseDevice, work, told, calls, other
  <1>2. submitted' \in submitted .. recorded /\ executed' \in executed .. submitted'
    BY DEF WorkInv, TypeOK, Flush, HostSubmits, Execute, LoseDevice, work
  <1>3. lost' \in BOOLEAN
    BY DEF WorkInv, TypeOK, Flush, HostSubmits, Execute, LoseDevice
  <1>4. TypeOK'
    BY <1>1, <1>2, <1>3 DEF WorkInv, TypeOK, Made
  <1> QED
    BY <1>1, <1>2, <1>4 DEF WorkInv, TypeOK, Blocks, QueriesFresh, HandedOver, ToldTrue, ConsumerSeesReleased

\* The maps.
LEMMA MapStep ==
    ASSUME WorkInv, NEW r \in Resource,
           \/ \E type \in {"read", "write", "discard"} : MapNoWait(r, type)
           \/ MapBegins(r) \/ MapReturns(r) \/ Unmap(r)
    PROVE  WorkInv'
  <1> DEFINE Rest == <<resource, query, recorded, executed, lastWrite, lastUse, ended, answered,
                       spinning, handover, released, acquired, lost>>
  <1>a. ASSUME NEW type \in {"read", "write", "discard"}, MapNoWait(r, type)
        PROVE  UNCHANGED Rest /\ mapped' = held' /\ mapped' \subseteq Resource
    BY <1>a DEF WorkInv, TypeOK, ToldTrue, MapNoWait, MapSucceeded, calls, other
  <1>b. ASSUME MapBegins(r) PROVE UNCHANGED Rest /\ mapped' = held' /\ mapped' \subseteq Resource
    BY <1>b DEF WorkInv, TypeOK, ToldTrue, MapBegins, told, other
  <1>c. ASSUME MapReturns(r) PROVE UNCHANGED Rest /\ mapped' = held' /\ mapped' \subseteq Resource
    BY <1>c DEF WorkInv, TypeOK, ToldTrue, MapReturns, work, other
  <1>d. ASSUME Unmap(r) PROVE UNCHANGED Rest /\ mapped' = held' /\ mapped' \subseteq Resource
    BY <1>d DEF WorkInv, TypeOK, ToldTrue, Unmap, work, calls, other
  <1>1. UNCHANGED Rest
    BY <1>a, <1>b, <1>c, <1>d
  <1>2. submitted' \in {submitted, recorded}
    BY DEF MapNoWait, MapBegins, MapReturns, Unmap, SubmittedBy, work
  <1>3. mapped' = held' /\ mapped' \subseteq Resource
    BY <1>a, <1>b, <1>c, <1>d
  <1>4. idle' \subseteq Resource /\ \A s \in idle' : executed' >= lastWrite'[s]
    <2>1. idle' = idle \/ (idle' = idle \union {r} /\ MapResult(r, "read") = "ok")
      BY DEF MapNoWait, MapBegins, MapReturns, Unmap, MapSucceeded, told
    <2> QED
      BY <1>1, <2>1, MapOk DEF WorkInv, TypeOK, ToldTrue
  <1>5. waiting' \in Resource \union {None}
    BY DEF WorkInv, TypeOK, MapNoWait, MapBegins, MapReturns, Unmap, calls
  <1>6. TypeOK'
    BY <1>1, <1>2, <1>3, <1>4, <1>5 DEF WorkInv, TypeOK, Made
  <1> QED
    BY <1>1, <1>2, <1>3, <1>4, <1>6
       DEF WorkInv, TypeOK, Blocks, QueriesFresh, HandedOver, ToldTrue, ConsumerSeesReleased

\* The staging probe.
LEMMA ProbeStep ==
    ASSUME WorkInv, (\E r \in Resource : Spin(r)) \/ Probe \/ StopSpinning
    PROVE  WorkInv'
  <1>1. UNCHANGED <<resource, query, recorded, executed, lastWrite, lastUse, ended, mapped, held, answered,
                    waiting, handover, released, acquired, lost>>
    BY DEF Spin, Probe, StopSpinning, work, told, other
  <1>2. submitted' \in {submitted, recorded}
    BY DEF Spin, Probe, StopSpinning, SubmittedBy, work
  <1>3. spinning' \in Resource \union {None}
    BY DEF WorkInv, TypeOK, Spin, Probe, StopSpinning
  <1>4. idle' \subseteq Resource /\ \A s \in idle' : executed' >= lastWrite'[s]
    <2>1. \/ idle' = idle
          \/ Probe /\ idle' = idle \union {spinning} /\ ProbeResult(spinning) = "ok"
      BY DEF Spin, Probe, StopSpinning, told
    <2>2. ASSUME Probe, ProbeResult(spinning) = "ok" PROVE executed >= lastWrite[spinning]
      <3>1. spinning \in Resource
        BY <2>2 DEF Probe, WorkInv, TypeOK
      <3>2. PICK type \in {"read", "write"} : MapResult(spinning, type) = "ok"
        BY <2>2 DEF ProbeResult, ProbeType
      <3> QED
        BY <3>1, <3>2, MapOk DEF WorkInv
    <2> QED
      BY <1>1, <2>1, <2>2 DEF WorkInv, TypeOK, ToldTrue, Probe
  <1>5. TypeOK'
    BY <1>1, <1>2, <1>3, <1>4 DEF WorkInv, TypeOK, Made
  <1> QED
    BY <1>1, <1>2, <1>4, <1>5
       DEF WorkInv, TypeOK, Blocks, QueriesFresh, HandedOver, ToldTrue, ConsumerSeesReleased

\* Queries come and go.
LEMMA QueryLives ==
    ASSUME WorkInv, NEW q \in Query, CreateQuery(q) \/ CreateQueryFails(q) \/ DestroyQuery(q)
    PROVE  WorkInv'
  <1>1. UNCHANGED <<resource, recorded, submitted, executed, lastWrite, lastUse, mapped, held, idle,
                    waiting, spinning, handover, released, acquired, lost>>
    BY DEF CreateQuery, CreateQueryFails, DestroyQuery, work, told, calls, other
  <1>2. /\ query' \in [Query -> {"none", "made", "refused"}]
        /\ ended' \in [Query -> 0 .. recorded] /\ answered' \subseteq Query
    BY DEF WorkInv, TypeOK, CreateQuery, CreateQueryFails, DestroyQuery, work, told
  <1>3. QueriesFresh' /\ \A p \in answered' : query'[p] = "made" => executed' >= ended'[p]
    <2>1. CASE CreateQuery(q) \/ CreateQueryFails(q)
      <3>1. query[q] = "none" /\ ended' = ended /\ answered' = answered /\ executed' = executed
        BY <2>1 DEF CreateQuery, CreateQueryFails, work, told
      <3>2. \A p \in Query : p # q => query'[p] = query[p]
        BY <2>1 DEF CreateQuery, CreateQueryFails, WorkInv, TypeOK
      <3> QED
        BY <2>1, <3>1, <3>2 DEF WorkInv, TypeOK, QueriesFresh, ToldTrue, CreateQuery, CreateQueryFails
    <2>2. CASE DestroyQuery(q)
      BY <2>2 DEF DestroyQuery, WorkInv, TypeOK, QueriesFresh, ToldTrue
    <2> QED
      BY <2>1, <2>2
  <1>4. TypeOK'
    BY <1>1, <1>2 DEF WorkInv, TypeOK, Made
  <1> QED
    BY <1>1, <1>3, <1>4 DEF WorkInv, Blocks, HandedOver, ToldTrue, ConsumerSeesReleased

\* Queries are ended and asked.
LEMMA QueryAsked ==
    ASSUME WorkInv, NEW q \in Query, QueryEnd(q) \/ \E d \in BOOLEAN : QueryGetData(q, d)
    PROVE  WorkInv'
  <1>1. UNCHANGED <<resource, query, executed, lastWrite, lastUse, mapped, held, idle,
                    waiting, spinning, handover, released, acquired, lost>>
    BY DEF QueryEnd, QueryGetData, calls, other
  <1>2. CASE QueryEnd(q)
    <2>1. /\ recorded' \in {recorded, recorded + 1} /\ recorded < MaxWork
          /\ ended' = [ended EXCEPT ![q] = recorded'] /\ answered' = answered \ {q}
          /\ submitted' = submitted /\ query[q] # "none"
      BY <1>2 DEF QueryEnd
    <2>2. TypeOK'
      BY <1>1, <2>1 DEF WorkInv, TypeOK, Made
    <2> QED
      BY <1>1, <2>1, <2>2
         DEF WorkInv, TypeOK, Blocks, QueriesFresh, HandedOver, ToldTrue, ConsumerSeesReleased
  <1>3. ASSUME NEW d \in BOOLEAN, QueryGetData(q, d) PROVE WorkInv'
    <2>1. /\ submitted' \in {submitted, recorded} /\ ended' = ended /\ recorded' = recorded
          /\ ended[q] > 0
      BY <1>3 DEF QueryGetData
    <2>2. answered' = answered \/ (answered' = answered \union {q} /\ DataTaken(q))
      BY <1>3 DEF QueryGetData
    <2>3. DataTaken(q) /\ query[q] = "made" => executed >= ended[q]
      BY DEF DataTaken, QueryResult, WorkInv, TypeOK
    <2>4. query[q] # "none"
      BY <2>1 DEF WorkInv, QueriesFresh
    <2>5. TypeOK'
      BY <1>1, <2>1, <2>2 DEF WorkInv, TypeOK, Made
    <2> QED
      BY <1>1, <2>1, <2>2, <2>3, <2>4, <2>5
         DEF WorkInv, TypeOK, Blocks, QueriesFresh, HandedOver, ToldTrue, ConsumerSeesReleased
  <1> QED
    BY <1>2, <1>3

\* A shared surface changes hands.
LEMMA HandOverStep ==
    ASSUME WorkInv, (\E r \in Resource : ReleaseResource(r)) \/ ConsumerAcquires
    PROVE  WorkInv'
  <1>1. UNCHANGED <<resource, query, recorded, executed, lastWrite, lastUse, ended, mapped, held, idle,
                    answered, waiting, spinning, lost>>
    BY DEF ReleaseResource, ConsumerAcquires, work, told, calls
  <1>2. ASSUME NEW r \in Resource, ReleaseResource(r) PROVE WorkInv'
    <2>1. submitted' = recorded /\ handover' = r /\ released' = lastWrite[r] /\ acquired' = acquired
      BY <1>2 DEF ReleaseResource
    <2>2. released' \in 0 .. recorded /\ handover' # None
      BY <2>1 DEF WorkInv, TypeOK
    <2>3. TypeOK'
      BY <1>1, <2>1, <2>2 DEF WorkInv, TypeOK, Made
    <2> QED
      BY <1>1, <2>1, <2>2, <2>3
         DEF WorkInv, TypeOK, Blocks, QueriesFresh, HandedOver, ToldTrue, ConsumerSeesReleased
  <1>3. CASE ConsumerAcquires
    <2>1. /\ handover # None /\ handover' = None /\ acquired' = submitted
          /\ submitted' = submitted /\ released' = released
      BY <1>3 DEF ConsumerAcquires, work
    <2>2. TypeOK'
      BY <1>1, <2>1 DEF WorkInv, TypeOK, Made
    <2> QED
      BY <1>1, <2>1, <2>2
         DEF WorkInv, TypeOK, Blocks, QueriesFresh, HandedOver, ToldTrue, ConsumerSeesReleased
  <1> QED
    BY <1>2, <1>3

\* Every reachable state satisfies the invariant: the counters of commands are
\* ordered, and everything the runtime was told lies behind what was executed.
THEOREM WorkInvariant == Spec => []WorkInv
  <1>1. Init => WorkInv
    <2> SUFFICES ASSUME Init PROVE WorkInv
      OBVIOUS
    <2>1. Blocks /\ \A r \in Resource : ~Made(r)
      BY DEF Init, Blocks, Block, Made
    <2>2. Counted
      BY DEF Init, Counted
    <2>3. TypeOK
      BY <2>1, <2>2 DEF Init, TypeOK, Counted
    <2> QED
      BY <2>1, <2>3 DEF Init, WorkInv, QueriesFresh, HandedOver, ToldTrue, ConsumerSeesReleased
  <1>2. WorkInv /\ [Next]_vars => WorkInv'
    <2> SUFFICES ASSUME WorkInv, [Next]_vars PROVE WorkInv'
      OBVIOUS
    <2>1. ASSUME NEW r \in Resource, Update(r) \/ \E s \in Resource : Copy(r, s) PROVE WorkInv'
      BY <2>1, RecordStep DEF Update, Copy
    <2>2. CASE UNCHANGED vars
      <3>1. UNCHANGED <<resource, query, recorded, submitted, executed, lastWrite, lastUse, ended, mapped,
                        held, idle, answered, waiting, spinning, handover, released, acquired, lost>>
        BY <2>2 DEF vars, work, told, calls, other
      <3> QED
        BY <3>1 DEF WorkInv, TypeOK, Blocks, Made, QueriesFresh, HandedOver, ToldTrue, ConsumerSeesReleased
    <2> QED
      BY <2>1, <2>2, CreateStep, RingStep, MapStep, ProbeStep, QueryLives, QueryAsked, HandOverStep DEF Next
  <1> QED
    BY <1>1, <1>2, PTL DEF Spec

\* Every reachable state is well typed.
THEOREM WorkTypeCorrect == Spec => []TypeOK
  BY WorkInvariant, PTL DEF WorkInv

\* What the runtime was told of maps, probes and queries is so.
THEOREM RuntimeToldTrue == Spec => []ToldTrue
  BY WorkInvariant, PTL DEF WorkInv

\* A consumer reads a released surface behind all that was recorded on it.
THEOREM ConsumerBehindProducer == Spec => []ConsumerSeesReleased
  BY WorkInvariant, PTL DEF WorkInv
-----------------------------------------------------------------------------
\* D3D11 has a flag for each of the DDI's but one, and no two alike.
LEMMA HostFlags ==
    /\ DOMAIN HostBind = DOMAIN DdiBind \ {"present"} /\ "shaderResource" \in DOMAIN HostBind
    /\ \A m, n \in DOMAIN HostBind : HostBind[m] = HostBind[n] => m = n
  <1>1. DOMAIN HostBind = {"vertex", "index", "constant", "shaderResource", "streamOutput",
                           "renderTarget", "depthStencil", "unordered", "decoder", "encoder"}
    BY DEF HostBind
  <1>2. DOMAIN DdiBind = DOMAIN HostBind \union {"present"}
    BY <1>1 DEF DdiBind
  <1>3. \A m, n \in DOMAIN HostBind : HostBind[m] = HostBind[n] => m = n
    BY <1>1 DEF HostBind
  <1> QED
    BY <1>1, <1>2, <1>3

\* The translated flags mean what the DDI's meant.
LEMMA BindMeans ==
    ASSUME NEW bits
    PROVE  Meant(HostBind, TranslateBind(bits)) = Meant(DdiBind, bits) \ {"present"}
  <1>1. ASSUME NEW n \in DOMAIN HostBind
        PROVE  HostBind[n] \in TranslateBind(bits) <=> n \in Meant(DdiBind, bits)
    BY <1>1, HostFlags DEF TranslateBind
  <1>2. Meant(DdiBind, bits) \subseteq DOMAIN DdiBind
    BY DEF Meant
  <1>3. Meant(HostBind, TranslateBind(bits)) = {n \in DOMAIN HostBind : n \in Meant(DdiBind, bits)}
    BY <1>1 DEF Meant
  <1> QED
    BY <1>2, <1>3, HostFlags

\* What is made of a creation is what it asked for, and data come whole or not at all.
LEMMA MadeAsAsked ==
    ASSUME NEW a, NEW memory \in BOOLEAN
    PROVE  LET h == HostDesc(a, memory) IN
           /\ Meant(HostBind, h.bind) \ {"shaderResource"} =
                 Meant(DdiBind, a.bind) \ {"shaderResource", "present"}
           /\ "shaderResource" \in Meant(DdiBind, a.bind) => HostBind.shaderResource \in h.bind
           /\ h.given = (IF a.data /\ memory THEN h.subresources ELSE 0)
  <1> DEFINE extra == IF Presentable(a) /\ a.usage # "staging" THEN {HostBind.shaderResource} ELSE {}
  <1>1. HostDesc(a, memory).bind = TranslateBind(a.bind) \union extra
    BY DEF HostDesc, TranslateUsage
  <1>2. Meant(HostBind, extra) \subseteq {"shaderResource"}
    BY HostFlags DEF Meant
  <1>3. Meant(HostBind, HostDesc(a, memory).bind) = Meant(HostBind, TranslateBind(a.bind)) \union Meant(HostBind, extra)
    BY <1>1 DEF Meant
  <1>4. "shaderResource" \in Meant(DdiBind, a.bind) => HostBind.shaderResource \in HostDesc(a, memory).bind
    BY <1>1, HostFlags DEF TranslateBind
  <1>5. HostDesc(a, memory).given = (IF a.data /\ memory THEN HostDesc(a, memory).subresources ELSE 0)
    BY DEF HostDesc, Given
  <1> QED
    BY <1>2, <1>3, <1>4, <1>5, BindMeans

\* Every resource the host has is of the kind the runtime asked for, and its block
\* of initial data, where it could be allocated, fits its subresources.
THEOREM ResourcesBornAsAsked == Spec => []BornAsAsked
  <1>1. WorkInv => BornAsAsked
    <2> SUFFICES ASSUME WorkInv, NEW r \in Resource, Made(r)
                 PROVE  LET a == resource[r].asked
                            h == resource[r].host IN
                        /\ Meant(HostBind, h.bind) \ {"shaderResource"} =
                              Meant(DdiBind, a.bind) \ {"shaderResource", "present"}
                        /\ "shaderResource" \in Meant(DdiBind, a.bind) => HostBind.shaderResource \in h.bind
                        /\ h.given = (IF a.data /\ resource[r].memory THEN h.subresources ELSE 0)
      BY DEF BornAsAsked
    <2>1. PICK a \in Asked, memory \in BOOLEAN :
           resource[r] = [asked |-> a, memory |-> memory, host |-> HostDesc(a, memory)]
      BY DEF WorkInv, Blocks, Block, Made
    <2>2. resource[r].asked = a /\ resource[r].memory = memory /\ resource[r].host = HostDesc(a, memory)
      BY <2>1
    <2> QED
      BY <2>2, MadeAsAsked
  <1> QED
    BY <1>1, WorkInvariant, PTL
=============================================================================

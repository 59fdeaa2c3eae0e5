----------------------- MODULE DeviceLifecycle_proofs -----------------------
(***************************************************************************)
(* Proofs about the life of a device: for any number of threads that log,  *)
(* any state objects and any number of devices one after the other, each   *)
(* of which may fail to be created at any step.                            *)
(***************************************************************************)
EXTENDS DeviceLifecycle, SequenceTheorems, TLAPS

-----------------------------------------------------------------------------
(* The log. *)

\* A thread that logs: where it is, the file it has opened, the state it saw.
Thread ==
    [at : {"idle", "open", "publish", "store", "look again", "write"},
     f : Logger \union {None}, value : 0 .. 2]

LogTypes ==
    /\ state \in 0 .. 2 /\ out \in Logger \union {None} /\ open \subseteq Logger
    /\ logging \in [Logger -> Thread]

\* One thread wins the exchange of the state; until it stores its file, nobody
\* else stores one, and a file that is open is that of its opener or the log's.
LogRule(t) ==
    /\ logging[t].at = "store" =>
          state # 0 /\ out = None /\ \A u \in Logger : logging[u].at = "store" => u = t
    /\ logging[t].at \in {"publish", "store"} =>
          logging[t].f \in {t, None} /\ (t \in open <=> logging[t].f = t)
    /\ logging[t].at \in {"open", "publish"} => out # t
    /\ logging[t].at = "open" => t \notin open

LogRules == (state = 0 => out = None) /\ \A t \in Logger : LogRule(t)

LogInv == LogTypes /\ LogRules /\ OneLogFile

\* The steps of a thread that logs keep it.
LEMMA LogStepKeeps == LogInv /\ LogStep => LogInv'
  <1> USE AdapterAssumption
  <1> SUFFICES ASSUME LogInv, NEW t \in Logger,
                      \/ LogBegins(t) \/ LogOpens(t) \/ LogPublishes(t)
                      \/ LogStores(t) \/ LogLooksAgain(t) \/ LogWrites(t)
               PROVE  LogInv'
    BY DEF LogStep
  <1>0. LogTypes /\ logging[t] \in Thread
    BY DEF LogInv, LogTypes
  <1>a. ASSUME NEW r \in Thread, logging' = [logging EXCEPT ![t] = r]
        PROVE  /\ logging' \in [Logger -> Thread] /\ logging'[t] = r
               /\ \A u \in Logger : u # t => logging'[u] = logging[u]
    BY <1>0, <1>a DEF LogTypes
  <1>1. CASE LogBegins(t)
    <2> DEFINE r == [at |-> IF state = 0 THEN "open" ELSE "write", f |-> None, value |-> state]
    <2>1. r \in Thread
      BY <1>0 DEF Thread, LogTypes
    <2>2. logging' = [logging EXCEPT ![t] = r]
      BY <1>1, <1>0 DEF LogBegins, Goes, Thread, LogTypes
    <2>3. /\ logging' \in [Logger -> Thread] /\ logging'[t] = r
          /\ \A u \in Logger : u # t => logging'[u] = logging[u]
      BY <2>1, <2>2, <1>a
    <2>4. /\ logging[t].at = "idle" /\ state' = state /\ out' = out /\ open' = open
          /\ r.at = IF state = 0 THEN "open" ELSE "write"
      BY <1>1, <1>0 DEF LogBegins, Thread, LogTypes
    <2> HIDE DEF r
    <2>5. LogTypes'
      BY <1>0, <2>3, <2>4 DEF LogTypes
    <2>6. LogRules'
      <3>1. state' = 0 => out' = None
        BY <1>0, <2>3, <2>4 DEF LogInv, LogRules, LogRule
      <3>2. ASSUME NEW u \in Logger PROVE LogRule(u)'
        <4>1. CASE u = t
          BY <1>0, <2>3, <2>4, <4>1 DEF LogInv, LogRules, LogRule, LogTypes, OneLogFile
        <4>2. CASE u # t
          <5>1. logging'[u] = logging[u] /\ LogRule(u) /\ LogRule(t) /\ logging[u].f \in Logger \union {None}
            BY <1>0, <2>3, <2>4, <4>2 DEF LogInv, LogRules, LogTypes, Thread
          <5> QED
            BY <1>0, <2>3, <2>4, <4>2, <5>1 DEF LogInv, LogRules, LogRule, LogTypes
        <4> QED
          BY <4>1, <4>2
      <3> QED
        BY <3>1, <3>2 DEF LogRules
    <2>7. OneLogFile'
      BY <1>0, <2>3, <2>4 DEF LogInv, LogRules, LogRule, LogTypes, OneLogFile
    <2> QED
      BY <2>5, <2>6, <2>7 DEF LogInv
  <1>2. CASE LogOpens(t)
    <2>0. PICK file \in {None, t} :
             /\ open' = open \union ({file} \ {None})
             /\ logging' = [logging EXCEPT ![t].at = "publish", ![t].f = file]
      BY <1>2 DEF LogOpens
    <2> DEFINE r == [logging[t] EXCEPT !.at = "publish", !.f = file]
    <2>1. r \in Thread
      BY <1>0, <2>0 DEF Thread, LogTypes
    <2>2. logging' = [logging EXCEPT ![t] = r]
      BY <1>2, <1>0, <2>0 DEF LogOpens, Goes, Thread, LogTypes
    <2>3. /\ logging' \in [Logger -> Thread] /\ logging'[t] = r
          /\ \A u \in Logger : u # t => logging'[u] = logging[u]
      BY <2>1, <2>2, <1>a
    <2>4. /\ logging[t].at = "open" /\ state' = state /\ out' = out
          /\ open' = open \union ({file} \ {None}) /\ r.at = "publish" /\ r.f = file
      BY <1>2, <1>0, <2>0 DEF LogOpens, Thread, LogTypes
    <2> HIDE DEF r
    <2>5. LogTypes'
      BY <1>0, <2>3, <2>4, <2>0 DEF LogTypes
    <2>6. LogRules'
      <3>1. state' = 0 => out' = None
        BY <1>0, <2>3, <2>4, <2>0 DEF LogInv, LogRules, LogRule
      <3>2. ASSUME NEW u \in Logger PROVE LogRule(u)'
        <4>1. CASE u = t
          BY <1>0, <2>3, <2>4, <2>0, <4>1 DEF LogInv, LogRules, LogRule, LogTypes, OneLogFile
        <4>2. CASE u # t
          <5>1. logging'[u] = logging[u] /\ LogRule(u) /\ LogRule(t) /\ logging[u].f \in Logger \union {None}
            BY <1>0, <2>3, <2>4, <2>0, <4>2 DEF LogInv, LogRules, LogTypes, Thread
          <5> QED
            BY <1>0, <2>3, <2>4, <2>0, <4>2, <5>1 DEF LogInv, LogRules, LogRule, LogTypes
        <4> QED
          BY <4>1, <4>2
      <3> QED
        BY <3>1, <3>2 DEF LogRules
    <2>7. OneLogFile'
      BY <1>0, <2>3, <2>4 DEF LogInv, LogRules, LogRule, LogTypes, OneLogFile
    <2> QED
      BY <2>5, <2>6, <2>7 DEF LogInv
  <1>3. CASE LogPublishes(t)
    <2> DEFINE r == [logging[t] EXCEPT !.at = IF state = 0 THEN "store" ELSE "look again"]
    <2>1. r \in Thread
      BY <1>0 DEF Thread, LogTypes
    <2>2. logging' = [logging EXCEPT ![t] = r]
      BY <1>3, <1>0 DEF LogPublishes, Goes, Thread, LogTypes
    <2>3. /\ logging' \in [Logger -> Thread] /\ logging'[t] = r
          /\ \A u \in Logger : u # t => logging'[u] = logging[u]
      BY <2>1, <2>2, <1>a
    <2>4. /\ logging[t].at = "publish" /\ out' = out /\ r.f = logging[t].f
          /\ \/ state = 0 /\ state' \in {1, 2} /\ r.at = "store" /\ open' = open
             \/ state # 0 /\ state' = state /\ r.at = "look again" /\ open' = open \ {logging[t].f}
      BY <1>3, <1>0 DEF LogPublishes, Thread, LogTypes
    <2> HIDE DEF r
    <2>5. CASE state = 0 /\ state' \in {1, 2} /\ r.at = "store" /\ open' = open
      <3>1. LogTypes'
        BY <1>0, <2>3, <2>4, <2>5 DEF LogTypes
      <3>2. LogRules'
        <4>1. state' = 0 => out' = None
          BY <1>0, <2>3, <2>4, <2>5 DEF LogInv, LogRules, LogRule
        <4>2. ASSUME NEW u \in Logger PROVE LogRule(u)'
          <5>1. CASE u = t
            BY <1>0, <2>3, <2>4, <2>5, <5>1 DEF LogInv, LogRules, LogRule, LogTypes, OneLogFile
          <5>2. CASE u # t
            <6>1. logging'[u] = logging[u] /\ LogRule(u) /\ LogRule(t) /\ logging[u].f \in Logger \union {None}
              BY <1>0, <2>3, <2>4, <2>5, <5>2 DEF LogInv, LogRules, LogTypes, Thread
            <6> QED
              BY <1>0, <2>3, <2>4, <2>5, <5>2, <6>1 DEF LogInv, LogRules, LogRule, LogTypes
          <5> QED
            BY <5>1, <5>2
        <4> QED
          BY <4>1, <4>2 DEF LogRules
      <3>3. OneLogFile'
        BY <1>0, <2>3, <2>4, <2>5 DEF LogInv, LogRules, LogRule, LogTypes, OneLogFile
      <3> QED
        BY <3>1, <3>2, <3>3 DEF LogInv
    <2>6. CASE state # 0 /\ state' = state /\ r.at = "look again" /\ open' = open \ {logging[t].f}
      <3>1. LogTypes'
        BY <1>0, <2>3, <2>4, <2>6 DEF LogTypes
      <3>2. LogRules'
        <4>1. state' = 0 => out' = None
          BY <1>0, <2>3, <2>4, <2>6 DEF LogInv, LogRules, LogRule
        <4>2. ASSUME NEW u \in Logger PROVE LogRule(u)'
          <5>1. CASE u = t
            BY <1>0, <2>3, <2>4, <2>6, <5>1 DEF LogInv, LogRules, LogRule, LogTypes, OneLogFile
          <5>2. CASE u # t
            <6>1. logging'[u] = logging[u] /\ LogRule(u) /\ LogRule(t) /\ logging[u].f \in Logger \union {None}
              BY <1>0, <2>3, <2>4, <2>6, <5>2 DEF LogInv, LogRules, LogTypes, Thread
            <6>2. u \in open' <=> u \in open
              BY <2>4, <2>6, <5>2, <6>1 DEF LogRule
            <6>3. out' = out /\ state' = state /\ logging'[t].at = "look again"
                  /\ \A v \in Logger : v # t => logging'[v] = logging[v]
              BY <2>3, <2>4, <2>6
            <6> QED
              BY <6>1, <6>2, <6>3 DEF LogRule
          <5> QED
            BY <5>1, <5>2
        <4> QED
          BY <4>1, <4>2 DEF LogRules
      <3>3. OneLogFile'
        BY <1>0, <2>3, <2>4, <2>6 DEF LogInv, LogRules, LogRule, LogTypes, OneLogFile
      <3> QED
        BY <3>1, <3>2, <3>3 DEF LogInv
    <2> QED
      BY <2>4, <2>5, <2>6
  <1>4. CASE LogStores(t)
    <2> DEFINE r == [logging[t] EXCEPT !.at = "look again"]
    <2>1. r \in Thread
      BY <1>0 DEF Thread, LogTypes
    <2>2. logging' = [logging EXCEPT ![t] = r]
      BY <1>4, <1>0 DEF LogStores, Goes, Thread, LogTypes
    <2>3. /\ logging' \in [Logger -> Thread] /\ logging'[t] = r
          /\ \A u \in Logger : u # t => logging'[u] = logging[u]
      BY <2>1, <2>2, <1>a
    <2>4. /\ logging[t].at = "store" /\ state' = state /\ open' = open
          /\ out' = logging[t].f /\ logging[t].f \in Logger \union {None} /\ r.at = "look again"
      BY <1>4, <1>0 DEF LogStores, Thread, LogTypes
    <2> HIDE DEF r
    <2>5. LogTypes'
      BY <1>0, <2>3, <2>4 DEF LogTypes
    <2>6. LogRules'
      <3>1. state' = 0 => out' = None
        BY <1>0, <2>3, <2>4 DEF LogInv, LogRules, LogRule
      <3>2. ASSUME NEW u \in Logger PROVE LogRule(u)'
        <4>1. CASE u = t
          BY <1>0, <2>3, <2>4, <4>1 DEF LogInv, LogRules, LogRule, LogTypes, OneLogFile
        <4>2. CASE u # t
          <5>1. logging'[u] = logging[u] /\ LogRule(u) /\ LogRule(t) /\ logging[u].f \in Logger \union {None}
            BY <1>0, <2>3, <2>4, <4>2 DEF LogInv, LogRules, LogTypes, Thread
          <5> QED
            BY <1>0, <2>3, <2>4, <4>2, <5>1 DEF LogInv, LogRules, LogRule, LogTypes
        <4> QED
          BY <4>1, <4>2
      <3> QED
        BY <3>1, <3>2 DEF LogRules
    <2>7. OneLogFile'
      <3>1. LogRule(t) /\ OneLogFile /\ out = None
        BY <2>4 DEF LogInv, LogRules, LogRule
      <3>2. ASSUME NEW g \in open' PROVE g = out' \/ logging'[g].at \in {"publish", "store"}
        <4>1. g \in Logger /\ g \in open /\ logging[g].at \in {"publish", "store"}
          BY <1>0, <2>4, <3>1, <3>2 DEF OneLogFile, LogTypes
        <4>2. CASE g = t
          BY <2>4, <3>1, <4>1, <4>2 DEF LogRule
        <4>3. CASE g # t
          BY <2>3, <4>1, <4>3
        <4> QED
          BY <4>2, <4>3
      <3>3. out' # None => out' \in open'
        BY <2>4, <3>1 DEF LogRule
      <3> QED
        BY <3>2, <3>3 DEF OneLogFile
    <2> QED
      BY <2>5, <2>6, <2>7 DEF LogInv
  <1>5. CASE LogLooksAgain(t)
    <2> DEFINE r == [logging[t] EXCEPT !.at = "write", !.value = state]
    <2>1. r \in Thread
      BY <1>0 DEF Thread, LogTypes
    <2>2. logging' = [logging EXCEPT ![t] = r]
      BY <1>5, <1>0 DEF LogLooksAgain, Goes, Thread, LogTypes
    <2>3. /\ logging' \in [Logger -> Thread] /\ logging'[t] = r
          /\ \A u \in Logger : u # t => logging'[u] = logging[u]
      BY <2>1, <2>2, <1>a
    <2>4. /\ logging[t].at = "look again" /\ state' = state /\ out' = out /\ open' = open
          /\ r.at = "write"
      BY <1>5, <1>0 DEF LogLooksAgain, Thread, LogTypes
    <2> HIDE DEF r
    <2>5. LogTypes'
      BY <1>0, <2>3, <2>4 DEF LogTypes
    <2>6. LogRules'
      <3>1. state' = 0 => out' = None
        BY <1>0, <2>3, <2>4 DEF LogInv, LogRules, LogRule
      <3>2. ASSUME NEW u \in Logger PROVE LogRule(u)'
        <4>1. CASE u = t
          BY <1>0, <2>3, <2>4, <4>1 DEF LogInv, LogRules, LogRule, LogTypes, OneLogFile
        <4>2. CASE u # t
          <5>1. logging'[u] = logging[u] /\ LogRule(u) /\ LogRule(t) /\ logging[u].f \in Logger \union {None}
            BY <1>0, <2>3, <2>4, <4>2 DEF LogInv, LogRules, LogTypes, Thread
          <5> QED
            BY <1>0, <2>3, <2>4, <4>2, <5>1 DEF LogInv, LogRules, LogRule, LogTypes
        <4> QED
          BY <4>1, <4>2
      <3> QED
        BY <3>1, <3>2 DEF LogRules
    <2>7. OneLogFile'
      BY <1>0, <2>3, <2>4 DEF LogInv, LogRules, LogRule, LogTypes, OneLogFile
    <2> QED
      BY <2>5, <2>6, <2>7 DEF LogInv
  <1>6. CASE LogWrites(t)
    <2> DEFINE r == Silent
    <2>1. r \in Thread
      BY DEF Thread, Silent
    <2>2. logging' = [logging EXCEPT ![t] = r]
      BY <1>6, <1>0 DEF LogWrites, Goes, Thread, LogTypes
    <2>3. /\ logging' \in [Logger -> Thread] /\ logging'[t] = r
          /\ \A u \in Logger : u # t => logging'[u] = logging[u]
      BY <2>1, <2>2, <1>a
    <2>4. /\ logging[t].at = "write" /\ state' = state /\ out' = out /\ open' = open
          /\ r.at = "idle"
      BY <1>6, <1>0 DEF LogWrites, Thread, LogTypes, Silent
    <2> HIDE DEF r
    <2>5. LogTypes'
      BY <1>0, <2>3, <2>4 DEF LogTypes
    <2>6. LogRules'
      <3>1. state' = 0 => out' = None
        BY <1>0, <2>3, <2>4 DEF LogInv, LogRules, LogRule
      <3>2. ASSUME NEW u \in Logger PROVE LogRule(u)'
        <4>1. CASE u = t
          BY <1>0, <2>3, <2>4, <4>1 DEF LogInv, LogRules, LogRule, LogTypes, OneLogFile
        <4>2. CASE u # t
          <5>1. logging'[u] = logging[u] /\ LogRule(u) /\ LogRule(t) /\ logging[u].f \in Logger \union {None}
            BY <1>0, <2>3, <2>4, <4>2 DEF LogInv, LogRules, LogTypes, Thread
          <5> QED
            BY <1>0, <2>3, <2>4, <4>2, <5>1 DEF LogInv, LogRules, LogRule, LogTypes
        <4> QED
          BY <4>1, <4>2
      <3> QED
        BY <3>1, <3>2 DEF LogRules
    <2>7. OneLogFile'
      BY <1>0, <2>3, <2>4 DEF LogInv, LogRules, LogRule, LogTypes, OneLogFile
    <2> QED
      BY <2>5, <2>6, <2>7 DEF LogInv
  <1> QED
    BY <1>1, <1>2, <1>3, <1>4, <1>5, <1>6

\* So does what leaves the log alone.
LEMMA LogUntouched == LogInv /\ UNCHANGED logVars => LogInv'
  BY DEF LogInv, LogTypes, LogRules, LogRule, logVars, OneLogFile

\* It holds before any thread has logged.
LEMMA LogInvInit == LogInit => LogInv
  BY AdapterAssumption DEF LogInit, LogInv, LogTypes, LogRules, LogRule, OneLogFile, Silent, Thread

-----------------------------------------------------------------------------
(* State objects. *)

\* What the host was given does to a draw what the runtime described, in each
\* of the two interfaces.
LEMMA TranslationMeans ==
    ASSUME NEW i \in {"11.0", "11.1"}, NEW d \in StateDesc, Describable(i, d)
    PROVE  Translated(i, d).kind = d.kind /\ HostEffect(Translated(i, d)) = Effect(d)
  <1> DEFINE handler == Table(i)[d.kind]
  <1>1. CASE d \in BlendDesc
    <2>1. d.kind = "blend"
      BY <1>1 DEF BlendDesc
    <2>2. PICK n \in 1 .. 8 : d.target \in [1 .. n -> [blend : BOOLEAN, logic : BOOLEAN]]
      BY <1>1 DEF BlendDesc
    <2>3. Translated(i, d) = d
      <3>1. CASE i = "11.1"
        BY <2>1, <3>1 DEF Translated, Table, Table11_0, Table11_1, LayoutRead, Layout, HostState, Upgraded
      <3>2. CASE i = "11.0"
        <4>1. Translated(i, d) = [d EXCEPT !.target =
                 [t \in DOMAIN d.target |-> [d.target[t] EXCEPT !.logic = FALSE]]]
          <5> DEFINE u == Upgraded("tritonCreateBlendState_10", d)
          <5>1. Table(i)[d.kind] = "tritonCreateBlendState_10"
            BY <2>1, <3>2 DEF Table, Table11_0
          <5>2. u = [d EXCEPT !.target =
                        [t \in DOMAIN d.target |-> [d.target[t] EXCEPT !.logic = FALSE]]]
            BY DEF Upgraded
          <5>3. u.kind = "blend"
            BY <1>1, <2>1, <5>2 DEF BlendDesc
          <5>4. Translated(i, d) = HostState(u)
            BY <2>1, <3>2, <5>1 DEF Translated, LayoutRead, Layout
          <5> QED
            BY <5>2, <5>3, <5>4 DEF HostState
        <4>2. \A t \in 1 .. n : d.target[t].logic = FALSE
          BY <2>1, <2>2, <3>2 DEF Describable, Layout
        <4>3. \A t \in 1 .. n : [d.target[t] EXCEPT !.logic = FALSE] = d.target[t]
          BY <2>2, <4>2
        <4>4. [t \in DOMAIN d.target |-> [d.target[t] EXCEPT !.logic = FALSE]] = d.target
          BY <2>2, <4>3
        <4> QED
          BY <1>1, <4>1, <4>4 DEF BlendDesc
      <3> QED
        BY <3>1, <3>2
    <2> QED
      BY <2>1, <2>3 DEF HostEffect
  <1>2. CASE d \in DepthStencilDesc
    <2>1. d.kind = "depthStencil"
      BY <1>2 DEF DepthStencilDesc
    <2>2. Translated(i, d) =
             [kind |-> d.kind, stencil |-> d.stencil, test |-> [f \in Face |-> HostTest(d, f)]]
      BY <2>1 DEF Translated, Table, Table11_0, Table11_1, LayoutRead, Layout, HostState, Upgraded
    <2> QED
      BY <2>1, <2>2 DEF HostEffect, Effect, HostTest
  <1>3. CASE d \in RasterizerDesc
    <2>1. d.kind = "rasterizer"
      BY <1>3 DEF RasterizerDesc
    <2>2. Translated(i, d) = d
      <3>1. CASE i = "11.1"
        BY <2>1, <3>1 DEF Translated, Table, Table11_0, Table11_1, LayoutRead, Layout, HostState, Upgraded
      <3>2. CASE i = "11.0"
        <4>1. Translated(i, d) = [d EXCEPT !.samples = 0]
          <5> DEFINE u == Upgraded("tritonCreateRasterizerState_10", d)
          <5>1. Table(i)[d.kind] = "tritonCreateRasterizerState_10"
            BY <2>1, <3>2 DEF Table, Table11_0
          <5>2. u = [d EXCEPT !.samples = 0]
            BY DEF Upgraded
          <5>3. u.kind = "rasterizer"
            BY <1>3, <2>1, <5>2 DEF RasterizerDesc
          <5>4. Translated(i, d) = HostState(u)
            BY <2>1, <3>2, <5>1 DEF Translated, LayoutRead, Layout
          <5> QED
            BY <5>2, <5>3, <5>4 DEF HostState
        <4>2. d.samples = 0
          BY <2>1, <3>2 DEF Describable, Layout
        <4> QED
          BY <1>3, <4>1, <4>2 DEF RasterizerDesc
      <3> QED
        BY <3>1, <3>2
    <2> QED
      BY <2>1, <2>2 DEF HostEffect
  <1>4. CASE d \in SamplerDesc
    <2>1. d.kind = "sampler"
      BY <1>4 DEF SamplerDesc
    <2>2. Translated(i, d) = [d EXCEPT !.anisotropy = Clamped(d.anisotropy)]
      BY <2>1 DEF Translated, Table, Table11_0, Table11_1, LayoutRead, Layout, HostState, Upgraded
    <2>3. /\ Translated(i, d).kind = "sampler"
          /\ Translated(i, d).anisotropic = d.anisotropic
          /\ Translated(i, d).anisotropy = Clamped(d.anisotropy)
      BY <1>4, <2>2 DEF SamplerDesc
    <2>4. d.anisotropic => Clamped(d.anisotropy) = d.anisotropy
      BY <1>4, PipelineStateAssumption DEF Clamped
    <2> QED
      BY <2>1, <2>3, <2>4 DEF HostEffect, Effect
  <1> QED
    BY <1>1, <1>2, <1>3, <1>4, PipelineStateAssumption

\* A block of the device's holds what its interface makes of a description, and
\* what is bound is the host's object of the block that is set.
PipeInv ==
    /\ made = [b \in StateBlock |-> made[b]]
    /\ bound = [k \in Kind |-> bound[k]]
    /\ set \in [Kind -> StateBlock \union {NoBlock}]
    /\ \A b \in StateBlock :
        made[b] # NoBlock =>
            /\ interface \in {"11.0", "11.1"}
            /\ \E d \in StateDesc :
                  Describable(interface, d) /\ made[b] = [asked |-> d, host |-> Translated(interface, d)]
    /\ \A k \in Kind :
        IF set[k] = NoBlock THEN bound[k] = Default
        ELSE /\ made[set[k]] # NoBlock /\ made[set[k]].asked.kind = k
             /\ bound[k] = made[set[k]].host

\* Steps of the pipeline keep it, whichever interface the device has.
LEMMA PipelineStepKeeps ==
    ASSUME PipeInv, interface \in {"11.0", "11.1"}, PipelineStep(interface), interface' = interface
    PROVE  PipeInv'
  <1>1. ASSUME NEW b \in StateBlock, NEW d \in StateDesc, CreateState(interface, b, d)
        PROVE  PipeInv'
    <2>1. \A c \in StateBlock : made'[c] = IF c = b THEN [asked |-> d, host |-> Translated(interface, d)]
                                           ELSE made[c]
      BY <1>1 DEF CreateState, PipeInv
    <2>2. made' = [c \in StateBlock |-> made'[c]] /\ bound' = bound /\ set' = set /\ made[b] = NoBlock
      BY <1>1 DEF CreateState, PipeInv
    <2>3. \A c \in StateBlock : made'[c] # NoBlock =>
             \E e \in StateDesc : /\ Describable(interface', e)
                                  /\ made'[c] = [asked |-> e, host |-> Translated(interface', e)]
      <3> SUFFICES ASSUME NEW c \in StateBlock, made'[c] # NoBlock
                   PROVE  \E e \in StateDesc :
                             /\ Describable(interface', e)
                             /\ made'[c] = [asked |-> e, host |-> Translated(interface', e)]
        OBVIOUS
      <3>1. CASE c = b
        BY <1>1, <2>1, <3>1 DEF CreateState
      <3>2. CASE c # b
        BY <2>1, <3>2 DEF PipeInv
      <3> QED
        BY <3>1, <3>2
    <2>4. \A k \in Kind : set[k] # NoBlock => set[k] \in StateBlock /\ made'[set[k]] = made[set[k]]
      <3> SUFFICES ASSUME NEW k \in Kind, set[k] # NoBlock
                   PROVE  set[k] \in StateBlock /\ made'[set[k]] = made[set[k]]
        OBVIOUS
      <3>1. set[k] \in StateBlock /\ made[set[k]] # NoBlock
        BY DEF PipeInv
      <3> QED
        BY <2>1, <2>2, <3>1
    <2>5. \A k \in Kind :
             IF set'[k] = NoBlock THEN bound'[k] = Default
             ELSE /\ made'[set'[k]] # NoBlock /\ made'[set'[k]].asked.kind = k
                  /\ bound'[k] = made'[set'[k]].host
      BY <2>2, <2>4 DEF PipeInv
    <2> QED
      BY <2>2, <2>3, <2>5 DEF PipeInv
  <1>2. ASSUME NEW b \in StateBlock, SetState(b) PROVE PipeInv'
    <2>1. PICK d \in StateDesc : made[b] = [asked |-> d, host |-> Translated(interface, d)]
      BY <1>2 DEF SetState, PipeInv
    <2>2. d.kind \in Kind
      BY PipelineStateAssumption DEF BlendDesc, DepthStencilDesc, RasterizerDesc, SamplerDesc, Kind
    <2>3. /\ made' = made
          /\ bound' = [bound EXCEPT ![d.kind] = made[b].host]
          /\ set' = [set EXCEPT ![d.kind] = b]
      BY <1>2, <2>1 DEF SetState
    <2>4. made[b].asked.kind = d.kind /\ made[b] # NoBlock /\ b # NoBlock
      BY <1>2, <2>1, PipelineStateAssumption DEF SetState
    <2> QED
      BY <2>2, <2>3, <2>4 DEF PipeInv
  <1>3. ASSUME NEW b \in StateBlock, DestroyState(b) PROVE PipeInv'
    <2>1. /\ bound' = bound /\ set' = set /\ made' = [made EXCEPT ![b] = NoBlock]
          /\ \A k \in Kind : set[k] # b
      BY <1>3 DEF DestroyState
    <2>2. \A c \in StateBlock : made'[c] = IF c = b THEN NoBlock ELSE made[c]
      BY <2>1 DEF PipeInv
    <2>3. made' = [c \in StateBlock |-> made'[c]]
      BY <2>1 DEF PipeInv
    <2>4. \A k \in Kind : set[k] # NoBlock => set[k] \in StateBlock /\ made'[set[k]] = made[set[k]]
      BY <2>1, <2>2 DEF PipeInv
    <2>5. \A k \in Kind :
             IF set'[k] = NoBlock THEN bound'[k] = Default
             ELSE /\ made'[set'[k]] # NoBlock /\ made'[set'[k]].asked.kind = k
                  /\ bound'[k] = made'[set'[k]].host
      BY <2>1, <2>4 DEF PipeInv
    <2>6. \A c \in StateBlock : made'[c] # NoBlock =>
             \E d \in StateDesc : /\ Describable(interface', d)
                                  /\ made'[c] = [asked |-> d, host |-> Translated(interface', d)]
      <3> SUFFICES ASSUME NEW c \in StateBlock, made'[c] # NoBlock
                   PROVE  \E d \in StateDesc :
                             /\ Describable(interface', d)
                             /\ made'[c] = [asked |-> d, host |-> Translated(interface', d)]
        OBVIOUS
      <3>1. made'[c] = made[c]
        BY <2>2
      <3> QED
        BY <3>1 DEF PipeInv
    <2>7. bound' = bound /\ set' = set
      BY <2>1
    <2> QED
      BY <2>3, <2>5, <2>6, <2>7 DEF PipeInv
  <1>4. ASSUME NEW k \in Kind, SetNone(k) PROVE PipeInv'
    BY <1>4 DEF SetNone, PipeInv
  <1> QED
    BY <1>1, <1>2, <1>3, <1>4 DEF PipelineStep

\* So draws are done with what was described.
LEMMA PipeInvDraws == PipeInv => DrawsAsAsked
  <1> SUFFICES ASSUME PipeInv, NEW k \in Kind, set[k] # NoBlock
               PROVE  /\ bound[k].kind = k
                      /\ HostEffect(bound[k]) = Effect(made[set[k]].asked)
    BY DEF PipeInv, DrawsAsAsked
  <1>1. /\ set[k] \in StateBlock /\ made[set[k]] # NoBlock
        /\ made[set[k]].asked.kind = k /\ bound[k] = made[set[k]].host
    BY DEF PipeInv
  <1>2. PICK d \in StateDesc :
           Describable(interface, d) /\ made[set[k]] = [asked |-> d, host |-> Translated(interface, d)]
    BY <1>1 DEF PipeInv
  <1>3. interface \in {"11.0", "11.1"}
    BY <1>1 DEF PipeInv
  <1>4. made[set[k]].asked = d /\ bound[k] = Translated(interface, d)
    BY <1>1, <1>2
  <1> QED
    BY <1>1, <1>2, <1>3, <1>4, TranslationMeans

-----------------------------------------------------------------------------
(* The chain of objects. *)

\* Where the steps of the creation are that do something of their own.
LEMMA CreationFacts ==
    /\ Len(Creation) = 25
    /\ \A i \in 1 .. 25 :
        /\ Creation[i] = "vulkan" <=> i = 1
        /\ Creation[i] = "icd" <=> i = 2
        /\ Creation[i] = "icd entry point" <=> i = 3
        /\ Creation[i] = "instance" <=> i = 6
        /\ Creation[i] = "factory" <=> i = 7
        /\ Creation[i] = "adapter" <=> i = 8
        /\ Creation[i] = "pipeline level" <=> i = 9
        /\ Creation[i] = "d3d11" <=> i = 10
        /\ Creation[i] \notin Locals
  BY DEF Creation, Locals

\* The place of a step.
Place(s) ==
    CASE s = "vulkan" -> 1 [] s = "icd" -> 2 [] s = "icd entry point" -> 3
      [] s = "loader entry points" -> 4 [] s = "extensions" -> 5 [] s = "instance" -> 6
      [] s = "factory" -> 7 [] s = "adapter" -> 8 [] s = "pipeline level" -> 9
      [] s = "d3d11" -> 10 [] s = "pDev1" -> 11 [] s = "pDev2" -> 12
      [] s = "pDev3" -> 13 [] s = "pDev5" -> 14 [] s = "pCtx1" -> 15
      [] s = "pCtx2" -> 16 [] s = "pCtx3" -> 17 [] s = "pCtx4" -> 18
      [] s = "vulkan handles" -> 19 [] s = "entry points" -> 20 [] s = "pPresentFence" -> 21
      [] s = "present.context" -> 22 [] s = "context init" -> 23 [] s = "paging.queue" -> 24
      [] s = "function tables" -> 25

\* No step is there twice.
LEMMA CreationInjective ==
    ASSUME NEW i \in 1 .. 25, NEW j \in 1 .. 25, Creation[i] = Creation[j]
    PROVE  i = j
  <1>1. /\ Creation[1] = "vulkan" /\ Creation[2] = "icd" /\ Creation[3] = "icd entry point"
        /\ Creation[4] = "loader entry points" /\ Creation[5] = "extensions" /\ Creation[6] = "instance"
        /\ Creation[7] = "factory" /\ Creation[8] = "adapter" /\ Creation[9] = "pipeline level"
        /\ Creation[10] = "d3d11" /\ Creation[11] = "pDev1" /\ Creation[12] = "pDev2"
        /\ Creation[13] = "pDev3" /\ Creation[14] = "pDev5" /\ Creation[15] = "pCtx1"
        /\ Creation[16] = "pCtx2" /\ Creation[17] = "pCtx3" /\ Creation[18] = "pCtx4"
        /\ Creation[19] = "vulkan handles" /\ Creation[20] = "entry points" /\ Creation[21] = "pPresentFence"
        /\ Creation[22] = "present.context" /\ Creation[23] = "context init" /\ Creation[24] = "paging.queue"
        /\ Creation[25] = "function tables"
    BY DEF Creation
  <1>2. /\ Place("vulkan") = 1 /\ Place("icd") = 2 /\ Place("icd entry point") = 3
        /\ Place("loader entry points") = 4 /\ Place("extensions") = 5 /\ Place("instance") = 6
        /\ Place("factory") = 7 /\ Place("adapter") = 8 /\ Place("pipeline level") = 9
        /\ Place("d3d11") = 10 /\ Place("pDev1") = 11 /\ Place("pDev2") = 12
        /\ Place("pDev3") = 13 /\ Place("pDev5") = 14 /\ Place("pCtx1") = 15
        /\ Place("pCtx2") = 16 /\ Place("pCtx3") = 17 /\ Place("pCtx4") = 18
        /\ Place("vulkan handles") = 19 /\ Place("entry points") = 20 /\ Place("pPresentFence") = 21
        /\ Place("present.context") = 22 /\ Place("context init") = 23 /\ Place("paging.queue") = 24
        /\ Place("function tables") = 25
    BY DEF Place
  <1>3. \A k \in 1 .. 25 : Place(Creation[k]) = k
    <2> SUFFICES ASSUME NEW k \in 1 .. 25 PROVE Place(Creation[k]) = k
      OBVIOUS
    <2>1. CASE k = 1
      BY <1>1, <1>2, <2>1
    <2>2. CASE k = 2
      BY <1>1, <1>2, <2>2
    <2>3. CASE k = 3
      BY <1>1, <1>2, <2>3
    <2>4. CASE k = 4
      BY <1>1, <1>2, <2>4
    <2>5. CASE k = 5
      BY <1>1, <1>2, <2>5
    <2>6. CASE k = 6
      BY <1>1, <1>2, <2>6
    <2>7. CASE k = 7
      BY <1>1, <1>2, <2>7
    <2>8. CASE k = 8
      BY <1>1, <1>2, <2>8
    <2>9. CASE k = 9
      BY <1>1, <1>2, <2>9
    <2>10. CASE k = 10
      BY <1>1, <1>2, <2>10
    <2>11. CASE k = 11
      BY <1>1, <1>2, <2>11
    <2>12. CASE k = 12
      BY <1>1, <1>2, <2>12
    <2>13. CASE k = 13
      BY <1>1, <1>2, <2>13
    <2>14. CASE k = 14
      BY <1>1, <1>2, <2>14
    <2>15. CASE k = 15
      BY <1>1, <1>2, <2>15
    <2>16. CASE k = 16
      BY <1>1, <1>2, <2>16
    <2>17. CASE k = 17
      BY <1>1, <1>2, <2>17
    <2>18. CASE k = 18
      BY <1>1, <1>2, <2>18
    <2>19. CASE k = 19
      BY <1>1, <1>2, <2>19
    <2>20. CASE k = 20
      BY <1>1, <1>2, <2>20
    <2>21. CASE k = 21
      BY <1>1, <1>2, <2>21
    <2>22. CASE k = 22
      BY <1>1, <1>2, <2>22
    <2>23. CASE k = 23
      BY <1>1, <1>2, <2>23
    <2>24. CASE k = 24
      BY <1>1, <1>2, <2>24
    <2>25. CASE k = 25
      BY <1>1, <1>2, <2>25
    <2> QED
      BY <2>1, <2>2, <2>3, <2>4, <2>5, <2>6, <2>7, <2>8, <2>9, <2>10,
         <2>11, <2>12, <2>13, <2>14, <2>15, <2>16, <2>17, <2>18, <2>19, <2>20,
         <2>21, <2>22, <2>23, <2>24, <2>25
  <1> QED
    BY <1>3

\* No two steps gain the same object.
LEMMA GainsDisjoint ==
    ASSUME NEW i \in 1 .. 25, NEW j \in 1 .. 25, i # j
    PROVE  Gains(Creation[i]) \intersect Gains(Creation[j]) = {}
  <1>1. Creation[i] # Creation[j]
    BY CreationInjective
  <1>2. Creation[i] \notin Locals /\ Creation[j] \notin Locals
    BY CreationFacts
  <1> QED
    BY <1>1, <1>2 DEF Gains

\* What the last part of the destruction lets go of, and that it is everything
\* that is left of a device.
LEMMA DestructionFacts ==
    /\ Len(Destruction) = 15
    /\ \A i \in 1 .. 15 :
        /\ Destruction[i] = "instance" <=> i = 13
        /\ Destruction[i] = "vulkan" <=> i = 14
        /\ Destruction[i] = "icd" <=> i = 15
        /\ i >= 13 => Destruction[i] \notin DxvkObject
  BY DEF Destruction, DxvkObject, Locals, Dev, Ctx

\* Everything but the factory and the local references is let go of.
LEMMA DestructionComplete ==
    ASSUME NEW x \in Object, x # "factory", x \notin Locals
    PROVE  \E i \in 1 .. 15 : x = Destruction[i]
  <1>1. \A i \in 1 .. 15 : Destruction[i] \in {Destruction[k] : k \in 1 .. 15}
    OBVIOUS
  <1>2. Object \ ({"factory"} \union Locals) \subseteq {Destruction[k] : k \in 1 .. 15}
    <2>1. /\ Destruction[1] = "pPresentFence" /\ Destruction[2] = "pCtx1"
          /\ Destruction[3] = "pCtx2" /\ Destruction[4] = "pCtx3" /\ Destruction[5] = "pCtx4"
          /\ Destruction[6] = "pDev1" /\ Destruction[7] = "pDev2"
          /\ Destruction[8] = "pDev3" /\ Destruction[9] = "pDev5"
          /\ Destruction[10] = "paging.queue" /\ Destruction[11] = "present.context"
          /\ Destruction[12] = "adapter" /\ Destruction[13] = "instance"
          /\ Destruction[14] = "vulkan" /\ Destruction[15] = "icd"
      BY DEF Destruction
    <2> QED
      BY <1>1, <2>1 DEF Object, DxvkObject, Locals, Dev, Ctx
  <1> QED
    BY <1>2

\* An object is held once, by the field that names it.
RefsMatch == refs = [x \in Object |-> IF x \in fields THEN 1 ELSE 0]

\* Every layer is there while something uses it.
Layered ==
    /\ fields \intersect DxvkObject # {} => "instance" \in fields
    /\ "instance" \in fields => {"vulkan", "icd"} \subseteq fields

\* What a creation has gained so far, and what it was asked for.
Creating ==
    /\ step \in 1 .. 26
    /\ \A i \in 1 .. 25 : i >= step => Gains(Creation[i]) \intersect fields = {}
    /\ step <= 6 => fields \subseteq {"vulkan", "icd"}
    /\ step >= 2 => "vulkan" \in fields
    /\ step >= 3 => "icd" \in fields
    /\ step >= 7 => "instance" \in fields
    /\ "factory" \in fields <=> step = 8
    /\ step <= 10 => level \in Levels
    /\ step >= 11 => level = None

DeviceInv ==
    /\ offered \subseteq {"11.0", "11.1"}
    /\ adapter \in {None} \union SUBSET {"venus", "drm"}
    /\ phase \in {"none", "create", "unwind", "live", "destroy"}
    /\ fields \subseteq Object /\ RefsMatch /\ Layered
    /\ phase = "none" => fields = {} /\ interface = None
    /\ phase # "none" => adapter # None /\ interface \in offered
    /\ phase # "create" => level = None
    /\ phase = "create" => Creating
    /\ phase = "unwind" =>
        /\ step \in 1 .. 25 /\ "factory" \notin fields
        /\ Creation[step] \notin {"pipeline level", "function tables"}
    /\ phase = "live" => step \in 1 .. 26 /\ "factory" \notin fields /\ fields \intersect Locals = {}
    /\ phase = "destroy" =>
        /\ step \in 1 .. 16
        /\ \A x \in fields : \E i \in step .. 15 : x = Destruction[i]
    /\ phase # "live" => made = [b \in StateBlock |-> NoBlock]

\* What the references are, then.
LEMMA RefsOne ==
    ASSUME RefsMatch
    PROVE  refs \in [Object -> Int] /\ \A x \in Object : refs[x] = IF x \in fields THEN 1 ELSE 0
  BY DEF RefsMatch

\* Taking objects that are not held, and giving back objects that are.
LEMMA RefsFollow ==
    ASSUME RefsMatch, NEW xs \in SUBSET Object, NEW ys \in SUBSET Object,
           xs \intersect fields = {}, ys \subseteq fields \ xs,
           refs' = [x \in Object |-> IF x \in ys THEN refs[x] - 1 ELSE Taken(xs)[x]],
           fields' = (fields \union xs) \ ys
    PROVE  RefsMatch'
  BY DEF RefsMatch, Taken

\* Giving back objects that are held.
LEMMA RefsReleased ==
    ASSUME RefsMatch, NEW ys \in SUBSET Object, ys \subseteq fields,
           refs' = Released(ys), fields' = fields \ ys
    PROVE  RefsMatch'
  BY DEF RefsMatch, Released

\* Only objects are gained and dropped.
LEMMA GainsObjects ==
    ASSUME NEW s
    PROVE  Gains(s) \subseteq Object /\ Drops(s) \subseteq Object /\ DropsOnFailure(s) \subseteq Object
  BY DEF Gains, Drops, DropsOnFailure, Object, DxvkObject, Locals

\* A step of the creation.
LEMMA CreateStepKeeps == DeviceInv /\ CreateStep /\ UNCHANGED <<adapterVars, pipelineVars>> => DeviceInv'
  <1> SUFFICES ASSUME DeviceInv, CreateStep, UNCHANGED <<adapterVars, pipelineVars>> PROVE DeviceInv'
    OBVIOUS
  <1> DEFINE s == Creation[step]
  <1>0. /\ adapter' = adapter /\ offered' = offered /\ made' = made
        /\ phase = "create" /\ phase' = "create" /\ interface' = interface /\ step' = step + 1
        /\ Creating /\ RefsMatch /\ Layered /\ fields \subseteq Object /\ step \in 1 .. 25
    <2>1. adapter' = adapter /\ offered' = offered /\ made' = made
      BY DEF adapterVars, pipelineVars
    <2>2. /\ phase = "create" /\ phase' = "create" /\ interface' = interface /\ step' = step + 1
          /\ step <= 25
      BY CreationFacts DEF CreateStep
    <2>3. Creating /\ RefsMatch /\ Layered /\ fields \subseteq Object
      BY <2>2 DEF DeviceInv
    <2>4. step \in 1 .. 25
      BY <2>2, <2>3 DEF Creating
    <2> QED
      BY <2>1, <2>2, <2>3, <2>4
  <1>1. /\ fields' = (fields \union Gains(s)) \ Drops(s)
        /\ refs' = [x \in Object |-> IF x \in Drops(s) THEN refs[x] - 1 ELSE Taken(Gains(s))[x]]
        /\ level' = IF s = "d3d11" THEN None ELSE level
    BY DEF CreateStep
  <1>2. /\ s = "vulkan" <=> step = 1
        /\ s = "icd" <=> step = 2
        /\ s = "icd entry point" <=> step = 3
        /\ s = "instance" <=> step = 6
        /\ s = "factory" <=> step = 7
        /\ s = "adapter" <=> step = 8
        /\ s = "pipeline level" <=> step = 9
        /\ s = "d3d11" <=> step = 10
    BY <1>0, CreationFacts
  <1>3. Gains(s) \subseteq Object /\ Drops(s) \subseteq Object
    BY GainsObjects
  <1>4. Gains(s) \intersect fields = {}
    BY <1>0 DEF Creating
  <1>5. Drops(s) = IF step = 8 THEN {"factory"} ELSE {}
    BY <1>2 DEF Drops
  <1>6. \A i \in 1 .. 25 : i >= step + 1 => Gains(Creation[i]) \intersect (fields \union Gains(s)) = {}
    BY <1>0, GainsDisjoint DEF Creating
  <1>7. "factory" \in Gains(s) <=> step = 7
    BY <1>2 DEF Gains, Object, DxvkObject, Locals
  <1>8. /\ step = 1 => Gains(s) = {"vulkan"}
        /\ step = 2 => Gains(s) = {"icd"}
        /\ step = 6 => Gains(s) = {"instance"}
        /\ step \in {3, 4, 5} => Gains(s) = {}
    <2>1. step = 1 => Gains(s) = {"vulkan"}
      BY <1>2 DEF Gains, Object
    <2>2. step = 2 => Gains(s) = {"icd"}
      BY <1>2 DEF Gains, Object
    <2>3. step = 6 => Gains(s) = {"instance"}
      BY <1>2 DEF Gains, Object
    <2>4. Creation[3] = "icd entry point" /\ Creation[4] = "loader entry points" /\ Creation[5] = "extensions"
      BY DEF Creation
    <2>5. step \in {3, 4, 5} => Gains(s) = {}
      BY <2>4 DEF Gains, Object, DxvkObject, Locals, Dev, Ctx
    <2> QED
      BY <2>1, <2>2, <2>3, <2>5
  <1>9. RefsMatch'
    <2>1. Drops(s) \subseteq fields \ Gains(s)
      BY <1>0, <1>5, <1>7 DEF Creating
    <2> HIDE DEF s
    <2> QED
      BY <1>0, <1>1, <1>3, <1>4, <2>1, RefsFollow
  <1>10. Creating'
    <2> HIDE DEF s
    <2>1. step' \in 1 .. 26
      BY <1>0
    <2>2. \A i \in 1 .. 25 : i >= step' => Gains(Creation[i]) \intersect fields' = {}
      BY <1>0, <1>1, <1>6
    <2>3. step' <= 6 => fields' \subseteq {"vulkan", "icd"}
      BY <1>0, <1>1, <1>5, <1>8 DEF Creating
    <2>4. /\ step' >= 2 => "vulkan" \in fields'
          /\ step' >= 3 => "icd" \in fields'
          /\ step' >= 7 => "instance" \in fields'
      BY <1>0, <1>1, <1>5, <1>8 DEF Creating
    <2>5. "factory" \in fields' <=> step' = 8
      BY <1>0, <1>1, <1>5, <1>7 DEF Creating
    <2>6. (step' <= 10 => level' \in Levels) /\ (step' >= 11 => level' = None)
      <3>1. step <= 9 => level' = level
        <4>1. s = "d3d11" => step = 10
          BY <1>2
        <4>2. s # "d3d11" => level' = level
          BY <1>1
        <4>3. step <= 9 => step # 10
          OBVIOUS
        <4> QED
          BY <4>1, <4>2, <4>3
      <3>2. step = 10 => level' = None
        BY <1>1, <1>2
      <3>3. step >= 11 => level' = None
        <4>1. level' = level \/ level' = None
          BY <1>1
        <4> QED
          BY <1>0, <4>1 DEF Creating
      <3>4. (step' <= 10 => step <= 9) /\ (step' >= 11 => step = 10 \/ step >= 11)
        BY <1>0
      <3>5. step <= 9 => level \in Levels
        BY <1>0 DEF Creating
      <3> QED
        BY <3>1, <3>2, <3>3, <3>4, <3>5
    <2> QED
      BY <2>1, <2>2, <2>3, <2>4, <2>5, <2>6 DEF Creating
  <1>11. Layered'
    <2>1. fields' \intersect DxvkObject # {} => step' >= 7
      BY <1>10 DEF Creating, DxvkObject, Locals, Dev, Ctx
    <2>2. "instance" \in fields' => step' >= 7
      BY <1>10 DEF Creating
    <2> QED
      BY <1>0, <1>10, <2>1, <2>2 DEF Creating, Layered
  <1>12. fields' \subseteq Object
    BY <1>0, <1>1, <1>3
  <1> QED
    BY <1>0, <1>9, <1>10, <1>11, <1>12 DEF DeviceInv

\* The other steps of the device.
LEMMA CreateDeviceKeeps == DeviceInv /\ CreateDevice /\ UNCHANGED <<adapterVars, pipelineVars>> => DeviceInv'
  <1> SUFFICES ASSUME DeviceInv, CreateDevice, UNCHANGED <<adapterVars, pipelineVars>> PROVE DeviceInv'
    OBVIOUS
  <1>1. adapter' = adapter /\ offered' = offered /\ made' = made
    BY DEF adapterVars, pipelineVars
  <1>2. /\ phase = "none" /\ adapter # None /\ phase' = "create" /\ step' = 1 /\ fields' = {}
        /\ interface' \in offered /\ level' \in Levels /\ refs' = refs /\ fields = {}
    BY DEF CreateDevice, DeviceInv
  <1>3. RefsMatch' /\ Layered' /\ Creating'
    BY <1>2 DEF DeviceInv, RefsMatch, Layered, Creating
  <1> QED
    BY <1>1, <1>2, <1>3 DEF DeviceInv

\* A failure gives back what its early return drops, and was not for the asking.
LEMMA CreateStepFailsKeeps ==
    DeviceInv /\ CreateStepFails /\ UNCHANGED <<adapterVars, pipelineVars>> => DeviceInv'
  <1> SUFFICES ASSUME DeviceInv, CreateStepFails, UNCHANGED <<adapterVars, pipelineVars>> PROVE DeviceInv'
    OBVIOUS
  <1> DEFINE s == Creation[step]
             ys == DropsOnFailure(s)
  <1>0. adapter' = adapter /\ offered' = offered /\ made' = made
    BY DEF adapterVars, pipelineVars
  <1>1. /\ phase = "create" /\ phase' = "unwind" /\ interface' = interface /\ step' = step /\ level' = None
        /\ step <= 25 /\ refs' = Released(ys) /\ fields' = fields \ ys
        /\ s \in {"pipeline level", "function tables"} => ~ Passes(s)
    BY CreationFacts DEF CreateStepFails
  <1>2. /\ Creating /\ RefsMatch /\ Layered /\ fields \subseteq Object
        /\ offered \subseteq {"11.0", "11.1"} /\ interface \in offered /\ adapter # None
    BY <1>1 DEF DeviceInv
  <1>3. step \in 1 .. 25
    <2>1. step \in 1 .. 26
      BY <1>2 DEF Creating
    <2>2. step <= 25
      BY <1>1
    <2> QED
      BY <2>1, <2>2
  <1>4. /\ s = "icd" <=> step = 2
        /\ s = "icd entry point" <=> step = 3
        /\ s = "adapter" <=> step = 8
        /\ s = "pipeline level" <=> step = 9
    BY <1>3, CreationFacts
  <1>5. s \notin {"pipeline level", "function tables"}
    <2>1. s = "pipeline level" => Passes(s)
      <3>1. s = "pipeline level" => level \in Levels
        <4>1. s = "pipeline level" => step = 9
          BY <1>4
        <4>2. step = 9 => level \in Levels
          BY <1>2 DEF Creating
        <4> QED
          BY <4>1, <4>2
      <3> QED
        BY <3>1 DEF Passes, AcceptedLevels, Levels
    <2>2. s = "function tables" => Passes(s)
      BY <1>2 DEF Passes, Tables
    <2> QED
      BY <1>1, <2>1, <2>2
  <1>6. ys = IF step = 2 THEN {"vulkan"} ELSE IF step = 3 THEN {"icd", "vulkan"}
             ELSE IF step = 8 THEN {"factory"} ELSE {}
    BY <1>4 DEF DropsOnFailure, Drops
  <1>7. ys \subseteq fields
    BY <1>2, <1>6 DEF Creating
  <1>8. RefsMatch'
    <2>1. ys \in SUBSET Object
      BY <1>2, <1>7
    <2> HIDE DEF ys
    <2> QED
      BY <1>1, <1>2, <1>7, <2>1, RefsReleased
  <1>9. "factory" \notin fields'
    <2>1. "factory" \in fields <=> step = 8
      BY <1>2 DEF Creating
    <2>2. step = 8 => "factory" \in ys
      BY <1>6
    <2> QED
      BY <1>1, <2>1, <2>2
  <1>10. Layered'
    <2>1. CASE step \in {2, 3}
      <3>1. fields' \subseteq {"icd"}
        <4>1. fields \subseteq {"vulkan", "icd"}
          BY <1>2, <2>1 DEF Creating
        <4>2. "vulkan" \in ys
          BY <1>6, <2>1
        <4> QED
          BY <1>1, <4>1, <4>2
      <3>2. "icd" \notin DxvkObject
        BY DEF DxvkObject, Locals, Dev, Ctx
      <3> QED
        BY <3>1, <3>2 DEF Layered
    <2>2. CASE step \notin {2, 3}
      <3>1. fields' \subseteq fields /\ ({"instance", "vulkan", "icd"} \intersect fields \subseteq fields')
        BY <1>1, <1>6, <2>2
      <3> QED
        BY <1>2, <3>1 DEF Layered
    <2> QED
      BY <2>1, <2>2
  <1>11. fields' \subseteq Object
    BY <1>1, <1>2
  <1> HIDE DEF ys
  <1> QED
    BY <1>0, <1>1, <1>2, <1>3, <1>5, <1>8, <1>9, <1>10, <1>11 DEF DeviceInv

\* Objects of DXVK that the cleanup attributes release.
LEMMA LocalsLayered ==
    ASSUME Layered, fields' = fields \ Locals
    PROVE  Layered'
  <1>1. {"instance", "vulkan", "icd"} \intersect fields \subseteq fields'
    BY DEF Locals
  <1> QED
    BY <1>1 DEF Layered

\* Their references go with them.
LEMMA LocalsReleased ==
    ASSUME RefsMatch, fields \subseteq Object, fields' = fields \ Locals, refs' = Released(Locals \intersect fields)
    PROVE  RefsMatch'
  <1>1. fields' = fields \ (Locals \intersect fields) /\ (Locals \intersect fields) \in SUBSET Object
    OBVIOUS
  <1> QED
    BY <1>1, RefsReleased

\* After the cleanup attributes everything is left to the destruction.
LEMMA UnwindKeeps == DeviceInv /\ Unwind /\ UNCHANGED <<adapterVars, pipelineVars>> => DeviceInv'
  <1> SUFFICES ASSUME DeviceInv, Unwind, UNCHANGED <<adapterVars, pipelineVars>> PROVE DeviceInv'
    OBVIOUS
  <1>0. adapter' = adapter /\ offered' = offered /\ made' = made
    BY DEF adapterVars, pipelineVars
  <1>1. /\ phase = "unwind" /\ phase' = "destroy" /\ step' = 1 /\ interface' = interface /\ level' = level
        /\ refs' = Released(Locals \intersect fields) /\ fields' = fields \ Locals
    BY DEF Unwind
  <1>2. /\ RefsMatch /\ Layered /\ fields \subseteq Object /\ "factory" \notin fields
    BY <1>1 DEF DeviceInv
  <1>3. RefsMatch' /\ Layered'
    BY <1>1, <1>2, LocalsReleased, LocalsLayered
  <1>4. \A x \in fields' : \E i \in step' .. 15 : x = Destruction[i]
    BY <1>1, <1>2, DestructionComplete
  <1>5. fields' \subseteq Object
    BY <1>1, <1>2
  <1>6. level' = None /\ adapter # None /\ interface \in offered
    BY <1>1 DEF DeviceInv
  <1>7. step' \in 1 .. 16
    BY <1>1
  <1> QED
    BY <1>0, <1>1, <1>3, <1>4, <1>5, <1>6, <1>7 DEF DeviceInv

\* A device that was made has neither factory nor local references.
LEMMA CreateReturnsKeeps == DeviceInv /\ CreateReturns /\ UNCHANGED <<adapterVars, pipelineVars>> => DeviceInv'
  <1> SUFFICES ASSUME DeviceInv, CreateReturns, UNCHANGED <<adapterVars, pipelineVars>> PROVE DeviceInv'
    OBVIOUS
  <1>0. adapter' = adapter /\ offered' = offered /\ made' = made
    BY DEF adapterVars, pipelineVars
  <1>1. /\ phase = "create" /\ step = 26 /\ phase' = "live" /\ step' = step /\ interface' = interface
        /\ refs' = Released(Locals \intersect fields) /\ fields' = fields \ Locals
        /\ level' = level
    <2>1. step = Len(Creation) + 1
      BY DEF CreateReturns
    <2>2. Len(Creation) = 25
      BY CreationFacts
    <2>3. step = 26
      BY <2>1, <2>2
    <2> QED
      BY <2>3 DEF CreateReturns
  <1>2. /\ RefsMatch /\ Layered /\ fields \subseteq Object /\ "factory" \notin fields /\ level = None
    BY <1>1 DEF DeviceInv, Creating
  <1>3. RefsMatch' /\ Layered'
    BY <1>1, <1>2, LocalsReleased, LocalsLayered
  <1>4. /\ fields' \subseteq Object /\ "factory" \notin fields' /\ fields' \intersect Locals = {}
        /\ level' = None
    BY <1>1, <1>2
  <1>5. step' \in 1 .. 26
    BY <1>1
  <1> QED
    BY <1>0, <1>1, <1>3, <1>4, <1>5 DEF DeviceInv

\* A device without state objects is destroyed from its first object on.
LEMMA DestroyDeviceKeeps == DeviceInv /\ PipeInv /\ DestroyDevice /\ UNCHANGED <<adapterVars, pipelineVars>> => DeviceInv'
  <1> SUFFICES ASSUME DeviceInv, PipeInv, DestroyDevice, UNCHANGED <<adapterVars, pipelineVars>> PROVE DeviceInv'
    OBVIOUS
  <1>0. adapter' = adapter /\ offered' = offered /\ made' = made
    BY DEF adapterVars, pipelineVars
  <1>1. /\ phase = "live" /\ phase' = "destroy" /\ step' = 1 /\ fields' = fields /\ refs' = refs
        /\ interface' = interface /\ level' = level /\ \A b \in StateBlock : made[b] = NoBlock
    BY DEF DestroyDevice
  <1>2. /\ RefsMatch /\ Layered /\ fields \subseteq Object /\ "factory" \notin fields
        /\ fields \intersect Locals = {} /\ level = None
    BY <1>1 DEF DeviceInv
  <1>3. \A x \in fields' : \E i \in step' .. 15 : x = Destruction[i]
    BY <1>1, <1>2, DestructionComplete
  <1>4. made' = [b \in StateBlock |-> NoBlock]
    BY <1>0, <1>1 DEF PipeInv
  <1>5. RefsMatch' /\ Layered'
    BY <1>1, <1>2 DEF RefsMatch, Layered
  <1>6. step' \in 1 .. 16
    BY <1>1
  <1> QED
    BY <1>0, <1>1, <1>2, <1>3, <1>4, <1>5, <1>6 DEF DeviceInv

\* Each step of the destruction lets go of the next object.
LEMMA DestroyStepKeeps == DeviceInv /\ DestroyStep /\ UNCHANGED <<adapterVars, pipelineVars>> => DeviceInv'
  <1> SUFFICES ASSUME DeviceInv, DestroyStep, UNCHANGED <<adapterVars, pipelineVars>> PROVE DeviceInv'
    OBVIOUS
  <1> DEFINE x == Destruction[step]
  <1>0. adapter' = adapter /\ offered' = offered /\ made' = made
    BY DEF adapterVars, pipelineVars
  <1>1. /\ phase = "destroy" /\ phase' = "destroy" /\ step' = step + 1 /\ fields' = fields \ {x}
        /\ refs' = Released({x} \intersect fields) /\ interface' = interface /\ level' = level
    BY DEF DestroyStep
  <1>2. step <= 15
    BY DestructionFacts DEF DestroyStep
  <1>3. /\ RefsMatch /\ Layered /\ fields \subseteq Object /\ level = None /\ step \in 1 .. 15
        /\ \A y \in fields : \E i \in step .. 15 : y = Destruction[i]
    <2>1. /\ RefsMatch /\ Layered /\ fields \subseteq Object /\ level = None /\ step \in 1 .. 16
          /\ \A y \in fields : \E i \in step .. 15 : y = Destruction[i]
      BY <1>1 DEF DeviceInv
    <2> QED
      BY <1>2, <2>1
  <1>4. RefsMatch'
    <2>1. fields' = fields \ ({x} \intersect fields) /\ ({x} \intersect fields) \in SUBSET Object
      BY <1>1, <1>3
    <2> HIDE DEF x
    <2> QED
      BY <1>1, <1>3, <2>1, RefsReleased
  <1>5. \A y \in fields' : \E i \in step' .. 15 : y = Destruction[i]
    <2> SUFFICES ASSUME NEW y \in fields' PROVE \E i \in step' .. 15 : y = Destruction[i]
      OBVIOUS
    <2>1. PICK i \in step .. 15 : y = Destruction[i]
      BY <1>1, <1>3
    <2>2. i # step
      BY <1>1, <2>1
    <2> QED
      BY <1>1, <1>3, <2>1, <2>2
  <1>6. Layered'
    <2>1. CASE step < 13
      <3>1. x \notin {"instance", "vulkan", "icd"}
        BY <1>3, <2>1, DestructionFacts
      <3> QED
        BY <1>1, <1>3, <3>1 DEF Layered
    <2>2. CASE step >= 13
      <3>1. \A y \in fields' : \E i \in 14 .. 15 : y = Destruction[i]
        BY <1>1, <1>3, <1>5, <2>2
      <3>2. \A y \in fields' : y \notin DxvkObject /\ y # "instance"
        BY <3>1, DestructionFacts
      <3> QED
        BY <3>2 DEF Layered
    <2> QED
      BY <1>3, <2>1, <2>2
  <1>7. step' \in 1 .. 16 /\ fields' \subseteq Object
    BY <1>1, <1>3
  <1> QED
    BY <1>0, <1>1, <1>3, <1>4, <1>5, <1>6, <1>7 DEF DeviceInv

\* At its end nothing is left.
LEMMA DestroyReturnsKeeps == DeviceInv /\ DestroyReturns /\ UNCHANGED <<adapterVars, pipelineVars>> => DeviceInv'
  <1> SUFFICES ASSUME DeviceInv, DestroyReturns, UNCHANGED <<adapterVars, pipelineVars>> PROVE DeviceInv'
    OBVIOUS
  <1>0. adapter' = adapter /\ offered' = offered /\ made' = made
    BY DEF adapterVars, pipelineVars
  <1>1. /\ phase = "destroy" /\ phase' = "none" /\ step' = 1 /\ fields' = {}
        /\ refs' = refs /\ interface' = None /\ level' = level
    BY DEF DestroyReturns
  <1>2. step = 16
    BY DestructionFacts DEF DestroyReturns
  <1>3. /\ RefsMatch /\ level = None
        /\ \A y \in fields : \E i \in step .. 15 : y = Destruction[i]
    BY <1>1 DEF DeviceInv
  <1>4. fields = {}
    BY <1>2, <1>3
  <1>5. RefsMatch' /\ Layered'
    BY <1>1, <1>3, <1>4 DEF RefsMatch, Layered
  <1> QED
    BY <1>0, <1>1, <1>3, <1>5 DEF DeviceInv

\* What is left of a device does not depend on the rest of the state.
LEMMA DeviceUntouched ==
    ASSUME DeviceInv, UNCHANGED deviceVars, made' = made \/ (phase = "live"),
           adapter' \in {None} \union SUBSET {"venus", "drm"}, offered' \subseteq {"11.0", "11.1"},
           phase # "none" => adapter' # None /\ offered \subseteq offered'
    PROVE  DeviceInv'
  <1>1. /\ phase' = phase /\ step' = step /\ fields' = fields /\ refs' = refs
        /\ interface' = interface /\ level' = level
    BY DEF deviceVars
  <1>2. RefsMatch' = RefsMatch /\ Layered' = Layered /\ Creating' = Creating
    BY <1>1 DEF RefsMatch, Layered, Creating
  <1> QED
    BY <1>1, <1>2 DEF DeviceInv

\* The versions that fit the runtime's array.
LEMMA OfferedVersions ==
    ASSUME NEW n \in 0 .. 3
    PROVE  ToSet(SubSeq(Versions, 1, IF n < Len(Versions) THEN n ELSE Len(Versions))) \subseteq {"11.0", "11.1"}
  <1> DEFINE m == IF n < Len(Versions) THEN n ELSE Len(Versions)
             part == SubSeq(Versions, 1, m)
  <1>1. Versions \in Seq({"11.0", "11.1"}) /\ Len(Versions) = 2
    BY DEF Versions
  <1>2. m \in 0 .. Len(Versions)
    BY <1>1
  <1> HIDE DEF m
  <1>3. part \in Seq({"11.0", "11.1"})
    <2>1. \A i \in 1 .. m : Versions[i] \in {"11.0", "11.1"}
      BY <1>1, <1>2, ElementOfSeq
    <2>2. 1 \in Int /\ m \in Int
      BY <1>1, <1>2
    <2> QED
      BY <2>1, <2>2, SubSeqProperties
  <1>4. \A i \in DOMAIN part : part[i] \in {"11.0", "11.1"}
    BY <1>3, ElementOfSeq, LenProperties
  <1> QED
    BY <1>4 DEF ToSet, m

\* The adapter's steps.
LEMMA AdapterStepKeeps == DeviceInv /\ AdapterStep /\ UNCHANGED <<deviceVars, pipelineVars>> => DeviceInv'
  <1> SUFFICES ASSUME DeviceInv, AdapterStep, UNCHANGED deviceVars, made' = made PROVE DeviceInv'
    BY DEF pipelineVars
  <1>0. offered \subseteq {"11.0", "11.1"} /\ adapter \in {None} \union SUBSET {"venus", "drm"}
        /\ (phase # "none" => adapter # None)
    BY DEF DeviceInv
  <1>1. ASSUME NEW info \in AdapterInfo, OpenAdapter(info) PROVE DeviceInv'
    <2>1. adapter = None /\ adapter' \in SUBSET {"venus", "drm"} /\ offered' = offered
      BY <1>1 DEF OpenAdapter, AdapterInfo
    <2> QED
      BY <1>0, <2>1, DeviceUntouched
  <1>2. ASSUME NEW n \in 0 .. 3, GetSupportedVersions(n) PROVE DeviceInv'
    <2>1. adapter' = adapter /\ offered \subseteq offered' /\ offered' \subseteq {"11.0", "11.1"}
      BY <1>0, <1>2, OfferedVersions DEF GetSupportedVersions
    <2> QED
      BY <1>0, <2>1, DeviceUntouched
  <1>3. CASE phase = "none" /\ CloseAdapter
    <2>1. adapter' = None /\ offered' = {}
      BY <1>3 DEF CloseAdapter
    <2> QED
      BY <1>0, <1>3, <2>1, DeviceUntouched
  <1> QED
    BY <1>1, <1>2, <1>3 DEF AdapterStep

-----------------------------------------------------------------------------
(* The driver. *)

DriverInv == LogInv /\ DeviceInv /\ PipeInv

\* Without a live device there is no state object, so the next device may have
\* another interface.
LEMMA PipeUntouched ==
    ASSUME PipeInv, DeviceInv, UNCHANGED pipelineVars,
           interface' = interface \/ phase # "live"
    PROVE  PipeInv'
  <1>1. made' = made /\ bound' = bound /\ set' = set
    BY DEF pipelineVars
  <1>2. CASE interface' = interface
    BY <1>1, <1>2 DEF PipeInv
  <1>3. CASE phase # "live"
    <2>1. \A b \in StateBlock : made[b] = NoBlock
      BY <1>3 DEF DeviceInv
    <2> QED
      BY <1>1, <2>1 DEF PipeInv
  <1> QED
    BY <1>2, <1>3

\* The invariant holds of a driver that was just loaded.
LEMMA DriverInvInit == Init => DriverInv
  <1> SUFFICES ASSUME Init PROVE DriverInv
    OBVIOUS
  <1>1. LogInv
    BY LogInvInit DEF Init
  <1>2. DeviceInv
    BY DEF Init, DeviceInv, AdapterInit, PipelineInit, RefsMatch, Layered
  <1>3. PipeInv
    BY DEF Init, PipelineInit, PipeInv
  <1> QED
    BY <1>1, <1>2, <1>3 DEF DriverInv

\* Every step of the driver keeps it.
LEMMA DriverInvKept == DriverInv /\ [Next]_vars => DriverInv'
  <1> SUFFICES ASSUME DriverInv, [Next]_vars PROVE DriverInv'
    OBVIOUS
  <1>0. LogInv /\ DeviceInv /\ PipeInv
    BY DEF DriverInv
  <1>1. CASE DeviceStep /\ UNCHANGED <<logVars, adapterVars, pipelineVars>>
    <2>0. UNCHANGED logVars /\ UNCHANGED <<adapterVars, pipelineVars>> /\ UNCHANGED pipelineVars
      BY <1>1
    <2>1. DeviceInv'
      BY <1>0, <1>1, <2>0, CreateDeviceKeeps, CreateStepKeeps, CreateStepFailsKeeps, UnwindKeeps,
         CreateReturnsKeeps, DestroyDeviceKeeps, DestroyStepKeeps, DestroyReturnsKeeps DEF DeviceStep
    <2>2. interface' = interface \/ phase # "live"
      BY <1>1 DEF DeviceStep, CreateDevice, CreateStep, CreateStepFails, Unwind, CreateReturns,
                  DestroyDevice, DestroyStep, DestroyReturns
    <2> QED
      BY <1>0, <2>0, <2>1, <2>2, LogUntouched, PipeUntouched DEF DriverInv
  <1>2. CASE phase = "live" /\ PipelineStep(interface) /\ UNCHANGED <<logVars, adapterVars, deviceVars>>
    <2>1. UNCHANGED logVars /\ UNCHANGED adapterVars /\ UNCHANGED deviceVars
      BY <1>2
    <2>2. adapter' = adapter /\ offered' = offered /\ interface' = interface
      BY <2>1 DEF adapterVars, deviceVars
    <2>3. /\ interface \in {"11.0", "11.1"} /\ adapter # None
          /\ adapter \in {None} \union SUBSET {"venus", "drm"} /\ offered \subseteq {"11.0", "11.1"}
      BY <1>0, <1>2 DEF DeviceInv
    <2>4. DeviceInv'
      BY <1>0, <1>2, <2>1, <2>2, <2>3, DeviceUntouched
    <2>5. PipeInv'
      BY <1>0, <1>2, <2>2, <2>3, PipelineStepKeeps
    <2> QED
      BY <1>0, <2>1, <2>4, <2>5, LogUntouched DEF DriverInv
  <1>3. CASE AdapterStep /\ UNCHANGED <<logVars, deviceVars, pipelineVars>>
    <2>1. UNCHANGED logVars /\ UNCHANGED <<deviceVars, pipelineVars>> /\ UNCHANGED pipelineVars
      BY <1>3
    <2>2. interface' = interface
      BY <1>3 DEF deviceVars
    <2> QED
      BY <1>0, <1>3, <2>1, <2>2, AdapterStepKeeps, LogUntouched, PipeUntouched DEF DriverInv
  <1>4. CASE LogStep /\ UNCHANGED <<adapterVars, deviceVars, pipelineVars>>
    <2>1. UNCHANGED adapterVars /\ UNCHANGED deviceVars /\ UNCHANGED pipelineVars
      BY <1>4
    <2>2. adapter' = adapter /\ offered' = offered /\ interface' = interface /\ made' = made
      BY <2>1 DEF adapterVars, deviceVars, pipelineVars
    <2>3. /\ adapter \in {None} \union SUBSET {"venus", "drm"} /\ offered \subseteq {"11.0", "11.1"}
          /\ phase # "none" => adapter # None
      BY <1>0 DEF DeviceInv
    <2>4. DeviceInv'
      BY <1>0, <2>1, <2>2, <2>3, DeviceUntouched
    <2> QED
      BY <1>0, <1>4, <2>1, <2>2, <2>4, LogStepKeeps, PipeUntouched DEF DriverInv
  <1>5. CASE UNCHANGED vars
    <2>1. UNCHANGED logVars /\ UNCHANGED adapterVars /\ UNCHANGED deviceVars /\ UNCHANGED pipelineVars
      BY <1>5 DEF vars
    <2>2. adapter' = adapter /\ offered' = offered /\ interface' = interface /\ made' = made
      BY <2>1 DEF adapterVars, deviceVars, pipelineVars
    <2>3. /\ adapter \in {None} \union SUBSET {"venus", "drm"} /\ offered \subseteq {"11.0", "11.1"}
          /\ phase # "none" => adapter # None
      BY <1>0 DEF DeviceInv
    <2>4. DeviceInv'
      BY <1>0, <2>1, <2>2, <2>3, DeviceUntouched
    <2> QED
      BY <1>0, <2>1, <2>2, <2>4, LogUntouched, PipeUntouched DEF DriverInv
  <1> QED
    BY <1>1, <1>2, <1>3, <1>4, <1>5 DEF Next

\* The inductive invariant of the log, the chain of objects and the state
\* objects, for any number of threads, blocks and devices.
THEOREM DriverInvariant == Spec => []DriverInv
  BY DriverInvInit, DriverInvKept, PTL DEF Spec

\* Every reachable state of the driver is well typed, and an object is never
\* held twice (device.c:536-973).
THEOREM DriverTypeCorrect == Spec => []TypeOK
  <1>1. DriverInv => TypeOK
    <2> SUFFICES ASSUME DriverInv PROVE TypeOK
      OBVIOUS
    <2>0. LogInv /\ DeviceInv /\ PipeInv
      BY DEF DriverInv
    <2>1. state \in 0 .. 2 /\ out \in Logger \union {None} /\ open \subseteq Logger
      BY <2>0 DEF LogInv, LogTypes
    <2>2. /\ adapter \in {None} \union SUBSET {"venus", "drm"}
          /\ phase \in {"none", "create", "unwind", "live", "destroy"}
          /\ phase # "none" => adapter # None
          /\ fields \subseteq Object /\ interface \in {None} \union offered
          /\ phase # "live" => made = [b \in StateBlock |-> NoBlock]
      BY <2>0 DEF DeviceInv
    <2>3. offered \subseteq ToSet(Versions)
      <3>1. Len(Versions) = 2 /\ DOMAIN Versions = 1 .. 2 /\ Versions[1] = "11.0" /\ Versions[2] = "11.1"
        BY DEF Versions
      <3>2. "11.0" \in ToSet(Versions) /\ "11.1" \in ToSet(Versions)
        BY <3>1 DEF ToSet
      <3> QED
        BY <2>0, <3>2 DEF DeviceInv
    <2>4. phase # "none" => step \in 1 .. Len(Creation) + 1
      <3>1. Len(Creation) = 25
        BY CreationFacts
      <3>2. phase # "none" => step \in 1 .. 26
        <4>1. phase = "create" => step \in 1 .. 26
          BY <2>0 DEF DeviceInv, Creating
        <4>2. phase \in {"unwind", "live", "destroy"} => step \in 1 .. 26
          <5>1. phase = "unwind" => step \in 1 .. 25
            BY <2>0 DEF DeviceInv
          <5>2. phase = "live" => step \in 1 .. 26
            BY <2>0 DEF DeviceInv
          <5>3. phase = "destroy" => step \in 1 .. 16
            BY <2>0 DEF DeviceInv
          <5> QED
            BY <5>1, <5>2, <5>3
        <4> QED
          BY <2>2, <4>1, <4>2
      <3> QED
        BY <3>1, <3>2
    <2>5. refs \in [Object -> Int] /\ \A x \in Object : refs[x] <= 1
      <3>1. refs \in [Object -> Int] /\ \A x \in Object : refs[x] = IF x \in fields THEN 1 ELSE 0
        BY <2>0, RefsOne DEF DeviceInv
      <3> QED
        BY <3>1
    <2>6. level \in {None} \union Levels /\ (phase # "create" => level = None)
      <3>1. CASE phase = "create"
        BY <2>0, <3>1 DEF DeviceInv, Creating
      <3>2. CASE phase # "create"
        BY <2>0, <3>2 DEF DeviceInv
      <3> QED
        BY <3>1, <3>2
    <2>7. \A b \in StateBlock : made[b] # NoBlock => made[b].asked \in StateDesc
      BY <2>0 DEF PipeInv
    <2>8. set \in [Kind -> StateBlock \union {NoBlock}]
      BY <2>0 DEF PipeInv
    <2> QED
      BY <2>1, <2>2, <2>3, <2>4, <2>5, <2>6, <2>7, <2>8 DEF TypeOK
  <1> QED
    BY DriverInvariant, <1>1, PTL

\* Whatever step of a creation fails, nothing is left behind or released twice
\* (device.c:298-407, 536-973).
THEOREM NothingLeftBehind == Spec => []NothingLeft
  <1>1. DriverInv => NothingLeft
    <2> SUFFICES ASSUME DeviceInv PROVE NothingLeft
      BY DEF DriverInv
    <2>1. \A x \in Object : refs[x] = IF x \in fields THEN 1 ELSE 0
      BY RefsOne DEF DeviceInv
    <2>2. phase = "none" => fields = {}
      BY DEF DeviceInv
    <2> QED
      BY <2>1, <2>2 DEF NothingLeft, Held
  <1> QED
    BY DriverInvariant, <1>1, PTL

\* The Vulkan instance outlives DXVK's objects, and the libraries the instance
\* (device.c:376-400).
THEOREM LayersOrdered == Spec => []LayersOutliveUsers
  <1>1. DriverInv => LayersOutliveUsers
    <2> SUFFICES ASSUME RefsMatch, Layered, fields \subseteq Object PROVE LayersOutliveUsers
      BY DEF DriverInv, DeviceInv
    <2>1. Held = fields
      BY DEF Held, RefsMatch
    <2> QED
      BY <2>1 DEF Layered, LayersOutliveUsers
  <1> QED
    BY DriverInvariant, <1>1, PTL

\* What the driver offers it keeps (device.c:761-778, 912-936; tritonDDI.c).
THEOREM OffersHonoured == Spec => []InterfaceHonoured
  <1>1. DriverInv => InterfaceHonoured
    <2> SUFFICES ASSUME DeviceInv, PipeInv PROVE InterfaceHonoured
      BY DEF DriverInv
    <2>1. phase = "unwind" => Creation[step] \notin {"pipeline level", "function tables"}
      BY DEF DeviceInv
    <2> QED
      BY <2>1, PipeInvDraws DEF InterfaceHonoured
  <1> QED
    BY DriverInvariant, <1>1, PTL

\* However many threads race to set the log up, one file stays open and it is
\* the one that is written (adapter.c:58-64).
THEOREM LogFileUnique == Spec => []OneLogFile
  <1>1. DriverInv => OneLogFile
    BY DEF DriverInv, LogInv
  <1> QED
    BY DriverInvariant, <1>1, PTL
=============================================================================

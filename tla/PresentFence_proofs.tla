------------------------- MODULE PresentFence_proofs -------------------------
(***************************************************************************)
(* Proofs about PresentFence: for any number of threads, commands and      *)
(* values, a frame is flipped only after the GPU is done with it, and the  *)
(* module implements PresentGate.                                          *)
(***************************************************************************)
EXTENDS PresentFence, SequenceTheorems, TLAPS

USE BoundsAssumption

\* What Append does to the stream of commands.
LEMMA AppendCommand ==
    ASSUME NEW s \in Seq(Command), NEW c \in Command
    PROVE  /\ Append(s, c) \in Seq(Command)
           /\ Len(Append(s, c)) = Len(s) + 1
           /\ \A i \in 1..Len(s) : Append(s, c)[i] = s[i]
           /\ Append(s, c)[Len(s) + 1] = c
  OBVIOUS

\* The stream Begin leaves: unchanged, or one command of rendering longer.
LEMMA BeginStream ==
    ASSUME stream \in Seq(Command),
           NEW t \in Thread, NEW k \in {"present", "blt"}, Begin(t, k)
    PROVE  /\ stream' \in Seq(Command)
           /\ Len(stream') \in Nat /\ Len(stream') >= Len(stream)
           /\ \A i \in 1..Len(stream) : stream'[i] = stream[i]
           /\ \A i \in 1..Len(stream') : i > Len(stream) => stream'[i] = Work
  <1>1. CASE k = "blt"
    <2>1. stream' = Append(stream, Work) /\ Work \in Command
      BY <1>1 DEF Begin, Work, Command
    <2> QED
      BY <2>1, AppendCommand, LenProperties
  <1>2. CASE k # "blt"
    BY <1>2, LenProperties DEF Begin
  <1> QED
    BY <1>1, <1>2

\* Every variable stays in its type.
LEMMA TypeStep == TypeOK /\ [Next]_vars => TypeOK'
  <1> SUFFICES ASSUME TypeOK, [Next]_vars PROVE TypeOK'
    OBVIOUS
  <1> USE DEF TypeOK, Place, Command
  <1>0. Len(stream) \in Nat
    BY LenProperties
  <1>1. ASSUME NEW t \in Thread, NEW k \in {"present", "blt"}, Begin(t, k)
        PROVE  TypeOK'
    <2>1. /\ stream' \in Seq(Command)
          /\ Len(stream') \in Nat /\ Len(stream') >= Len(stream)
      BY <1>1, BeginStream
    <2>2. mark' \in [Thread -> 0..Len(stream')]
      BY <1>0, <1>1, <2>1 DEF Begin
    <2>3. presentFenceValue' \in 1..(MaxValue + 1) /\ value' \in [Thread -> Command]
      BY <1>1 DEF Begin, TakeValue
    <2> QED
      BY <1>0, <1>1, <2>1, <2>2, <2>3 DEF Begin, Goto
  <1>2. ASSUME NEW t \in Thread, Signal(t) PROVE TypeOK'
    <2>1. stream' = Append(stream, value[t]) /\ value[t] \in Command
      BY <1>2 DEF Signal
    <2>2. stream' \in Seq(Command) /\ Len(stream') = Len(stream) + 1
      BY <2>1, AppendCommand
    <2> QED
      BY <1>0, <1>2, <2>2 DEF Signal, Goto, call
  <1>3. ASSUME NEW t \in Thread, Flush(t) PROVE TypeOK'
    BY <1>0, <1>3 DEF Flush, Goto, call
  <1>4. ASSUME NEW t \in Thread, CreateEvent(t) PROVE TypeOK'
    BY <1>4 DEF CreateEvent, Goto, call, context
  <1>5. ASSUME NEW t \in Thread, Arm(t) PROVE TypeOK'
    BY <1>5 DEF Arm, Goto, call, context
  <1>6. ASSUME NEW t \in Thread, WaitDone(t) PROVE TypeOK'
    BY <1>6 DEF WaitDone, Return, Goto, call, context
  <1>7. ASSUME NEW t \in Thread, WaitTimeout(t) PROVE TypeOK'
    BY <1>7 DEF WaitTimeout, Return, Goto, call, context
  <1>8. ASSUME NEW t \in Thread, PresentCbReturns(t) PROVE TypeOK'
    BY <1>8 DEF PresentCbReturns, Return, Goto, call, context
  <1>9. ASSUME NEW t \in Thread, CallFails(t) PROVE TypeOK'
    BY <1>9 DEF CallFails, Return, Goto, call, context
  <1>10. CASE Draw
    <2>1. stream' = Append(stream, Work) /\ Work \in Command
      BY <1>10 DEF Draw, Work
    <2>2. stream' \in Seq(Command) /\ Len(stream') = Len(stream) + 1
      BY <2>1, AppendCommand
    <2> QED
      BY <1>0, <1>10, <2>2 DEF Draw, call
  <1>11. CASE ContextSubmits
    BY <1>0, <1>11 DEF ContextSubmits, call
  <1>12. CASE Execute
    <2>1. executed + 1 \in 1..Len(stream)
      BY <1>0, <1>12 DEF Execute
    <2>2. stream[executed + 1] \in Command
      BY <2>1, ElementOfSeq
    <2>3. fence' \in Command /\ event' \in [Thread -> {"none", "unset", "set"}]
      BY <1>12, <2>2 DEF Execute, FenceAfter
    <2> QED
      BY <1>0, <1>12, <2>1, <2>3 DEF Execute, call
  <1>13. CASE UNCHANGED vars
    BY <1>13 DEF vars, context, call
  <1> QED
    BY <1>1, <1>2, <1>3, <1>4, <1>5, <1>6, <1>7, <1>8, <1>9, <1>10, <1>11,
       <1>12, <1>13 DEF Next, Step

\* TypeOK is an invariant: every variable of the present path has its type.
THEOREM TypeCorrect == Spec => []TypeOK
  <1>1. Init => TypeOK
    BY EmptySeq DEF Init, TypeOK, Place, Command, FirstValue
  <1> QED
    BY <1>1, TypeStep, PTL DEF Spec

-----------------------------------------------------------------------------
\* A thread that only moves on, without touching the context, the counter or
\* its event, keeps the invariant, provided it may be where it goes.
LEMMA GateMove ==
    ASSUME TypeOK, GateInv, NEW t \in Thread,
           UNCHANGED <<presentFenceValue, context, call>>,
           event' \in [Thread -> {"none", "unset", "set"}],
           \A u \in Thread : u # t => event'[u] = event[u] /\ pc'[u] = pc[u],
           InSync(t)' => InSync(t),
           event'[t] = "set" => executed >= mark[t],
           pc'[t] = "callback" => executed >= mark[t],
           ~InSync(t)' => event'[t] = "none"
    PROVE  GateInv'
  <1> USE DEF GateInv, context, call
  <1>1. \A u \in Thread : InSync(u)' => InSync(u)
    BY DEF InSync
  <1>2. ValuesTaken' /\ SignalsFollowWork' /\ ValuesDistinct'
    BY <1>1 DEF ValuesTaken, SignalsFollowWork, ValuesDistinct
  <1>3. FenceWasExecuted'
    BY DEF FenceWasExecuted
  <1>4. SetEventMeansDone' /\ FlipAfterGpuDone'
    BY DEF SetEventMeansDone, FlipAfterGpuDone
  <1>5. EventClosed'
    BY DEF EventClosed, InSync
  <1> QED
    BY <1>2, <1>3, <1>4, <1>5

\* A call that has its value holds one the counter has passed.
LEMMA SyncValue ==
    ASSUME TypeOK, GateInv, NEW t \in Thread, InSync(t)
    PROVE  value[t] \in Nat /\ value[t] >= 1 /\ value[t] < presentFenceValue
  <1>1. presentFenceValue \in Nat
    BY DEF TypeOK
  <1>2. value[t] \in 1..(presentFenceValue - 1)
    BY DEF GateInv, ValuesTaken
  <1> QED
    BY <1>1, <1>2

\* Every step preserves the inductive invariant.
LEMMA GateStep == TypeOK /\ GateInv /\ [Next]_vars => GateInv'
  <1> SUFFICES ASSUME TypeOK, GateInv, [Next]_vars PROVE GateInv'
    OBVIOUS
  <1>0. Len(stream) \in Nat /\ stream \in Seq(Command)
    BY LenProperties DEF TypeOK
  <1>t. TypeOK'
    BY TypeStep
  <1>1. ASSUME NEW t \in Thread, NEW k \in {"present", "blt"}, Begin(t, k)
        PROVE  GateInv'
    <2>1. /\ stream' \in Seq(Command)
          /\ Len(stream') \in Nat /\ Len(stream') >= Len(stream)
          /\ \A i \in 1..Len(stream) : stream'[i] = stream[i]
          /\ \A i \in 1..Len(stream') : i > Len(stream) => stream'[i] = 0
      BY <1>0, <1>1, BeginStream DEF Work
    <2>2. /\ presentFenceValue \in Nat \ {0}
          /\ presentFenceValue' = presentFenceValue + 1
          /\ value' = [value EXCEPT ![t] = presentFenceValue]
          /\ mark' = [mark EXCEPT ![t] = Len(stream')]
          /\ pc' = [pc EXCEPT ![t] = "signal"]
          /\ pc[t] = "idle"
          /\ UNCHANGED <<flushed, executed, fence, event>>
      BY <1>1 DEF Begin, TakeValue, Goto, TypeOK
    <2>3. \A i \in 1..Len(stream') : stream'[i] < presentFenceValue
      BY <1>0, <2>1, <2>2 DEF GateInv, ValuesTaken
    <2>4. /\ InSync(t)' /\ ~InSync(t)
          /\ \A u \in Thread : u # t => (InSync(u)' <=> InSync(u))
      BY <2>2 DEF InSync, Place, TypeOK
    <2>a. \A i \in 1..Len(stream') : stream'[i] \in Nat
      BY <2>1, ElementOfSeq DEF Command
    <2>b. ASSUME NEW u \in Thread, InSync(u)' PROVE value'[u] \in 1..presentFenceValue
      <3>1. CASE u = t
        BY <2>2, <3>1 DEF TypeOK
      <3>2. CASE u # t
        BY <2>2, <2>4, <2>b, <3>2, SyncValue DEF TypeOK
      <3> QED
        BY <3>1, <3>2
    <2>5. ValuesTaken'
      BY <2>2, <2>3, <2>a, <2>b DEF ValuesTaken
    <2>6. ASSUME NEW u \in Thread, InSync(u)', NEW i \in 1..Len(stream'),
                 stream'[i] >= value'[u]
          PROVE  mark'[u] < i
      <3>1. CASE u = t
        BY <2>2, <2>3, <2>6, <2>a, <3>1 DEF TypeOK
      <3>2. CASE u # t
        <4>1. value'[u] = value[u] /\ mark'[u] = mark[u] /\ value[u] \in 1..(presentFenceValue - 1)
          BY <2>2, <2>4, <2>6, <3>2 DEF TypeOK, GateInv, ValuesTaken
        <4>2. i <= Len(stream)
          BY <1>0, <2>1, <2>2, <2>6, <4>1
        <4>3. i \in 1..Len(stream) /\ stream[i] >= value[u]
          BY <1>0, <2>1, <2>6, <4>1, <4>2
        <4> QED
          BY <2>4, <2>6, <3>2, <4>1, <4>3 DEF GateInv, SignalsFollowWork
      <3> QED
        BY <3>1, <3>2
    <2>7. SignalsFollowWork'
      BY <2>6 DEF SignalsFollowWork
    <2>8. FenceWasExecuted'
      <3>1. \A i \in 1..executed : i \in 1..Len(stream)
        BY <1>0 DEF TypeOK
      <3> QED
        BY <2>1, <2>2, <3>1 DEF GateInv, FenceWasExecuted
    <2>9. SetEventMeansDone' /\ FlipAfterGpuDone' /\ EventClosed'
      BY <2>2, <2>4 DEF GateInv, SetEventMeansDone, FlipAfterGpuDone, EventClosed, TypeOK
    <2>10. ValuesDistinct'
      BY <2>2, <2>4 DEF GateInv, ValuesDistinct, ValuesTaken, TypeOK
    <2> QED
      BY <2>5, <2>7, <2>8, <2>9, <2>10 DEF GateInv
  <1>2. ASSUME NEW t \in Thread, Signal(t) PROVE GateInv'
    <2>1. /\ stream' = Append(stream, value[t]) /\ value[t] \in Command
          /\ InSync(t) /\ InSync(t)'
          /\ value[t] \in 1..(presentFenceValue - 1)
          /\ pc' = [pc EXCEPT ![t] = "flush"]
          /\ UNCHANGED <<presentFenceValue, flushed, executed, fence, call, event>>
      BY <1>2 DEF Signal, Goto, TypeOK, InSync, Place, GateInv, ValuesTaken
    <2>2. /\ Len(stream') = Len(stream) + 1
          /\ \A i \in 1..Len(stream) : stream'[i] = stream[i]
          /\ stream'[Len(stream) + 1] = value[t]
      BY <1>0, <2>1, AppendCommand
    <2>3. \A u \in Thread : (InSync(u)' <=> InSync(u)) /\ (u # t => pc'[u] = pc[u])
      BY <2>1 DEF InSync, TypeOK
    <2>a. value[t] < presentFenceValue
      BY <2>1, SyncValue
    <2>b. \A i \in 1..Len(stream') : stream'[i] < presentFenceValue
      BY <1>0, <2>2, <2>a DEF GateInv, ValuesTaken
    <2>4. ValuesTaken'
      BY <2>1, <2>3, <2>b DEF GateInv, ValuesTaken, call
    <2>5. SignalsFollowWork'
      BY <1>0, <2>1, <2>2, <2>3 DEF GateInv, SignalsFollowWork, call, TypeOK
    <2>6. FenceWasExecuted'
      BY <1>0, <2>1, <2>2 DEF GateInv, FenceWasExecuted, TypeOK
    <2>7. SetEventMeansDone' /\ FlipAfterGpuDone' /\ EventClosed' /\ ValuesDistinct'
      BY <2>1, <2>3 DEF GateInv, SetEventMeansDone, FlipAfterGpuDone, EventClosed,
         ValuesDistinct, call, TypeOK, InSync, Place
    <2> QED
      BY <2>4, <2>5, <2>6, <2>7 DEF GateInv
  <1>3. ASSUME NEW t \in Thread, Flush(t) PROVE GateInv'
    <2>1. InSync(t) /\ InSync(t)' /\ \A u \in Thread : u # t => pc'[u] = pc[u]
      BY <1>3 DEF Flush, Goto, InSync, Place, TypeOK
    <2> QED
      BY <1>3, <2>1 DEF Flush, Goto, call, GateInv, ValuesTaken, SignalsFollowWork,
         FenceWasExecuted, SetEventMeansDone, FlipAfterGpuDone, EventClosed,
         ValuesDistinct, InSync, Place, TypeOK
  <1>4. ASSUME NEW t \in Thread, CreateEvent(t) PROVE GateInv'
    BY <1>4, GateMove DEF CreateEvent, Goto, InSync, Place, TypeOK
  <1>5. ASSUME NEW t \in Thread, Arm(t) PROVE GateInv'
    <2>1. ASSUME fence >= value[t] PROVE executed >= mark[t]
      <3>0. InSync(t)
        BY <1>5 DEF Arm, InSync, Place
      <3>1. InSync(t) /\ value[t] >= 1
        BY <3>0, SyncValue
      <3>2. PICK i \in 1..executed : stream[i] = fence
        BY <2>1, <3>1 DEF GateInv, FenceWasExecuted, TypeOK, Command
      <3>3. i \in 1..Len(stream) /\ i <= executed
        BY <1>0, <3>2 DEF TypeOK
      <3>4. mark[t] < i
        BY <2>1, <3>1, <3>2, <3>3 DEF GateInv, SignalsFollowWork
      <3> QED
        BY <1>0, <3>3, <3>4 DEF TypeOK
    <2> QED
      BY <1>5, <2>1, GateMove DEF Arm, Goto, InSync, Place, TypeOK
  <1>6. ASSUME NEW t \in Thread, WaitDone(t) PROVE GateInv'
    <2>1. executed >= mark[t]
      BY <1>6 DEF WaitDone, GateInv, SetEventMeansDone
    <2> QED
      BY <1>6, <2>1, GateMove DEF WaitDone, Return, Goto, InSync, Place, TypeOK
  <1>7. ASSUME NEW t \in Thread, WaitTimeout(t) PROVE GateInv'
    BY <1>7, GateMove DEF WaitTimeout, Return, Goto, InSync, Place, TypeOK
  <1>8. ASSUME NEW t \in Thread, PresentCbReturns(t) PROVE GateInv'
    BY <1>8, GateMove DEF PresentCbReturns, Return, Goto, InSync, Place, TypeOK,
       GateInv, EventClosed
  <1>9. ASSUME NEW t \in Thread, CallFails(t) PROVE GateInv'
    BY <1>9, GateMove DEF CallFails, Return, Goto, InSync, Place, TypeOK
  <1>10. CASE Draw
    <2>1. /\ stream' = Append(stream, 0) /\ 0 \in Command
          /\ UNCHANGED <<presentFenceValue, flushed, executed, fence, pc, call, event>>
      BY <1>10 DEF Draw, Work, Command
    <2>2. /\ Len(stream') = Len(stream) + 1
          /\ \A i \in 1..Len(stream) : stream'[i] = stream[i]
          /\ stream'[Len(stream) + 1] = 0
      BY <1>0, <2>1, AppendCommand
    <2>3. ValuesTaken'
      BY <1>0, <2>1, <2>2 DEF GateInv, ValuesTaken, call, InSync, TypeOK
    <2>4. SignalsFollowWork'
      BY <1>0, <2>1, <2>2 DEF GateInv, SignalsFollowWork, ValuesTaken, call, InSync, TypeOK
    <2>5. FenceWasExecuted'
      BY <1>0, <2>1, <2>2 DEF GateInv, FenceWasExecuted, TypeOK
    <2>6. SetEventMeansDone' /\ FlipAfterGpuDone' /\ EventClosed' /\ ValuesDistinct'
      BY <2>1 DEF GateInv, SetEventMeansDone, FlipAfterGpuDone, EventClosed,
         ValuesDistinct, call, InSync
    <2> QED
      BY <2>3, <2>4, <2>5, <2>6 DEF GateInv
  <1>11. CASE ContextSubmits
    BY <1>11 DEF ContextSubmits, call, GateInv, ValuesTaken, SignalsFollowWork,
       FenceWasExecuted, SetEventMeansDone, FlipAfterGpuDone, EventClosed,
       ValuesDistinct, InSync
  <1>12. CASE Execute
    <2>1. /\ executed + 1 \in 1..Len(stream) /\ executed' = executed + 1
          /\ executed \in Nat
          /\ UNCHANGED <<presentFenceValue, stream, flushed, pc, call>>
      BY <1>0, <1>12 DEF Execute, TypeOK
    <2>2. FenceWasExecuted'
      BY <1>12, <2>1 DEF Execute, FenceAfter, GateInv, FenceWasExecuted
    <2>3. ASSUME NEW t \in Thread, event'[t] = "set" PROVE executed' >= mark'[t]
      <3>1. CASE event[t] = "set"
        BY <2>1, <3>1 DEF GateInv, SetEventMeansDone, call, TypeOK
      <3>2. CASE event[t] # "set"
        <4>1. pc[t] = "wait" /\ fence' >= value[t]
          BY <1>12, <2>3, <3>2 DEF Execute
        <4>0. InSync(t)
          BY <4>1 DEF InSync, Place
        <4>2. InSync(t) /\ value[t] >= 1
          BY <4>0, SyncValue
        <4>3. PICK i \in 1..executed' : stream[i] = fence'
          BY <1>t, <2>1, <2>2, <4>1, <4>2 DEF FenceWasExecuted, TypeOK, Command
        <4>4. mark[t] < i
          BY <1>0, <2>1, <4>1, <4>2, <4>3 DEF GateInv, SignalsFollowWork
        <4> QED
          BY <1>0, <2>1, <4>3, <4>4 DEF call, TypeOK
      <3> QED
        BY <3>1, <3>2
    <2>4. \A t \in Thread : ~InSync(t) => event'[t] = event[t]
      BY <1>12 DEF Execute, InSync, Place
    <2>5. EventClosed'
      BY <2>1, <2>4 DEF GateInv, EventClosed, InSync
    <2>6. ValuesTaken' /\ SignalsFollowWork' /\ ValuesDistinct' /\ FlipAfterGpuDone'
      BY <2>1 DEF GateInv, ValuesTaken, SignalsFollowWork, ValuesDistinct,
         FlipAfterGpuDone, call, InSync, TypeOK
    <2> QED
      BY <2>2, <2>3, <2>5, <2>6 DEF GateInv, SetEventMeansDone
  <1>13. CASE UNCHANGED vars
    BY <1>13 DEF vars, context, call, GateInv, ValuesTaken, SignalsFollowWork,
       FenceWasExecuted, SetEventMeansDone, FlipAfterGpuDone, EventClosed,
       ValuesDistinct, InSync
  <1> QED
    BY <1>1, <1>2, <1>3, <1>4, <1>5, <1>6, <1>7, <1>8, <1>9, <1>10, <1>11,
       <1>12, <1>13 DEF Next, Step

\* The inductive invariant of the gate holds throughout.
THEOREM GateInvariant == Spec => []GateInv
  <1>1. Init => GateInv
    BY DEF Init, GateInv, ValuesTaken, SignalsFollowWork, FenceWasExecuted,
       SetEventMeansDone, FlipAfterGpuDone, EventClosed, ValuesDistinct, InSync, Place
  <1> QED
    BY <1>1, GateStep, TypeCorrect, PTL DEF Spec

\* No frame reaches pfnPresentCb before the GPU has executed what was recorded
\* when its present began, however the presenting threads interleave.
THEOREM FlipGated == Spec => []FlipAfterGpuDone
  BY GateInvariant, PTL DEF GateInv

\* Two calls in flight hold different fence values.
THEOREM ValuesNeverShared == Spec => []ValuesDistinct
  BY GateInvariant, PTL DEF GateInv

-----------------------------------------------------------------------------
\* The abstract `need` of the refinement mapping.
NeedOf == [t \in Thread |-> IF pc[t] = "idle" THEN -1 ELSE mark[t]]

\* A step inside a call that returns nothing yet and records nothing.
LEMMA MapsToStutter ==
    ASSUME TypeOK, NEW t \in Thread, pc[t] # "idle",
           NEW p \in Place \ {"idle"}, pc' = [pc EXCEPT ![t] = p],
           UNCHANGED <<mark, result, executed>>, Len(stream') = Len(stream)
    PROVE  UNCHANGED Gate!gateVars
  <1>1. NeedOf' = NeedOf
    BY DEF NeedOf, TypeOK
  <1> QED
    BY <1>1 DEF Gate!gateVars, NeedOf

\* A step that ends a call is the abstract failure, or the abstract success
\* when the GPU has executed what the call waits for.
LEMMA MapsToReturn ==
    ASSUME TypeOK, NEW t \in Thread, pc[t] # "idle",
           NEW r \in {"ok", "failed"}, Return(t, r), r = "ok" => executed >= mark[t],
           UNCHANGED <<context, call>>
    PROVE  Gate!Succeed(t) \/ Gate!Fail(t)
  <1>1. NeedOf' = [NeedOf EXCEPT ![t] = -1]
    BY DEF NeedOf, TypeOK, Return, Goto, call
  <1>2. NeedOf[t] = mark[t] /\ mark[t] # -1
    BY DEF NeedOf, TypeOK
  <1> QED
    BY <1>1, <1>2 DEF Gate!Succeed, Gate!Fail, Gate!NotCalling, NeedOf, Return,
       context, call

\* Every step is a step of the gate or leaves its variables unchanged.
LEMMA StepMaps ==
    TypeOK /\ TypeOK' /\ GateInv /\ [Next]_vars => [Gate!GateNext]_(Gate!gateVars)
  <1> SUFFICES ASSUME TypeOK, TypeOK', GateInv, [Next]_vars
               PROVE  Gate!GateNext \/ UNCHANGED Gate!gateVars
    OBVIOUS
  <1>0. Len(stream) \in Nat /\ stream \in Seq(Command)
    BY LenProperties DEF TypeOK
  <1>1. ASSUME NEW t \in Thread, NEW k \in {"present", "blt"}, Begin(t, k)
        PROVE  Gate!GateNext
    <2>1. Len(stream') \in {Len(stream), Len(stream) + 1}
      <3>1. CASE k = "blt"
        <4>1. stream' = Append(stream, Work) /\ Work \in Command
          BY <1>1, <3>1 DEF Begin, Work, Command
        <4> QED
          BY <1>0, <4>1, AppendCommand
      <3>2. CASE k # "blt"
        BY <1>1, <3>2 DEF Begin
      <3> QED
        BY <3>1, <3>2
    <2>2. NeedOf' = [NeedOf EXCEPT ![t] = Len(stream')] /\ NeedOf[t] = -1
      BY <1>1 DEF Begin, Goto, NeedOf, TypeOK
    <2>3. Gate!Begin(t)
      BY <1>1, <2>1, <2>2 DEF Begin, Gate!Begin, Gate!NotCalling, NeedOf
    <2> QED
      BY <2>3 DEF Gate!GateNext
  <1>2. ASSUME NEW t \in Thread, Signal(t) PROVE Gate!GateNext
    <2>1. stream' = Append(stream, value[t]) /\ value[t] \in Command
      BY <1>2 DEF Signal, TypeOK
    <2>2. Len(stream') = Len(stream) + 1
      BY <1>0, <2>1, AppendCommand
    <2>3. NeedOf' = NeedOf
      BY <1>2 DEF Signal, Goto, NeedOf, TypeOK, call
    <2>4. Gate!Record
      BY <1>2, <2>2, <2>3 DEF Signal, Gate!Record, NeedOf
    <2> QED
      BY <2>4 DEF Gate!GateNext
  <1>3. ASSUME NEW t \in Thread, Flush(t) PROVE UNCHANGED Gate!gateVars
    BY <1>3, MapsToStutter DEF Flush, Goto, call, Place
  <1>4. ASSUME NEW t \in Thread, CreateEvent(t) PROVE UNCHANGED Gate!gateVars
    BY <1>4, MapsToStutter DEF CreateEvent, Goto, call, context, Place
  <1>5. ASSUME NEW t \in Thread, Arm(t) PROVE UNCHANGED Gate!gateVars
    BY <1>5, MapsToStutter DEF Arm, Goto, call, context, Place
  <1>6. ASSUME NEW t \in Thread, WaitDone(t)
        PROVE  Gate!GateNext \/ UNCHANGED Gate!gateVars
    <2>1. executed >= mark[t]
      BY <1>6 DEF WaitDone, GateInv, SetEventMeansDone
    <2>2. CASE kind[t] = "present"
      BY <1>6, <2>2, MapsToStutter DEF WaitDone, Goto, call, context, Place
    <2>3. CASE kind[t] # "present"
      <3>1. Gate!Succeed(t) \/ Gate!Fail(t)
        BY <1>6, <2>1, <2>3, MapsToReturn DEF WaitDone
      <3> QED
        BY <3>1 DEF Gate!GateNext
    <2> QED
      BY <2>2, <2>3
  <1>7. ASSUME NEW t \in Thread, WaitTimeout(t) PROVE Gate!GateNext
    <2>1. Gate!Succeed(t) \/ Gate!Fail(t)
      BY <1>7, MapsToReturn DEF WaitTimeout
    <2> QED
      BY <2>1 DEF Gate!GateNext
  <1>8. ASSUME NEW t \in Thread, PresentCbReturns(t) PROVE Gate!GateNext
    <2>1. executed >= mark[t]
      BY <1>8 DEF PresentCbReturns, GateInv, FlipAfterGpuDone
    <2>2. Gate!Succeed(t) \/ Gate!Fail(t)
      BY <1>8, <2>1, MapsToReturn DEF PresentCbReturns
    <2> QED
      BY <2>2 DEF Gate!GateNext
  <1>9. ASSUME NEW t \in Thread, CallFails(t) PROVE Gate!GateNext
    <2>1. Gate!Succeed(t) \/ Gate!Fail(t)
      BY <1>9, MapsToReturn DEF CallFails
    <2> QED
      BY <2>1 DEF Gate!GateNext
  <1>10. CASE Draw
    <2>1. stream' = Append(stream, Work) /\ Work \in Command
      BY <1>10 DEF Draw, Work, Command
    <2>2. Len(stream') = Len(stream) + 1
      BY <1>0, <2>1, AppendCommand
    <2>3. Gate!Record
      BY <1>10, <2>2 DEF Draw, Gate!Record, call
    <2> QED
      BY <2>3 DEF Gate!GateNext
  <1>11. CASE ContextSubmits
    BY <1>11 DEF ContextSubmits, Gate!gateVars, call
  <1>12. CASE Execute
    <2>1. executed < Len(stream)
      BY <1>0, <1>12 DEF Execute, TypeOK
    <2>2. Gate!Complete
      BY <1>12, <2>1 DEF Execute, Gate!Complete, call
    <2> QED
      BY <2>2 DEF Gate!GateNext
  <1>13. CASE UNCHANGED vars
    BY <1>13 DEF vars, context, call, Gate!gateVars
  <1> QED
    BY <1>1, <1>2, <1>3, <1>4, <1>5, <1>6, <1>7, <1>8, <1>9, <1>10, <1>11,
       <1>12, <1>13 DEF Next, Step

\* The fence protocol implements the gate: a call that reports success has
\* waited until the GPU had completed all that was recorded when it began.
THEOREM FenceImplementsGate == Spec => ImplementsGate
  <1>1. Init => Gate!GateInit
    BY EmptySeq DEF Init, Gate!GateInit, Gate!NotCalling
  <1>2. TypeOK /\ TypeOK' /\ GateInv /\ [Next]_vars => [Gate!GateNext]_(Gate!gateVars)
    BY StepMaps
  <1> QED
    BY <1>1, <1>2, TypeCorrect, GateInvariant, PTL
       DEF Spec, ImplementsGate, Gate!GateSpec
=============================================================================

---------------------------- MODULE PresentFence ----------------------------
(***************************************************************************)
(* The present path of dxgi.c: virtio_wddm_present, the presenting variant *)
(* of virtio_wddm_blt1 and the function both synchronise with,             *)
(* virtio_wddm_sync_with_present_context, run by several threads on one    *)
(* device with no lock, as dxgi.c has none.  The immediate context is the  *)
(* stream of commands recorded in it; the GPU executes the flushed part of *)
(* that stream in order and completes the values of the Signal commands.   *)
(***************************************************************************)
EXTENDS Integers, Sequences, FiniteSets

CONSTANTS
    Thread,              \* threads that present through this device
    MaxValue,            \* bound: presentFenceValue is not incremented past it
    MaxWork              \* bound: no rendering is recorded past this length

ASSUME BoundsAssumption == MaxValue \in Nat /\ MaxWork \in Nat

VARIABLES
    presentFenceValue,   \* device->base.presentFenceValue
    stream,              \* the immediate context: Work, or the value of a Signal
    flushed,             \* length of the part of stream handed to the GPU
    executed,            \* length of the part of stream the GPU has executed
    fence,               \* completed value of pPresentFence
    pc,                  \* pc[t]: where t is in its present call
    kind,                \* kind[t]: which entry point t is in
    value,               \* value[t]: the local `value` of t's sync call
    event,               \* event[t]: the event handle of t's sync call
    mark,                \* length of stream when t's call began (history)
    result               \* what t's last call returned

context == <<stream, flushed, executed, fence>>
call == <<kind, value, mark>>
vars == <<presentFenceValue, context, pc, call, event, result>>

Work == 0                \* rendering; the values of signals start at 1
Command == 0..MaxValue
Place == {"idle", "signal", "flush", "event", "arm", "wait", "callback"}

\* Mutant: the store after the fence is created is missing.
FirstValueUnset == 0

FirstValue == 1

Init ==
    /\ presentFenceValue = FirstValue
    /\ stream = << >> /\ flushed = 0 /\ executed = 0 /\ fence = 0
    /\ pc = [t \in Thread |-> "idle"]
    /\ kind = [t \in Thread |-> "present"]
    /\ value = [t \in Thread |-> 0]
    /\ event = [t \in Thread |-> "none"]
    /\ mark = [t \in Thread |-> 0]
    /\ result = [t \in Thread |-> "none"]

-----------------------------------------------------------------------------
(* The steps of one call.                                                  *)

Goto(t, p) == pc' = [pc EXCEPT ![t] = p]

Return(t, r) == Goto(t, "idle") /\ result' = [result EXCEPT ![t] = r]

\* atomic_fetch_add
TakeValue(t) ==
    /\ value' = [value EXCEPT ![t] = presentFenceValue]
    /\ presentFenceValue' = presentFenceValue + 1

\* Entry, up to the value.  Blt1 has recorded its copy before.
Begin(t, k) ==
    /\ pc[t] = "idle"
    /\ presentFenceValue <= MaxValue
    /\ k = "blt" => Len(stream) < MaxWork
    /\ stream' = IF k = "blt" THEN Append(stream, Work) ELSE stream
    /\ kind' = [kind EXCEPT ![t] = k]
    /\ mark' = [mark EXCEPT ![t] = Len(stream')]
    /\ TakeValue(t)
    /\ result' = [result EXCEPT ![t] = "none"]
    /\ Goto(t, "signal")
    /\ UNCHANGED <<flushed, executed, fence, event>>

Signal(t) ==
    /\ pc[t] = "signal"
    /\ stream' = Append(stream, value[t])
    /\ Goto(t, "flush")
    /\ UNCHANGED <<presentFenceValue, flushed, executed, fence, call, event, result>>

Flush(t) ==
    /\ pc[t] = "flush"
    /\ flushed' = Len(stream)
    /\ Goto(t, "event")
    /\ UNCHANGED <<presentFenceValue, stream, executed, fence, call, event, result>>

CreateEvent(t) ==
    /\ pc[t] = "event"
    /\ event' = [event EXCEPT ![t] = "unset"]
    /\ Goto(t, "arm")
    /\ UNCHANGED <<presentFenceValue, context, call, result>>

\* Mutant: the event is armed for the value before.
ArmPrevious(t) ==
    /\ pc[t] = "arm"
    /\ event' = [event EXCEPT ![t] = IF fence >= value[t] - 1 THEN "set" ELSE "unset"]
    /\ Goto(t, "wait")
    /\ UNCHANGED <<presentFenceValue, context, call, result>>

\* SetEventOnCompletion sets the event at once when the fence is there.
Arm(t) ==
    /\ pc[t] = "arm"
    /\ event' = [event EXCEPT ![t] = IF fence >= value[t] THEN "set" ELSE "unset"]
    /\ Goto(t, "wait")
    /\ UNCHANGED <<presentFenceValue, context, call, result>>

\* The wait returns and the event is closed; a present goes on to pfnPresentCb.
WaitDone(t) ==
    /\ pc[t] = "wait"
    /\ event[t] = "set"
    /\ event' = [event EXCEPT ![t] = "none"]
    /\ IF kind[t] = "present"
       THEN Goto(t, "callback") /\ UNCHANGED result
       ELSE Return(t, "ok")
    /\ UNCHANGED <<presentFenceValue, context, call>>

PresentCbReturns(t) ==
    /\ pc[t] = "callback"
    /\ \E r \in {"ok", "failed"} : Return(t, r)
    /\ UNCHANGED <<presentFenceValue, context, call, event>>

\* Mutant: the result of the wait is not looked at.
WaitTimeoutIgnored(t) ==
    /\ pc[t] = "wait"
    /\ event[t] = "unset"
    /\ event' = [event EXCEPT ![t] = "none"]
    /\ Goto(t, "callback")
    /\ UNCHANGED <<presentFenceValue, context, call, result>>

\* Mutant: the wait is infinite.
WaitForever(t) == FALSE /\ UNCHANGED vars /\ t \in Thread

\* The wait gives up after ten seconds, whatever the GPU is doing.
WaitTimeout(t) ==
    /\ pc[t] = "wait"
    /\ event[t] = "unset"
    /\ event' = [event EXCEPT ![t] = "none"]
    /\ Return(t, "failed")
    /\ UNCHANGED <<presentFenceValue, context, call>>

\* Signal, CreateEvent or SetEventOnCompletion fails.
CallFails(t) ==
    /\ pc[t] \in {"signal", "event", "arm"}
    /\ event' = [event EXCEPT ![t] = "none"]
    /\ Return(t, "failed")
    /\ UNCHANGED <<presentFenceValue, context, call>>

-----------------------------------------------------------------------------
(* The rest of the device: rendering, and the GPU.                         *)

\* The application renders, or a blt1 without the Present flag copies.
Draw ==
    /\ Len(stream) < MaxWork
    /\ stream' = Append(stream, Work)
    /\ UNCHANGED <<presentFenceValue, flushed, executed, fence, pc, call, event, result>>

\* A context also submits on its own, when it has recorded enough.
ContextSubmits ==
    /\ flushed < Len(stream)
    /\ flushed' = Len(stream)
    /\ UNCHANGED <<presentFenceValue, stream, executed, fence, pc, call, event, result>>

\* Signalling a value below the completed one is undefined for the timeline
\* semaphore under the fence: it may be ignored, or the value may fall.
FenceAfter(v) == IF v > fence THEN {v} ELSE {v, fence}

Execute ==
    /\ executed < flushed
    /\ executed' = executed + 1
    /\ IF stream[executed + 1] = Work
       THEN UNCHANGED <<fence, event>>
       ELSE /\ fence' \in FenceAfter(stream[executed + 1])
            /\ event' = [t \in Thread |->
                           IF pc[t] = "wait" /\ fence' >= value[t]
                           THEN "set" ELSE event[t]]
    /\ UNCHANGED <<presentFenceValue, stream, flushed, pc, call, result>>

Step(t) ==
    \/ Signal(t) \/ Flush(t) \/ CreateEvent(t) \/ Arm(t)
    \/ WaitDone(t) \/ WaitTimeout(t) \/ PresentCbReturns(t) \/ CallFails(t)

Next ==
    \/ \E t \in Thread : Step(t) \/ \E k \in {"present", "blt"} : Begin(t, k)
    \/ Draw
    \/ ContextSubmits
    \/ Execute

\* A thread inside a call is scheduled; nothing obliges the GPU to progress,
\* nor an application to call.
Spec == Init /\ [][Next]_vars /\ \A t \in Thread : WF_vars(Step(t))

-----------------------------------------------------------------------------
TypeOK ==
    /\ presentFenceValue \in 1..(MaxValue + 1)
    /\ stream \in Seq(Command)
    /\ flushed \in 0..Len(stream)
    /\ executed \in 0..flushed
    /\ fence \in Command
    /\ pc \in [Thread -> Place]
    /\ kind \in [Thread -> {"present", "blt"}]
    /\ value \in [Thread -> Command]
    /\ event \in [Thread -> {"none", "unset", "set"}]
    /\ mark \in [Thread -> 0..Len(stream)]
    /\ result \in [Thread -> {"none", "ok", "failed"}]

\* A frame reaches pfnPresentCb only when the GPU has executed everything the
\* context held when the present began, although other threads take values
\* and signal in between, in any order.
FlipAfterGpuDone ==
    \A t \in Thread : pc[t] = "callback" => executed >= mark[t]

InSync(t) == pc[t] \in Place \ {"idle", "callback"}

\* Two calls in flight never wait for the same fence value, so the completion
\* of one is never taken for the completion of the other.
ValuesDistinct ==
    \A t, u \in Thread : t # u /\ InSync(t) /\ InSync(u) => value[t] # value[u]

\* The event of a sync call is closed on every path out of it.
EventClosed == \A t \in Thread : ~InSync(t) => event[t] = "none"

\* Every present call returns, even when the GPU never completes its value.
CallReturns == \A t \in Thread : pc[t] # "idle" ~> pc[t] = "idle"

-----------------------------------------------------------------------------
(* Why the gate holds without a lock: what makes it inductive.             *)

\* No value past the counter has been given out or signalled.
ValuesTaken ==
    /\ \A i \in 1..Len(stream) : stream[i] < presentFenceValue
    /\ \A t \in Thread : InSync(t) => value[t] \in 1..(presentFenceValue - 1)

\* Whoever's signal satisfies t's wait, it follows all the work t waits for.
SignalsFollowWork ==
    \A t \in Thread : InSync(t) =>
        \A i \in 1..Len(stream) : stream[i] >= value[t] => mark[t] < i

FenceWasExecuted == fence = 0 \/ \E i \in 1..executed : stream[i] = fence

SetEventMeansDone ==
    \A t \in Thread : event[t] = "set" => executed >= mark[t]

\* The inductive invariant.
GateInv ==
    /\ ValuesTaken
    /\ SignalsFollowWork
    /\ FenceWasExecuted
    /\ SetEventMeansDone
    /\ FlipAfterGpuDone
    /\ ValuesDistinct
    /\ EventClosed

-----------------------------------------------------------------------------
Gate == INSTANCE PresentGate WITH
            recorded <- Len(stream),
            completed <- executed,
            need <- [t \in Thread |-> IF pc[t] = "idle" THEN -1 ELSE mark[t]]

\* Seen as commands recorded and completed, the fence protocol is the gate:
\* a call that returns success has waited for all it had to.
ImplementsGate == Gate!GateSpec
=============================================================================

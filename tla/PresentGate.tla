---------------------------- MODULE PresentGate ----------------------------
(***************************************************************************)
(* What a present promises its caller, without fences, events or queues:   *)
(* it succeeds only when the GPU has completed every command that had been *)
(* recorded when the call began, and may otherwise only fail.  The module  *)
(* PresentFence is shown to implement this one.                            *)
(***************************************************************************)
EXTENDS Integers

CONSTANT Thread          \* the threads that enter the DXGI present functions

VARIABLES
    recorded,            \* commands recorded in the device's immediate context
    completed,           \* how many of them, in order, the GPU has completed
    need,                \* need[t]: what t's call must wait for, or NotCalling
    result               \* result[t]: what t's last call returned

gateVars == <<recorded, completed, need, result>>

NotCalling == -1

GateInit ==
    /\ recorded = 0
    /\ completed = 0
    /\ need = [t \in Thread |-> NotCalling]
    /\ result = [t \in Thread |-> "none"]

\* Rendering by the application, and whatever a call itself records.
Record ==
    /\ recorded' = recorded + 1
    /\ UNCHANGED <<completed, need, result>>

Complete ==
    /\ completed < recorded
    /\ completed' = completed + 1
    /\ UNCHANGED <<recorded, need, result>>

\* A blit that presents records its copy in the step that begins the call.
Begin(t) ==
    /\ need[t] = NotCalling
    /\ recorded' \in {recorded, recorded + 1}
    /\ need' = [need EXCEPT ![t] = recorded']
    /\ result' = [result EXCEPT ![t] = "none"]
    /\ UNCHANGED completed

Succeed(t) ==
    /\ need[t] # NotCalling
    /\ completed >= need[t]
    /\ need' = [need EXCEPT ![t] = NotCalling]
    /\ result' = [result EXCEPT ![t] = "ok"]
    /\ UNCHANGED <<recorded, completed>>

Fail(t) ==
    /\ need[t] # NotCalling
    /\ need' = [need EXCEPT ![t] = NotCalling]
    /\ result' = [result EXCEPT ![t] = "failed"]
    /\ UNCHANGED <<recorded, completed>>

GateNext ==
    \/ Record
    \/ Complete
    \/ \E t \in Thread : Begin(t) \/ Succeed(t) \/ Fail(t)

GateSpec == GateInit /\ [][GateNext]_gateVars
=============================================================================

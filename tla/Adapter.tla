------------------------------- MODULE Adapter -------------------------------
(***************************************************************************)
(* The process-wide part of the driver (adapter.c): the log output, which  *)
(* the first thread that logs sets up without a lock, and the adapter, with *)
(* the interface versions it offers (tritonDDI.c).                         *)
(***************************************************************************)
EXTENDS Integers, Sequences, SequencesExt

CONSTANTS
    Logger,              \* threads that log
    LogEnabled,          \* VIRTIO_WDDM_LOG_FILE names a file
    None

ASSUME AdapterAssumption == LogEnabled \in BOOLEAN /\ None \notin Logger

VARIABLES
    state,               \* 0 = pending, 1 = no file, 2 = file enabled
    out,                 \* the file, named for the thread that opened it
    open,                \* the files that are open
    logging,             \* where each thread is in print_log_raw
    adapter,             \* the capsets of the adapter that is open, or None
    offered              \* the versions the runtime has heard of

logVars == <<state, out, open, logging>>
adapterVars == <<adapter, offered>>

-----------------------------------------------------------------------------
Silent == [at |-> "idle", f |-> None, value |-> 0]

LogInit ==
    /\ state = 0 /\ out = None /\ open = {}
    /\ logging = [t \in Logger |-> Silent]

Goes(t, at) == logging' = [logging EXCEPT ![t].at = at]

\* print_log_raw looks at the state.
LogBegins(t) ==
    /\ logging[t].at = "idle"
    /\ logging' = [logging EXCEPT ![t] =
         [at |-> IF state = 0 THEN "open" ELSE "write", f |-> None, value |-> state]]
    /\ UNCHANGED <<state, out, open>>

\* Logging is off unless the variable names a file, and fopen may fail.
LogOpens(t) ==
    /\ logging[t].at = "open"
    /\ \E f \in {None} \union (IF LogEnabled THEN {t} ELSE {}) :
         /\ open' = open \union ({f} \ {None})
         /\ logging' = [logging EXCEPT ![t].at = "publish", ![t].f = f]
    /\ UNCHANGED <<state, out>>

\* Mutant: the state is stored and not compared and exchanged.
LogPublishesAnyway(t) ==
    /\ logging[t].at = "publish"
    /\ state' = (IF logging[t].f = None THEN 1 ELSE 2) /\ Goes(t, "store") /\ open' = open
    /\ UNCHANGED out

\* The first thread to exchange the state keeps its file, another closes it.
LogPublishes(t) ==
    /\ logging[t].at = "publish"
    /\ \/ /\ state = 0
          /\ state' = (IF logging[t].f = None THEN 1 ELSE 2) /\ Goes(t, "store") /\ open' = open
       \/ /\ state # 0
          /\ state' = state /\ Goes(t, "look again") /\ open' = open \ {logging[t].f}
    /\ UNCHANGED out

LogStores(t) ==
    /\ logging[t].at = "store"
    /\ out' = logging[t].f
    /\ Goes(t, "look again")
    /\ UNCHANGED <<state, open>>

LogLooksAgain(t) ==
    /\ logging[t].at = "look again"
    /\ logging' = [logging EXCEPT ![t].at = "write", ![t].value = state]
    /\ UNCHANGED <<state, out, open>>

\* The line is written if the state is 2 and there is a file by now.
LogWrites(t) ==
    /\ logging[t].at = "write"
    /\ logging' = [logging EXCEPT ![t] = Silent]
    /\ UNCHANGED <<state, out, open>>

LogStep ==
    \E t \in Logger :
        \/ LogBegins(t) \/ LogOpens(t) \/ LogPublishes(t)
        \/ LogStores(t) \/ LogLooksAgain(t) \/ LogWrites(t)

-----------------------------------------------------------------------------
\* What tritonGetSupportedVersions offers in the translation layer.
Versions == <<"11.0", "11.1">>

\* The contiguous range that tritonGetCaps reports.
Levels == {"10.0", "10.1", "11.0", "11.1"}

\* The kernel driver's answer to pfnQueryAdapterInfoCb.
AdapterInfo == [succeeds : BOOLEAN, valid : BOOLEAN, capsets : SUBSET {"venus", "drm"}]

AdapterInit == adapter = None /\ offered = {}

\* OpenAdapter10_2; valid stands for the tag, 3D support and shared memory.
\* Whatever fails, calloc included, leaves everything as it is.
OpenAdapter(info) ==
    /\ adapter = None
    /\ info.succeeds /\ info.valid /\ info.capsets # {}
    /\ adapter' = info.capsets
    /\ UNCHANGED offered

\* tritonGetSupportedVersions; without an array only the count is told.
GetSupportedVersions(entries) ==
    /\ adapter # None
    /\ offered' = offered \union ToSet(SubSeq(Versions, 1, IF entries < Len(Versions)
                                                         THEN entries ELSE Len(Versions)))
    /\ UNCHANGED adapter

CloseAdapter ==
    /\ adapter # None
    /\ adapter' = None /\ offered' = {}

\* At most one log file stays open, and it is the one that is written: a thread
\* that loses the race for the state closes the file it had opened, and the
\* winner's is not overwritten (adapter.c:58-64).
OneLogFile ==
    /\ \A f \in open : f = out \/ logging[f].at \in {"publish", "store"}
    /\ out # None => out \in open
=============================================================================

----------------------------- MODULE MCDeviceWork -----------------------------
(* Staging resources that the CPU may write only, and read and write; a       *)
(* shared back buffer; a dynamic buffer; an unordered-access cube with data.  *)
EXTENDS DeviceWork

Texture ==
    [usage |-> "default", cpu |-> {}, bind |-> {}, misc |-> {}, dimension |-> "2d",
     arraySize |-> 1, mips |-> 1, data |-> FALSE]

Staging(access) == [Texture EXCEPT !.usage = "staging", !.cpu = access]

\* PRESENT | RENDER_TARGET with DISCARD_ON_PRESENT | SHARED.
BackBuffer == [Texture EXCEPT !.bind = {32, 128}, !.misc = {2, 8}]

EveryAsked ==
    {Staging({"write"}), Staging({"read", "write"}), BackBuffer,
     [Texture EXCEPT !.usage = "dynamic", !.cpu = {"write"}, !.bind = {4}, !.dimension = "buffer"],
     [Texture EXCEPT !.bind = {8, 256}, !.dimension = "cube", !.arraySize = 0, !.mips = 2,
                     !.data = TRUE]}
=============================================================================

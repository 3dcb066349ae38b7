----------------------------- MODULE MCPipeline -----------------------------
(* Two packets and the default chain alone, whose verdict for a packet with *)
(* data is any one it can draw.                                             *)
EXTENDS Pipeline

MCOneChain == [p \in Packets |-> {}]
=============================================================================

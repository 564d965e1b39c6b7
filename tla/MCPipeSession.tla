--------------------------- MODULE MCPipeSession ---------------------------
(* Small instances of PipeSession.                                         *)
EXTENDS PipeSession, PipePayload

CONSTANTS a, b, c

AllMessages == {a, b, c}
HeavyMessages == {b}
Sizes == {0, 2}

(* The data of a pipe is looked at once, where a run begins: payloads travel,
   replies reach who asked, and what is stored is listed back.               *)
DataHolds == Init => DataIsSound
=============================================================================

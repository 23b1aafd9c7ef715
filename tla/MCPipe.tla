------------------------------- MODULE MCPipe -------------------------------
(* Instances of Pipe for TLC.                                              *)
EXTENDS Pipe

Bits == {0, 1}

=============================================================================

---------------------------- MODULE MCDiagnostics ----------------------------
(* A loop that calls and creates, and code with data after its pushes, the *)
(* last of which the code's end cuts short.                                *)
EXTENDS Diagnostics

MCCodes ==
  {<<"jumpdest", "call", "jump", "create">>, <<"push", "call", "push">>, << >>}
MCPcs == 0 .. 5
=============================================================================

----------------------------- MODULE MCPipeline -----------------------------
(***************************************************************************)
(* Model checking of the scratch database shared by two runs of the       *)
(* script, each with any kind of compile_commands.json and a filter that  *)
(* keeps up to MaxEntries entries.                                         *)
(***************************************************************************)
EXTENDS Pipeline

CONSTANTS p1, p2   \* two runs (model values)

MCProcs == {p1, p2}

=============================================================================

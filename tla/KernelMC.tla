------------------------------ MODULE KernelMC ------------------------------
(***************************************************************************)
(* Kernel for TLC: the batch of the kernel seen as module ToolBatch sees   *)
(* it, and something the repository says of the kernel and the code does   *)
(* not do (its run is expected to find the violation).                     *)
(***************************************************************************)
EXTENDS Kernel

-----------------------------------------------------------------------------
(* The kernel implements ToolBatch                                         *)

StageOf(i) ==
  CASE batch[i].res = "ok"      -> "done"
    [] batch[i].res = "unknown" -> "unknown"
    [] batch[i].res = "notrun"  -> "skipped"
    [] batch[i].res = "open" ->
         IF UnknownEffect /\ i = run.cursor THEN "running" ELSE "waiting"

TB == INSTANCE ToolBatch
        WITH stage <- [i \in DOMAIN batch |-> StageOf(i)],
             effects <- [i \in DOMAIN batch |-> batch[i].invs],
             lost <- orphan

\* Seen from outside, the calls of a batch go through ToolBatch, whatever else
\* the kernel does between them (mark_executing, record_tool_result, the
\* recovery actions, _unstarted_batch_suffix_facts).
BatchProtocol == TB!Spec
-----------------------------------------------------------------------------
(* A statement of the repository that the code does not keep               *)

\* agent/runtime/state.py:3019: every call of an unfinished batch has a durable
\* result of not having run before a message takes over.  (A message that is
\* not a correction replaces a run that waits for an approval and answers none
\* of its calls: _apply_action.)
NoBatchLost == ~orphan
=============================================================================

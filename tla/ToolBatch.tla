----------------------------- MODULE ToolBatch ------------------------------
(***************************************************************************)
(* What the agent runtime promises of the tool calls of one batch, with no *)
(* word of runs, goals, approvals or saves: the calls are taken one after  *)
(* the other; a call is begun at most once and only a call in progress     *)
(* touches the world, once; it ends with a result or with an outcome that  *)
(* is known to be unknown; a call that was never begun may be skipped; an  *)
(* end is final; and a new batch comes only when the old one is answered,  *)
(* or given up without an answer.  Module Kernel implements this.          *)
(***************************************************************************)
EXTENDS Naturals, Sequences

VARIABLES
  stage,   \* of each call of the batch
  effects, \* of each call: how often it touched the world
  lost     \* a batch was given up with calls unanswered

vars == <<stage, effects, lost>>

Ended == {"done", "unknown", "skipped"}
Stage == {"waiting", "running"} \cup Ended

Init == stage = <<>> /\ effects = <<>> /\ lost = FALSE

NewBatch ==
  /\ lost \/ \A i \in DOMAIN stage : stage[i] \in Ended
  /\ Len(stage') > 0 /\ \A i \in DOMAIN stage' : stage'[i] = "waiting"
  /\ effects' = [i \in DOMAIN stage' |-> 0]
  /\ UNCHANGED lost

Begin(i) ==
  /\ \A j \in DOMAIN stage : stage[j] = "waiting" => i <= j
  /\ stage[i] = "waiting"
  /\ \A j \in DOMAIN stage : stage[j] # "running"
  /\ stage' = [stage EXCEPT ![i] = "running"]
  /\ UNCHANGED <<effects, lost>>

Touch(i) ==
  /\ stage[i] = "running" /\ effects[i] = 0
  /\ effects' = [effects EXCEPT ![i] = 1]
  /\ UNCHANGED <<stage, lost>>

\* A result is only given for a call that touched the world.
End(i) ==
  /\ stage[i] = "running"
  /\ \/ effects[i] = 1 /\ stage' = [stage EXCEPT ![i] = "done"]
     \/ stage' = [stage EXCEPT ![i] = "unknown"]
  /\ UNCHANGED <<effects, lost>>

\* The next call, or all that are left.
Skip ==
  /\ \A i \in DOMAIN stage : stage[i] # "running"
  /\ \E n \in DOMAIN stage, m \in DOMAIN stage :
       /\ \A j \in DOMAIN stage : stage[j] = "waiting" => n <= j
       /\ stage[n] = "waiting" /\ m \in {n, Len(stage)}
       /\ stage' = [i \in DOMAIN stage |->
                      IF i \in n..m THEN "skipped" ELSE stage[i]]
  /\ UNCHANGED <<effects, lost>>

Lose ==
  /\ \E i \in DOMAIN stage : stage[i] = "waiting"
  /\ \A i \in DOMAIN stage : stage[i] # "running"
  /\ lost' = TRUE
  /\ UNCHANGED <<stage, effects>>

Next ==
  \/ NewBatch \/ Skip \/ Lose
  \/ \E i \in DOMAIN stage : Begin(i) \/ Touch(i) \/ End(i)

Spec == Init /\ [][Next]_vars
=============================================================================

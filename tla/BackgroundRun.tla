--------------------------- MODULE BackgroundRun ---------------------------
(***************************************************************************)
(* One occurrence of an automation, from the commit of RUNNING to the      *)
(* outcome that is recorded of it: the child that runs it, the wake that   *)
(* recovers it when the child's parent is gone, the checkpoint they both   *)
(* work on, and the claim that the tools verify.                           *)
(*                                                                         *)
(* Module Reconcile takes a turn for one step; here it is the run_turn of  *)
(* agent/runtime/loop.py with the reducers of state.py, which saves before *)
(* and after each call of the provider and each call of a tool.  A process *)
(* may die between any two steps, which frees its flock; a save may fail   *)
(* before the file was replaced or after (compare_and_swap syncs the       *)
(* directory last), and what the driver calls may raise.                   *)
(*                                                                         *)
(* The data of an answer is left out: it is the end of the run, something  *)
(* that changes the state without a call (a control), something that fails *)
(* the run (cut off, invalid once too often), or a batch of calls.         *)
(***************************************************************************)
EXTENDS Naturals, Sequences, FiniteSets

CONSTANTS
  ModelLimit,  \* calls of the provider the grant allows
  ToolLimit,   \* calls of tools it allows
  BatchSize,   \* bound: calls of one answer
  MaxCrashes,  \* bound: processes that die
  MaxFails     \* bound: saves that fail and calls that raise

ASSUME BackgroundAssumption ==
  /\ ModelLimit \in Nat \ {0} /\ ToolLimit \in Nat /\ BatchSize \in Nat \ {0}
  /\ MaxCrashes \in Nat /\ MaxFails \in Nat

VARIABLES
  disk,    \* the checkpoint of the occurrence
  lease,   \* who holds its flock
  run,     \* the processes that run the occurrence
  claim,   \* the active claim of the automation, or the outcome that ended it
  parent,  \* the wake that started the child is alive
  asked,   \* how often each call of the provider was sent
  ran,     \* how often each call of a tool had its effect
  void,    \* calls marked EXECUTING when the claim was no longer live
  crashes, fails

vars == <<disk, lease, run, claim, parent, asked, ran, void, crashes, fails>>

Runners == {"child", "wake"}
\* granted is of one of the two unattended classes; any other call needs approval.
Kinds == {"granted", "other"}
Batches == UNION {[1..n -> Kinds] : n \in 1..BatchSize}
Answers == {<<"final">>, <<"control">>, <<"bad">>} \cup Batches
\* The questions to the provider, in their order, one more than there may be.
Questions == 1..(ModelLimit + 1)
\* A call of a tool: the question whose answer it came with, and its place there.
Calls == Questions \X (1..BatchSize)
-----------------------------------------------------------------------------
(* The checkpoint and its reducers                                         *)

\* st joins status and phase of the active run: model, tool and executing are
\* RUNNABLE, asking and answered are MODEL_EXECUTING without and with a persisted
\* response.  pos counts the answers that were acted on, claims the claims of the
\* run, fin is the result recorded for the one action of the occurrence.
New == [st |-> "new", claims |-> 0, answer |-> <<>>, calls |-> <<>>, at |-> 1,
        pos |-> 0, models |-> 0, tools |-> 0, fin |-> "none"]

Accepted(d) == [d EXCEPT !.st = "model"]
\* claim_run and reclaim_background_run: a fresh invocation id.
\* Fault: whoever takes the run over starts with fresh budgets.
ClaimedFault(d) == [d EXCEPT !.claims = @ + 1, !.models = 0, !.tools = 0]
Claimed(d) == [d EXCEPT !.claims = @ + 1]
\* begin_provider_call, record_provider_response, consume_provider_response
Asking(d) == [d EXCEPT !.st = "asking", !.models = @ + 1]
Answered(d, r) == [d EXCEPT !.st = "answered", !.answer = r]
Consumed(d) == [d EXCEPT !.st = "model", !.answer = <<>>, !.pos = @ + 1]
\* start_tool_batch, mark_executing
Started(d, r) == [d EXCEPT !.st = "tool", !.calls = r, !.at = 1]
\* Fault: the intent to execute is not in the saved state.
ExecutingFault(d) == [d EXCEPT !.tools = @ + 1]
Executing(d) == [d EXCEPT !.st = "executing", !.tools = @ + 1]
\* record_tool_result and record_nonexecuted_tool_result
Advanced(d) ==
  IF d.at < Len(d.calls) THEN [d EXCEPT !.st = "tool", !.at = @ + 1]
  ELSE [d EXCEPT !.st = "model", !.calls = <<>>, !.at = 1]
\* mark_model_outcome_unknown, pause_for_recovery, pause_for_approval, pause_for_limit
Unknown(d) == [d EXCEPT !.st = "model_unknown", !.answer = <<>>]
Stopped(d, st) == [d EXCEPT !.st = st]
\* complete_run, fail_run, end_run: no active run is left.
Ended(d) == [d EXCEPT !.st = "over", !.answer = <<>>, !.calls = <<>>, !.at = 1]
\* finalize_action: the result goes with the last reduction, in one save.
Finished(d, result) == [d EXCEPT !.fin = result]

Active(d) == d.st \notin {"new", "over"}
\* What may be taken over: no call of the provider or of a tool is open.
\* Fault: a run in the middle of a batch is not taken over.
ReclaimableFault(d) == d.st \in {"model", "answered"}
Reclaimable(d) == d.st \in {"model", "tool", "answered"}
\* The call a batch has come to.
Current(d) == <<d.pos, d.at>>
-----------------------------------------------------------------------------
(* The processes                                                           *)

\* tok is the snapshot of the last load or save, eaten: the answer in it was
\* consumed in memory, fresh: nothing was saved since the claim of the run.
Off == [pc |-> "off", tok |-> New, eaten |-> FALSE, fresh |-> FALSE, again |-> FALSE,
        resp |-> <<>>, result |-> "none"]

Mem(p) == IF run[p].eaten THEN Consumed(run[p].tok) ELSE run[p].tok
At(p, pc) == run[p].pc = pc
Goes(p, pc) == run' = [run EXCEPT ![p].pc = pc]

\* run_turn returns: the flock is free, the caller goes on to its report.
Returns(p, result) ==
  /\ run' = [run EXCEPT ![p] = [Off EXCEPT !.pc = "report", !.result = result]]
  /\ lease' = IF lease = p THEN "nobody" ELSE lease

\* CONFLICT: run_once loads once more and submits the same action again.
Conflicts(p, result) ==
  IF run[p].again THEN Returns(p, result)
  ELSE /\ run' = [run EXCEPT ![p] = [Off EXCEPT !.pc = "ready", !.tok = disk, !.again = TRUE]]
       /\ lease' = IF lease = p THEN "nobody" ELSE lease

Fails == fails < MaxFails /\ fails' = fails + 1

\* compare_and_swap: it writes only over the snapshot it was given.  A failure is told
\* to the caller as one that left the old file.
Fits(p) == disk = run[p].tok
Writes(p, d) == Fits(p) /\ disk' = d /\ UNCHANGED fails
Loses(p, d) == Fits(p) /\ Fails /\ disk' \in {disk, d}

\* A save of the driver, after which it goes on at pc.
SaveAnd(p, d, pc) ==
  \/ /\ Writes(p, d) /\ UNCHANGED lease
     /\ run' = [run EXCEPT ![p].tok = d, ![p].pc = pc, ![p].eaten = FALSE, ![p].fresh = FALSE]
  \/ Loses(p, d) /\ Goes(p, "handle") /\ UNCHANGED lease
  \/ ~Fits(p) /\ Conflicts(p, "CONFLICT") /\ UNCHANGED <<disk, fails>>

\* _finish: the last save of a turn.
Finish(p, d, result) ==
  \/ Writes(p, Finished(d, result)) /\ Returns(p, result)
  \/ Loses(p, Finished(d, result)) /\ Goes(p, "handle") /\ UNCHANGED lease
  \/ ~Fits(p) /\ Conflicts(p, "CONFLICT") /\ UNCHANGED <<disk, fails>>

\* The claim is looked at in the store of the automations, never in the checkpoint.
Live == claim.phase = "running" /\ ~claim.cancel /\ ~claim.late
-----------------------------------------------------------------------------
(* run_turn up to the driver                                               *)

\* The child reads the frame that lets it execute, which its parent wrote when RUNNING
\* was committed and which outlives the parent.
StartChild ==
  /\ At("child", "off")
  /\ run' = [run EXCEPT !["child"] = [Off EXCEPT !.pc = "ready", !.tok = disk]]
  /\ UNCHANGED <<disk, lease, claim, parent, asked, ran, void, crashes, fails>>

Settle(outcome) == claim' = [claim EXCEPT !.phase = outcome]

\* _reconcile_active and recover: a checkpoint at revision 0 tells nothing.
StartWake ==
  /\ At("wake", "off") /\ ~parent
  /\ claim.phase = "running"
  /\ IF disk.st = "new" THEN Settle("effect_unknown") /\ UNCHANGED run
     ELSE /\ run' = [run EXCEPT !["wake"] = [Off EXCEPT !.pc = "ready", !.tok = disk]]
          /\ UNCHANGED claim
  /\ UNCHANGED <<disk, lease, parent, asked, ran, void, crashes, fails>>

\* try_acquire: nobody waits for the flock.
Take(p) ==
  /\ At(p, "ready")
  /\ \/ lease = "nobody" /\ lease' = p /\ Goes(p, "turn")
     \/ lease # "nobody" /\ Conflicts(p, "BUSY")
  /\ UNCHANGED <<disk, claim, parent, asked, ran, void, crashes, fails>>

\* accept_action saves the action with its run, claim_run follows.
Accept(p) ==
  /\ At(p, "turn") /\ run[p].tok.st = "new" /\ SaveAnd(p, Accepted(run[p].tok), "own")
  /\ UNCHANGED <<claim, parent, asked, ran, void, crashes>>

Own(p) ==
  LET d == Claimed(run[p].tok) IN
  /\ At(p, "own")
  /\ \/ /\ Writes(p, d) /\ UNCHANGED lease
        /\ run' = [run EXCEPT ![p].tok = d, ![p].pc = "model", ![p].fresh = TRUE]
     \/ Loses(p, d) /\ Goes(p, "handle") /\ UNCHANGED lease
     \/ ~Fits(p) /\ Conflicts(p, "CONFLICT") /\ UNCHANGED <<disk, fails>>
  /\ UNCHANGED <<claim, parent, asked, ran, void, crashes>>

\* The same action again: its recorded result is told, or _resume_background_replay
\* says what becomes of the run that was interrupted.
Replay(p) ==
  LET d == run[p].tok IN
  /\ At(p, "turn") /\ d.st # "new"
  /\ \/ d.fin # "none" /\ Returns(p, d.fin) /\ UNCHANGED <<disk, fails>>
     \/ d.fin = "none" /\ d.st = "asking" /\ Finish(p, Unknown(d), "UNKNOWN")
     \/ d.fin = "none" /\ d.st = "executing" /\ Finish(p, Stopped(d, "recovery"), "RECOVERY")
     \/ /\ d.fin = "none" /\ Reclaimable(d)
        /\ SaveAnd(p, Claimed(d), IF d.st = "tool" THEN "tool" ELSE "model")
     \/ /\ d.fin = "none" /\ ~Reclaimable(d) /\ d.st \notin {"asking", "executing"}
        /\ Returns(p, "IN_PROGRESS") /\ UNCHANGED <<disk, fails>>
  /\ UNCHANGED <<claim, parent, asked, ran, void, crashes>>
-----------------------------------------------------------------------------
(* _drive: the provider                                                    *)

\* A persisted response is taken up again when the context, built anew, is the one it
\* answers; otherwise it is dropped and its outcome unknown.
TakeUp(p) ==
  LET d == run[p].tok IN
  /\ At(p, "model") /\ d.st = "answered"
  /\ \/ /\ run' = [run EXCEPT ![p].eaten = TRUE, ![p].pc = "reduce"]
        /\ UNCHANGED <<disk, lease, fails>>
     \/ Finish(p, Unknown(d), "MISMATCH")
     \/ Finish(p, Ended(d), "LIMIT")
  /\ UNCHANGED <<claim, parent, asked, ran, void, crashes>>

\* Time, tokens and a context source that is missing pause the run, the capacity of the
\* context or of the file ends it.
Limit(p) ==
  LET d == run[p].tok IN
  /\ \/ At(p, "model") /\ d.st = "model"
     \/ At(p, "tool")
  /\ Finish(p, Stopped(d, "paused"), "LIMIT") \/ Finish(p, Ended(d), "LIMIT")
  /\ UNCHANGED <<claim, parent, asked, ran, void, crashes>>

\* A remote provider needs a disclosure before its first call, which nobody acknowledges.
Ask(p) ==
  LET d == run[p].tok IN
  /\ At(p, "model") /\ d.st = "model"
  /\ \/ d.models >= ModelLimit /\ Finish(p, Stopped(d, "paused"), "LIMIT")
     \/ d.models = 0 /\ Finish(p, Stopped(d, "disclosure"), "DISCLOSURE")
     \/ d.models < ModelLimit /\ SaveAnd(p, Asking(d), "send")
  /\ UNCHANGED <<claim, parent, asked, ran, void, crashes>>

Once(n) == IF n < 2 THEN n + 1 ELSE n

\* generate: any error of the provider leaves the outcome unknown.
Send(p) ==
  LET i == run[p].tok.pos + 1 IN
  /\ At(p, "send") /\ asked' = [asked EXCEPT ![i] = Once(@)]
  /\ \/ \E r \in Answers : run' = [run EXCEPT ![p].pc = "got", ![p].resp = r]
     \/ Goes(p, "lost")
  /\ UNCHANGED <<disk, lease, claim, parent, ran, void, crashes, fails>>

Lost(p) ==
  /\ At(p, "lost") /\ Finish(p, Unknown(run[p].tok), "UNKNOWN")
  /\ UNCHANGED <<claim, parent, asked, ran, void, crashes>>

\* The answer is saved, then consumed in memory only.
Keep(p) ==
  LET d == Answered(run[p].tok, run[p].resp) IN
  /\ At(p, "got")
  /\ \/ /\ Writes(p, d) /\ UNCHANGED lease
        /\ run' = [run EXCEPT ![p].tok = d, ![p].eaten = TRUE, ![p].fresh = FALSE,
                              ![p].resp = <<>>, ![p].pc = "reduce"]
     \/ Loses(p, d) /\ Goes(p, "handle") /\ UNCHANGED lease
     \/ ~Fits(p) /\ Conflicts(p, "CONFLICT") /\ UNCHANGED <<disk, fails>>
  /\ UNCHANGED <<claim, parent, asked, ran, void, crashes>>

\* The first reduction of the answer saves its consumption.  Its tokens may be too many.
Reduce(p) ==
  LET r == run[p].tok.answer IN
  /\ At(p, "reduce")
  /\ \/ r = <<"final">> /\ Finish(p, Ended(Mem(p)), "COMPLETED")
     \/ r = <<"bad">> /\ Finish(p, Ended(Mem(p)), "INVALID")
     \/ Finish(p, Stopped(Mem(p), "paused"), "LIMIT")
     \/ r = <<"control">> /\ SaveAnd(p, Mem(p), "model")
     \/ r \in Batches /\ SaveAnd(p, Started(Mem(p), r), "tool")
  /\ UNCHANGED <<claim, parent, asked, ran, void, crashes>>
-----------------------------------------------------------------------------
(* _drive: the tools                                                       *)

\* _prepare_background_action asks for the claim first, then for class and budget.  A
\* call may also be refused for what it says, and a task's before there is a goal fails.
Granted(d) == d.calls[d.at] = "granted"
Budget(d) == d.tools < ToolLimit
After(d) == IF d.st = "tool" THEN "tool" ELSE "model"

Prepare(p) ==
  LET d == run[p].tok IN
  /\ At(p, "tool")
  /\ \/ SaveAnd(p, Advanced(d), After(Advanced(d)))
     \/ Finish(p, Ended(d), "INVALID")
     \/ Live /\ ~Granted(d) /\ Finish(p, Stopped(d, "approval"), "APPROVAL")
     \/ /\ Live /\ Granted(d) /\ Budget(d)
        /\ Goes(p, "mark") /\ UNCHANGED <<disk, lease, fails>>
  /\ UNCHANGED <<claim, parent, asked, ran, void, crashes>>

\* mark_executing
Mark(p) ==
  LET d == run[p].tok IN
  /\ At(p, "mark") /\ SaveAnd(p, Executing(d), "verify")
  /\ void' = IF disk' # disk /\ ~Live THEN void \cup {Current(d)} ELSE void
  /\ UNCHANGED <<claim, parent, asked, ran, crashes>>

\* _verify_background_action_for_invoke.  The verdict it compares holds the time of
\* the check in seconds, so that a live claim is refused when they differ.
\* Fault: the claim was verified when the call was prepared.
VerifiedFault == TRUE
Verified == Live

Verify(p) ==
  /\ At(p, "verify")
  /\ \/ Verified /\ Goes(p, "invoke")
     \/ Goes(p, "unsure")
  /\ UNCHANGED <<disk, lease, claim, parent, asked, ran, void, crashes, fails>>

\* The tool itself, which may raise when it had its effect.
Effect(p) ==
  /\ At(p, "invoke") /\ ran' = [ran EXCEPT ![Current(run[p].tok)] = Once(@)]
  /\ Goes(p, "done") \/ Goes(p, "unsure")
  /\ UNCHANGED <<disk, lease, claim, parent, asked, void, crashes, fails>>

\* Whatever happens to the save of a result, a recovery is tried.
Record(p) ==
  LET d == Advanced(run[p].tok) IN
  /\ At(p, "done")
  /\ \/ /\ Writes(p, d)
        /\ run' = [run EXCEPT ![p].tok = d, ![p].pc = After(d), ![p].fresh = FALSE]
     \/ Loses(p, d) /\ Goes(p, "unsure")
     \/ ~Fits(p) /\ Goes(p, "unsure") /\ UNCHANGED <<disk, fails>>
  /\ UNCHANGED <<lease, claim, parent, asked, ran, void, crashes>>

Unsure(p) ==
  /\ At(p, "unsure") /\ Finish(p, Stopped(run[p].tok, "recovery"), "RECOVERY")
  /\ UNCHANGED <<claim, parent, asked, ran, void, crashes>>
-----------------------------------------------------------------------------
(* _handle_unexpected_error                                                *)

\* A save that is only tried: the turn returns this result whatever becomes of it.
TryFinish(p, d, result) ==
  /\ \/ Writes(p, Finished(d, result))
     \/ Loses(p, Finished(d, result))
     \/ ~Fits(p) /\ UNCHANGED <<disk, fails>>
  /\ Returns(p, result)

\* An open call of a tool goes to recovery, and when that cannot be saved the action
\* fails and the call stays open; any other run is failed.
Handle(p) ==
  LET d == Mem(p) IN
  /\ At(p, "handle")
  /\ \/ /\ d.st = "executing"
        /\ \/ Writes(p, Finished(Stopped(d, "recovery"), "RECOVERY")) /\ Returns(p, "RECOVERY")
           \/ /\ Loses(p, Finished(Stopped(d, "recovery"), "RECOVERY"))
              /\ Goes(p, "handle2") /\ UNCHANGED lease
           \/ ~Fits(p) /\ Returns(p, "FAILED") /\ UNCHANGED <<disk, fails>>
     \/ d.st = "new" /\ Returns(p, "FAILED") /\ UNCHANGED <<disk, fails>>
     \/ d.st \notin {"new", "executing"} /\ TryFinish(p, Ended(d), "FAILED")
  /\ UNCHANGED <<claim, parent, asked, ran, void, crashes>>

\* _finish_unknown_effect_persistence_failure
HandleAgain(p) ==
  /\ At(p, "handle2") /\ TryFinish(p, run[p].tok, "FAILED")
  /\ UNCHANGED <<claim, parent, asked, ran, void, crashes>>

\* Something the driver calls raises.  The handler gets the snapshot of the claim of the
\* run, so that it saves nothing when the driver has saved since.
Raises(p) ==
  /\ (At(p, "model") \/ At(p, "tool")) /\ Fails
  /\ IF run[p].fresh THEN Goes(p, "handle") /\ UNCHANGED lease ELSE Returns(p, "FAILED")
  /\ UNCHANGED <<disk, claim, parent, asked, ran, void, crashes>>
-----------------------------------------------------------------------------
(* The report, the outcome and the claim                                   *)

\* _report: the checkpoint has the last word where it has one.
Reported(result) ==
  CASE disk.st = "approval" -> "APPROVAL"
    [] disk.st = "recovery" -> "RECOVERY"
    [] ~Active(disk) /\ disk.fin # "none" -> disk.fin
    [] OTHER -> result

\* Fault: a flock that another holds is a failure like any other.
OutcomeFault(result) ==
  IF Reported(result) = "COMPLETED" THEN "completed"
  ELSE IF result = "UNKNOWN" THEN "model_unknown"
  ELSE IF Reported(result) \in {"APPROVAL", "RECOVERY", "LIMIT", "UNKNOWN", "MISMATCH"}
  THEN "human" ELSE "failed"

\* occurrence_exit_class and _execution_result: the error code is that of the result.
Outcome(result) ==
  IF Reported(result) = "COMPLETED" THEN "completed"
  ELSE IF result = "UNKNOWN" THEN "model_unknown"
  ELSE IF result = "BUSY" THEN "cleanup_unknown"
  ELSE IF Reported(result) \in {"APPROVAL", "RECOVERY", "LIMIT", "UNKNOWN", "MISMATCH"}
  THEN "human" ELSE "failed"

\* What the child reports is lost with its parent.  What the run has opened may not be
\* closed, and the process group of a child may not be gone.
Report(p) ==
  LET result == run[p].result IN
  /\ At(p, "report") /\ run' = [run EXCEPT ![p] = [Off EXCEPT !.pc = "over"]]
  /\ IF claim.phase = "running" /\ (p = "wake" \/ parent)
     THEN \E o \in {Outcome(result), "cleanup_unknown"} :
            claim' = [claim EXCEPT !.phase = o, !.why = result]
     ELSE UNCHANGED claim
  /\ UNCHANGED <<disk, lease, parent, asked, ran, void, crashes, fails>>

Freed(p) == IF lease = p THEN "nobody" ELSE lease

\* The supervisor waits no longer, or the child is gone without a word: its process
\* group is ended, or may live on.
NoResult ==
  /\ parent /\ claim.phase = "running"
  /\ \/ /\ Settle("effect_unknown") /\ lease' = Freed("child")
        /\ run' = [run EXCEPT !["child"] = [Off EXCEPT !.pc = "over"]]
     \/ Settle("cleanup_unknown") /\ UNCHANGED <<lease, run>>
  /\ UNCHANGED <<disk, parent, asked, ran, void, crashes, fails>>

\* The user cancels.
Cancel ==
  /\ claim.phase = "running" /\ ~claim.cancel /\ claim' = [claim EXCEPT !.cancel = TRUE]
  /\ UNCHANGED <<disk, lease, run, parent, asked, ran, void, crashes, fails>>

\* The deadline of the occurrence passes: only a verification of the claim sees it.
Expire ==
  /\ claim.phase = "running" /\ ~claim.late /\ claim' = [claim EXCEPT !.late = TRUE]
  /\ UNCHANGED <<disk, lease, run, parent, asked, ran, void, crashes, fails>>

\* A child that dies is not started again; another wake comes.
Dies(p) ==
  /\ run[p].pc \notin {"off", "over"} /\ crashes < MaxCrashes /\ crashes' = crashes + 1
  /\ run' = [run EXCEPT ![p] = [Off EXCEPT !.pc = IF p = "child" THEN "over" ELSE "off"]]
  /\ lease' = Freed(p)
  /\ UNCHANGED <<disk, claim, parent, asked, ran, void, fails>>

ParentDies ==
  /\ parent /\ parent' = FALSE /\ crashes < MaxCrashes /\ crashes' = crashes + 1
  /\ UNCHANGED <<disk, lease, run, claim, asked, ran, void, fails>>
-----------------------------------------------------------------------------
Init ==
  /\ disk = New /\ lease = "nobody" /\ run = [p \in Runners |-> Off]
  /\ claim = [phase |-> "running", why |-> "none", cancel |-> FALSE, late |-> FALSE]
  /\ parent = TRUE
  /\ asked = [i \in Questions |-> 0] /\ ran = [c \in Calls |-> 0] /\ void = {}
  /\ crashes = 0 /\ fails = 0

Step(p) ==
  \/ Take(p) \/ Accept(p) \/ Own(p) \/ Replay(p)
  \/ Limit(p) \/ TakeUp(p) \/ Ask(p) \/ Send(p) \/ Lost(p) \/ Keep(p) \/ Reduce(p)
  \/ Prepare(p) \/ Mark(p) \/ Verify(p) \/ Effect(p) \/ Record(p) \/ Unsure(p)
  \/ Handle(p) \/ HandleAgain(p) \/ Raises(p) \/ Report(p) \/ Dies(p)

Next ==
  \/ StartChild \/ StartWake \/ (\E p \in Runners : Step(p))
  \/ NoResult \/ Cancel \/ Expire \/ ParentDies

Spec == Init /\ [][Next]_vars
-----------------------------------------------------------------------------
(* Properties                                                              *)

\* No question is put to the provider twice and no call of a tool has its effect twice,
\* whoever runs the occurrence, takes it over or is told that a save failed when it did
\* not: what is open in the checkpoint is never done again.
NothingRedone == (\A i \in Questions : asked[i] <= 1) /\ (\A c \in Calls : ran[c] <= 1)

\* A call that was marked as executing when the claim no longer stood (canceled, late or
\* settled by a wake while an orphaned child goes on) has no effect.
EffectUnderClaim == \A c \in void : ran[c] = 0

\* The budget of the grant is that of the occurrence: taking it over does not renew it.
BudgetKept ==
  /\ Cardinality({i \in Questions : asked[i] > 0}) <= ModelLimit
  /\ Cardinality({c \in Calls : ran[c] > 0}) <= ToolLimit

\* The death of a process alone never fails an occurrence: that takes a save that fails,
\* something that raises, two runners in each other's way, an answer that fails the run
\* or a disclosure that nobody can acknowledge.
CrashIsNotFailure ==
  claim.phase = "failed" => fails > 0 \/ claim.why \in {"CONFLICT", "INVALID", "DISCLOSURE"}

\* A driver that works on the run: it may still call the provider or a tool.
AtWork(p) ==
  run[p].pc \in {"model", "send", "lost", "got", "reduce", "tool", "mark", "verify", "invoke",
                 "done", "unsure"}

\* What is told as completed has ended so in its checkpoint and nobody works on it any
\* more, neither the child nor a wake that took it over.  Where no save failed and
\* nothing raised the same goes for what is told as failed: it never completes after all.
SettledIsOver ==
  /\ claim.phase = "completed" => disk.fin = "COMPLETED" /\ \A p \in Runners : ~AtWork(p)
  /\ claim.phase = "failed" /\ fails = 0 =>
       disk.fin # "COMPLETED" /\ \A p \in Runners : ~AtWork(p)
=============================================================================

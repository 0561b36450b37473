------------------------------- MODULE Kernel -------------------------------
(***************************************************************************)
(* One conversation of the agent runtime: the durable state the reducers   *)
(* of agent/runtime/state.py produce, and the loop that drives it,         *)
(* AgentRuntime.run_turn and _drive of agent/runtime/loop.py.              *)
(*                                                                         *)
(* A turn starts with a user action.  Some actions are decided by one      *)
(* save; the others are saved, the run is claimed, and the driver loops:   *)
(* control inbox, limits, then either the next tool call of the batch      *)
(* (prepare, save EXECUTING, invoke, save the result) or a model call      *)
(* (disclosure gate, save the attempt, send, act on the answer).  It stops *)
(* at the first safe boundary: an approval, an unknown outcome, a limit, a *)
(* disclosure, the end of the run.                                         *)
(*                                                                         *)
(* Every step is one compare-and-swap save or one external effect, so a    *)
(* crash falls between any two of them.  What happens to a save that       *)
(* fails depends on whether it had replaced the file:                      *)
(*   - it had not: _handle_unexpected_error works from the last saved      *)
(*     state (SaveFails);                                                  *)
(*   - it had: the handler's own save loses its compare-and-swap, which    *)
(*     leaves what a crash after the save leaves (Crash).                  *)
(* The replay ledger of the actions is module ActionLedger; sequence       *)
(* numbers and revisions of the checkpoint do not appear here.             *)
(***************************************************************************)
EXTENDS Naturals, Sequences, FiniteSets

CONSTANTS
  Kinds,            \* the kinds of tool calls the model may ask for
  BatchSize,        \* bound: calls in one batch
  MaxRev,           \* bound: revisions of the goal
  MaxCorrections,   \* bound: corrections waiting to be admitted
  RunLimit,         \* max_run_model_calls: model calls of a run, over resumes
  PermitUses        \* uses of a goal-target authorization, or of a lease

\* read: a read the policy allows.  net: a public-network read.  write: a file
\* write.  proc: a local process, a sandbox or a browser command.
AllKinds == {"read", "net", "write", "proc"}

ASSUME KernelAssumption ==
  /\ Kinds \subseteq AllKinds
  /\ BatchSize \in Nat /\ MaxRev \in Nat \ {0} /\ MaxCorrections \in Nat
  /\ RunLimit \in Nat /\ PermitUses \in Nat

VARIABLES
  goal,         \* the goal: its status, and its revision
  corrections,  \* user corrections that no goal delta has admitted yet
  evidence,     \* goal revision the stored evidence proves, 0 if none
  claim,        \* goal revision of the stored completion claim, 0 if none
  permit,       \* standing permissions, by kind of call: revision, uses left
  asked,        \* a provider disclosure request is unanswered
  run,          \* the active run
  batch,        \* the calls of the latest tool batch, with their results
  orphan,       \* a batch was left without results and without a run
  pc            \* where the turn is: volatile, all of the above is durable

goalVars == <<goal, corrections, evidence, claim>>
vars == <<goal, corrections, evidence, claim, permit, asked, run, batch,
          orphan, pc>>

Terminal == {"VERIFIED_DONE", "CANCELLED"}
GoalStatus == {"none", "GOAL_READY", "EXECUTING", "PAUSED", "BLOCKED",
               "NEEDS_AUTHORITY"} \cup Terminal
Open == GoalStatus \ ({"none", "PAUSED"} \cup Terminal)  \* can be advanced

Waiting == {"AWAITING_APPROVAL", "AWAITING_RECOVERY", "AWAITING_DISCLOSURE"}
Paused == {"PAUSED_LIMIT", "PAUSED_RETRYABLE"}
RunStatus == {"none", "RUNNABLE"} \cup Waiting \cup Paused

Effectful == {"write", "proc"}
Permitted == {"write", "proc"}      \* kinds a standing permission may cover
Warrants == {"none", "policy", "user", "permit"}

\* A call: its kind, its durable result, how often it was really invoked and,
\* while it is in progress, on whose word (the last two are ghosts).
Call == [kind : AllKinds, res : {"open", "ok", "notrun", "unknown"},
         invs : Nat, by : Warrants]
FreshCall(k) == [kind |-> k, res |-> "open", invs |-> 0, by |-> "none"]

NoRun == [status |-> "none", phase |-> "MODEL", cursor |-> 0, owned |-> FALSE,
          grant |-> 0, used |-> 0]
NewRun == [NoRun EXCEPT !.status = "RUNNABLE"]
NoPermit == [rev |-> 0, uses |-> 0]
NoPermits == [k \in Permitted |-> NoPermit]

Init ==
  /\ goal = [status |-> "none", rev |-> 0]
  /\ corrections = 0 /\ evidence = 0 /\ claim = 0
  /\ permit = NoPermits
  /\ asked = FALSE
  /\ run = NoRun
  /\ batch = <<>>
  /\ orphan = FALSE
  /\ pc = "idle"

-----------------------------------------------------------------------------
(* What the reducers do to the run and its batch                           *)

\* Fault, for a mutant: nobody asks for an unclassified effect.
UnknownEffectFault == FALSE

\* _has_unknown_effect
UnknownEffect == run.phase = "EXECUTING"

\* _unstarted_batch_suffix_facts: whoever drops a run first records that the
\* calls from the cursor on never ran.
Suffix(b, r) ==
  [i \in DOMAIN b |-> IF r.phase = "TOOL" /\ i >= r.cursor
                        THEN [b[i] EXCEPT !.res = "notrun"] ELSE b[i]]

\* Fault, for a mutant: the cursor is not moved.
AdvanceNotFault(b, r) ==
  IF r.cursor < Len(b)
    THEN [r EXCEPT !.phase = "TOOL", !.grant = 0]
    ELSE [r EXCEPT !.phase = "MODEL", !.cursor = 0, !.grant = 0]

\* The result of the call at the cursor is recorded: on to the next call, or
\* back to the model when it was the last one.
Advance(b, r) ==
  IF r.cursor < Len(b)
    THEN [r EXCEPT !.phase = "TOOL", !.cursor = @ + 1, !.grant = 0]
    ELSE [r EXCEPT !.phase = "MODEL", !.cursor = 0, !.grant = 0]
Answered(b, r, res) == [b EXCEPT ![r.cursor].res = res, ![r.cursor].by = "none"]

\* The run stops and gives up its owner; ActiveRun.__post_init__ refuses any
\* status but RUNNABLE for a run that still carries an approval grant.
Stopped(r, status) == [r EXCEPT !.status = status, !.owned = FALSE]
MayStop(r) == r.grant = 0

\* pause_for_recovery
Recovering(r) == [Stopped(r, "AWAITING_RECOVERY") EXCEPT !.phase = "EXECUTING"]

Finish == pc' = "idle"
Continue == pc' = "loop"

\* fail_run, end_run, complete_run
DropRun == run' = NoRun /\ batch' = Suffix(batch, run)

\* The handler of an exception in the loop holds the state saved by the claim:
\* it fails the run if nothing was saved since, and otherwise its save loses
\* the compare-and-swap and the run stays as it is.
Raise ==
  /\ IF pc = "first" THEN DropRun ELSE UNCHANGED <<run, batch>>
  /\ Finish
-----------------------------------------------------------------------------
(* User actions.  accept_action refuses every action while a batch is left *)
(* without results and without a run (unprovable_tool_batch_outcome).      *)

Accepts == pc = "idle" /\ ~orphan

\* How _run_locked goes on with an accepted action that left a run: a run that
\* waits for an approval goes on waiting, one without a run is finished, any
\* other is saved and then claimed.
Route(r) ==
  pc' = IF r.status \in {"none", "AWAITING_APPROVAL"} THEN "idle" ELSE "claim"


\* A message to a goal that can be advanced is a correction of it: it withdraws
\* the approval it interrupts, and answers its calls.  A message to any other
\* conversation replaces the run and leaves the calls as they are.
SubmitMessage ==
  LET correction == goal.status \in Open IN
  /\ Accepts
  /\ run.status \in {"none", "AWAITING_APPROVAL"}
  /\ correction => corrections < MaxCorrections
  /\ corrections' = IF correction THEN corrections + 1 ELSE corrections
  /\ batch' = IF correction THEN Suffix(batch, run) ELSE batch
  /\ orphan' = (~correction /\ run.status = "AWAITING_APPROVAL")
  /\ claim' = IF goal.status \in Terminal THEN claim ELSE 0
  /\ run' = NewRun
  /\ pc' = "claim"
  /\ UNCHANGED <<goal, evidence, permit, asked>>

\* pause_goal, resume_goal and cancel_goal, by themselves; PauseGoal and
\* CancelGoal also answer and drop the run, and revoke what was permitted.
PauseTheGoal ==
  /\ goal' = [goal EXCEPT !.status = "PAUSED"]
  /\ permit' = NoPermits
  /\ DropRun
  /\ UNCHANGED <<corrections, evidence, claim, asked, orphan>>
CancelTheGoal ==
  /\ goal' = [goal EXCEPT !.status = "CANCELLED"]
  /\ claim' = 0
  /\ permit' = NoPermits
  /\ DropRun
  /\ UNCHANGED <<corrections, evidence, asked, orphan>>
MayPause == goal.status \in Open /\ ~UnknownEffect
MayCancel == goal.status \notin {"none"} \cup Terminal /\ ~UnknownEffect

PauseGoal == Accepts /\ MayPause /\ PauseTheGoal /\ Finish
CancelGoal == Accepts /\ MayCancel /\ CancelTheGoal /\ Finish
ResumeGoal ==
  /\ Accepts
  /\ goal.status \in {"PAUSED", "BLOCKED"} /\ run.status = "none"
  /\ goal' = [goal EXCEPT !.status = "GOAL_READY"]
  /\ Finish
  /\ UNCHANGED <<corrections, evidence, claim, permit, asked, run, batch, orphan>>

\* The user confirms a criterion, or not: a confirmation is evidence, and may be
\* the last that was missing.
ConfirmCriterion ==
  /\ Accepts
  /\ goal.status # "none" /\ run.status = "none"
  /\ evidence' \in {evidence, goal.rev}
  /\ Finish
  /\ UNCHANGED <<goal, corrections, claim, permit, asked, run, batch, orphan>>

\* acknowledge_provider_disclosure and the two consent grants: the disclosure
\* that stopped the run, or one whose run a pause has stopped since.
AnswerDisclosure ==
  /\ Accepts
  /\ \/ /\ run.status = "AWAITING_DISCLOSURE"
        /\ run' = [run EXCEPT !.status = "RUNNABLE"]
        /\ goal' = IF goal.status = "NEEDS_AUTHORITY"
                     THEN [goal EXCEPT !.status = "GOAL_READY"] ELSE goal
     \/ /\ run.status = "none" /\ asked /\ goal.status = "GOAL_READY"
        /\ run' = NewRun
        /\ UNCHANGED goal
  /\ asked' = FALSE
  /\ pc' = "claim"
  /\ UNCHANGED <<corrections, evidence, claim, permit, batch, orphan>>

\* revoke_provider_consent (a grant is taken to exist) withdraws the request.
RevokeConsent ==
  /\ Accepts /\ ~UnknownEffect
  /\ run' = IF run.status = "AWAITING_DISCLOSURE"
              THEN [run EXCEPT !.status = "RUNNABLE"] ELSE run
  /\ asked' = FALSE
  /\ Route(run)
  /\ UNCHANGED <<goalVars, permit, batch, orphan>>

RevokeGoalTargetAuthority ==
  /\ Accepts /\ ~UnknownEffect
  /\ permit["write"] # NoPermit
  /\ permit' = [permit EXCEPT !["write"] = NoPermit]
  /\ Finish
  /\ UNCHANGED <<goalVars, asked, run, batch, orphan>>

\* Legal whether or not there is a lease, whatever the run is doing.
RevokeProcessAuthority ==
  /\ Accepts /\ ~UnknownEffect
  /\ permit' = [permit EXCEPT !["proc"] = NoPermit]
  /\ Route(run)
  /\ UNCHANGED <<goalVars, asked, run, batch, orphan>>

\* The user approves the call at the cursor.  A process gets a lease; with a
\* write the user may also authorize its target for the rest of the goal.
Approve ==
  LET kind == batch[run.cursor].kind
      minted == [permit EXCEPT ![kind] = [rev |-> goal.rev, uses |-> PermitUses]]
  IN
  /\ Accepts
  /\ run.status = "AWAITING_APPROVAL"
  /\ run' = [run EXCEPT !.status = "RUNNABLE", !.grant = run.cursor]
  /\ \/ kind = "proc" /\ permit' = minted
     \/ kind = "write" /\ permit' = minted
     \/ kind # "proc" /\ UNCHANGED permit
  /\ pc' = "claim"
  /\ UNCHANGED <<goalVars, asked, batch, orphan>>

Reject ==
  /\ Accepts
  /\ run.status = "AWAITING_APPROVAL"
  /\ DropRun
  /\ Finish
  /\ UNCHANGED <<goalVars, permit, asked, orphan>>

\* The user says what became of a call nobody can vouch for; a public-network
\* read has an action of its own, legal from the EXECUTING phase on.
Classified ==
  /\ batch' = Answered(batch, run, "unknown")
  /\ run' = [Advance(batch, run) EXCEPT !.status = "RUNNABLE", !.owned = FALSE]
  /\ pc' = "claim"
  /\ UNCHANGED <<goalVars, permit, asked, orphan>>
ResolveUnknownToolOutcome ==
  /\ Accepts
  /\ run.status = "AWAITING_RECOVERY" /\ batch[run.cursor].kind # "net"
  /\ Classified
RecoverUnknownObservation ==
  /\ Accepts
  /\ UnknownEffect /\ batch[run.cursor].kind = "net"
  /\ Classified

\* A run found in the EXECUTING phase goes to recovery, never to the driver.
Resume ==
  /\ Accepts
  /\ run.status \in {"RUNNABLE", "AWAITING_APPROVAL"} \cup Paused
  /\ \/ /\ run.status = "AWAITING_APPROVAL"
        /\ Finish /\ UNCHANGED run
     \/ /\ run.status # "AWAITING_APPROVAL" /\ UnknownEffect
        /\ run' = Recovering(run)
        /\ Finish
     \/ /\ run.status # "AWAITING_APPROVAL" /\ ~UnknownEffect
        /\ run' = [run EXCEPT !.status = "RUNNABLE", !.owned = FALSE]
        /\ pc' = "claim"
  /\ UNCHANGED <<goalVars, permit, asked, batch, orphan>>

CancelRun ==
  /\ Accepts /\ ~UnknownEffect
  /\ run.status \in {"RUNNABLE", "AWAITING_APPROVAL"} \cup Paused
  /\ DropRun
  /\ Finish
  /\ UNCHANGED <<goalVars, permit, asked, orphan>>

\* What accept_action answers when a batch lost its run and its results.
RefuseAction == pc = "idle" /\ orphan /\ UNCHANGED vars

-----------------------------------------------------------------------------
(* The driver                                                              *)

Driving == pc \in {"first", "loop"}   \* first: nothing saved since the claim
AtModel == Driving /\ run.phase = "MODEL"
AtTool == Driving /\ run.phase = "TOOL"
MidModel == pc \in {"sent", "evidence", "claimed"}
Current == batch[run.cursor]          \* the call the driver is at

\* claim_run takes a runnable run that nobody owns; for any other it raises,
\* and the handler fails the run.
Claim ==
  /\ pc = "claim"
  /\ \/ /\ run.status = "RUNNABLE" /\ ~run.owned
        /\ run' = [run EXCEPT !.owned = TRUE]
        /\ pc' = "first"
        /\ UNCHANGED batch
     \/ /\ ~(run.status = "RUNNABLE" /\ ~run.owned)
        /\ DropRun /\ Finish
  /\ UNCHANGED <<goalVars, permit, asked, orphan>>

\* _poll_control at the head of the loop, and after a cancelled stream: a
\* request of the control inbox that binds this goal and this run.
PollPause ==
  /\ Driving \/ pc = "sent"
  /\ goal.status # "none"
  /\ \/ MayPause /\ PauseTheGoal /\ Finish
     \/ ~MayPause /\ Raise /\ UNCHANGED <<goalVars, permit, asked, orphan>>
PollCancel ==
  /\ Driving \/ pc = "sent"
  /\ goal.status # "none"
  /\ \/ MayCancel /\ CancelTheGoal /\ Finish
     \/ ~MayCancel /\ Raise /\ UNCHANGED <<goalVars, permit, asked, orphan>>
PollCorrect ==
  /\ Driving \/ pc = "sent"
  /\ goal.status # "none"
  /\ goal.rev < MaxRev /\ corrections < MaxCorrections
  /\ goal' = [status |-> "NEEDS_AUTHORITY", rev |-> goal.rev + 1]
  /\ corrections' = corrections + 1
  /\ evidence' = 0 /\ claim' = 0
  /\ permit' = NoPermits
  /\ DropRun /\ Finish
  /\ UNCHANGED <<asked, orphan>>

\* The run's wall clock, the limits on calls, tokens and compactions, and a
\* model that makes no progress: the run pauses, with all it has used.
LimitReached ==
  /\ Driving \/ MidModel
  /\ \/ MayStop(run) /\ run' = Stopped(run, "PAUSED_LIMIT") /\ Finish /\ UNCHANGED batch
     \/ ~MayStop(run) /\ Raise
  /\ UNCHANGED <<goalVars, permit, asked, orphan>>

PauseRetryable ==
  /\ AtModel \/ pc = "sent"
  /\ run' = Stopped(run, "PAUSED_RETRYABLE")
  /\ Finish
  /\ UNCHANGED <<goalVars, permit, asked, batch, orphan>>

\* end_run: no capacity left in the checkpoint, an effect without a goal, a
\* fatal provider error, an invalid answer once too often.
EndRun ==
  /\ Driving \/ MidModel
  /\ DropRun /\ Finish
  /\ UNCHANGED <<goalVars, permit, asked, orphan>>

-----------------------------------------------------------------------------
(* The driver at a tool call                                               *)

GoalAllows == Current.kind \in Effectful => goal.status \notin {"none", "PAUSED"}
Live(kind) == permit[kind].uses > 0 /\ permit[kind].rev = goal.rev

\* On whose word the call may run: a read on the policy's, a network read on
\* the user's approval, a write on an approval or an authorization of its
\* target, a process on a lease, which only an approval mints.
WarrantsFor(kind) ==
  {w \in Warrants :
     \/ w = "policy" /\ kind = "read"
     \/ w = "user" /\ kind \in {"net", "write"} /\ run.grant = run.cursor
     \/ w = "permit" /\ kind \in Permitted /\ Live(kind)}
Spend(kind) == [permit EXCEPT ![kind].uses = @ - 1]

\* Fault, for a mutant: corrections do not matter.
GovernedFault == TRUE

\* prepare refuses while a correction of the goal waits to be admitted.
Governed == corrections = 0

\* prepare answers with an error: invalid, denied, a duplicate, ungoverned.
Refuse ==
  /\ AtTool /\ GoalAllows
  /\ batch' = Answered(batch, run, "notrun")
  /\ run' = Advance(batch, run)
  /\ Continue
  /\ UNCHANGED <<goalVars, permit, asked, orphan>>

\* pause_for_approval.  An approval is not asked for twice, except for a
\* process: a lease that does not match (or no longer) takes a new one, and the
\* old grant makes the paused run an invalid one.
NeedApproval ==
  /\ AtTool /\ GoalAllows /\ Governed
  /\ Current.kind # "read"
  /\ \/ /\ MayStop(run)
        /\ run' = Stopped(run, "AWAITING_APPROVAL")
        /\ Finish /\ UNCHANGED batch
     \/ ~MayStop(run) /\ Current.kind = "proc" /\ Raise
  /\ UNCHANGED <<goalVars, permit, asked, orphan>>

\* Fault, for a mutant: the effect is not announced in the saved state.
ExecutingFault(r) == [r EXCEPT !.grant = 0]

\* mark_executing, saved before the effect: it uses up the grant, and one use
\* of the authorization or lease.
Executing(r) == [r EXCEPT !.phase = "EXECUTING", !.grant = 0]
MarkExecuting ==
  /\ AtTool /\ GoalAllows /\ Governed
  /\ \E w \in WarrantsFor(Current.kind) :
       /\ batch' = [batch EXCEPT ![run.cursor].by = w]
       /\ permit' = IF w = "permit" THEN Spend(Current.kind) ELSE permit
  /\ run' = Executing(run)
  /\ pc' = "invoke"
  /\ UNCHANGED <<goalVars, asked, orphan>>

\* invoke: it returns a result, or raises with or without the effect.
Invoke ==
  /\ pc = "invoke"
  /\ \/ /\ batch' = [batch EXCEPT ![run.cursor].invs = @ + 1]
        /\ pc' = "record"
        /\ UNCHANGED run
     \/ /\ \/ batch' = [batch EXCEPT ![run.cursor].invs = @ + 1]
           \/ UNCHANGED batch
        /\ run' = Recovering(run)
        /\ Finish
  /\ UNCHANGED <<goalVars, permit, asked, orphan>>

\* record_tool_result
RecordResult ==
  /\ pc = "record"
  /\ batch' = Answered(batch, run, "ok")
  /\ run' = Advance(batch, run)
  /\ Continue
  /\ UNCHANGED <<goalVars, permit, asked, orphan>>

-----------------------------------------------------------------------------
(* The driver at the model                                                 *)

\* The disclosure gate finds no valid receipt or grant for what would be sent.
AskDisclosure ==
  /\ AtModel \/ pc = "sent"
  /\ asked' = TRUE
  /\ goal' = IF goal.status \in {"none"} \cup Terminal THEN goal
             ELSE [goal EXCEPT !.status = "NEEDS_AUTHORITY"]
  /\ run' = Stopped(run, "AWAITING_DISCLOSURE")
  /\ Finish
  /\ UNCHANGED <<corrections, evidence, claim, permit, batch, orphan>>

\* Fault, for a mutant: the call is not counted.
CountedFault(r) == r

\* record_foreground_model_attempt, saved before the request is sent; a
\* compaction is a model call as well.
Counted(r) == [r EXCEPT !.used = @ + 1]
Attempt ==
  /\ AtModel
  /\ run.used < RunLimit
  /\ run' = Counted(run)
  /\ pc' = "sent"
  /\ UNCHANGED <<goalVars, permit, asked, batch, orphan>>

\* The answer only adds a policy fact, or the context is compacted, or the
\* request is retried, or the answer opens a question-and-answer exchange.
Repair ==
  /\ MidModel
  /\ Continue
  /\ UNCHANGED <<goalVars, permit, asked, run, batch, orphan>>

\* Prose, a direct response or a clarification request ends the run.
EndsInProse ==
  /\ pc = "sent"
  /\ corrections = 0
  /\ DropRun /\ Finish
  /\ UNCHANGED <<goalVars, permit, asked, orphan>>

ProposeGoal ==
  /\ pc = "sent"
  /\ goal.status = "none"
  /\ goal' = [status |-> "GOAL_READY", rev |-> 1]
  /\ Continue
  /\ UNCHANGED <<corrections, evidence, claim, permit, asked, run, batch, orphan>>

RecordProgress ==
  /\ pc = "sent"
  /\ goal.status \in Open /\ Governed
  /\ goal' = [goal EXCEPT !.status = "EXECUTING"]
  /\ Continue
  /\ UNCHANGED <<corrections, evidence, claim, permit, asked, run, batch, orphan>>

\* accept_goal_delta_proposal admits one correction into a new revision of the
\* goal: everything bound to the old revision is void.  A goal that is over is
\* not excluded.
PermitsAfterDelta == NoPermits
AcceptDelta ==
  /\ pc = "sent"
  /\ goal.status \notin {"none", "PAUSED"} /\ corrections > 0
  /\ goal.rev < MaxRev
  /\ goal' = [status |-> "GOAL_READY", rev |-> goal.rev + 1]
  /\ corrections' = corrections - 1
  /\ evidence' = 0 /\ claim' = 0
  /\ permit' = PermitsAfterDelta
  /\ Continue
  /\ UNCHANGED <<asked, run, batch, orphan>>

\* acknowledge_noop_goal_delta: the correction changes nothing.
NoopDelta ==
  /\ pc = "sent"
  /\ goal.status \notin {"none", "PAUSED"} /\ corrections > 0
  /\ corrections' = corrections - 1
  /\ Continue
  /\ UNCHANGED <<goal, evidence, claim, permit, asked, run, batch, orphan>>

AcceptBlockedClaim ==
  /\ pc = "sent"
  /\ goal.status \in Open /\ Governed
  /\ goal' = [goal EXCEPT !.status = "BLOCKED"]
  /\ DropRun /\ Finish
  /\ UNCHANGED <<corrections, evidence, claim, permit, asked, orphan>>

\* A completion claim takes four saves: the evidence derived for it (if it is
\* new), the claim, the verdict, the end of the run.  After any of them the
\* claim may be rejected (Repair, LimitReached, EndRun).
RecordEvidence ==
  /\ pc = "sent"
  /\ goal.status \notin {"none", "PAUSED"} /\ Governed
  /\ evidence' \in {evidence, goal.rev}
  /\ pc' = "evidence"
  /\ UNCHANGED <<goal, corrections, claim, permit, asked, run, batch, orphan>>
RecordClaim ==
  /\ pc = "evidence"
  /\ goal.status \in {"GOAL_READY", "EXECUTING"}
  /\ claim' = goal.rev
  /\ pc' = "claimed"
  /\ UNCHANGED <<goal, corrections, evidence, permit, asked, run, batch, orphan>>

\* Fault, for a mutant: the claim is taken for the evidence.
ProvedFault == claim = goal.rev

\* verify_goal_completion: the claim and the evidence are of this revision.
Proved == claim = goal.rev /\ evidence = goal.rev
Verify ==
  /\ pc = "claimed"
  /\ goal.status \in {"GOAL_READY", "EXECUTING"} /\ Proved
  /\ goal' = [goal EXCEPT !.status = "VERIFIED_DONE"]
  /\ permit' = NoPermits
  /\ pc' = "verified"
  /\ UNCHANGED <<corrections, evidence, claim, asked, run, batch, orphan>>
CompleteRun ==
  /\ pc = "verified"
  /\ DropRun /\ Finish
  /\ UNCHANGED <<goalVars, permit, asked, orphan>>

\* start_tool_batch: which tools the model is shown depends on the goal.
Exposed ==
  IF goal.status \in Open THEN Kinds
  ELSE IF goal.status \in Terminal THEN {} ELSE Kinds \ Effectful
StartBatch ==
  /\ pc = "sent"
  /\ Governed
  /\ \E n \in 1..BatchSize : \E kinds \in [1..n -> Exposed] :
       batch' = [i \in 1..n |-> FreshCall(kinds[i])]
  /\ run' = [run EXCEPT !.phase = "TOOL", !.cursor = 1]
  /\ Continue
  /\ UNCHANGED <<goalVars, permit, asked, orphan>>

-----------------------------------------------------------------------------
(* Failures                                                                *)

\* A save fails without having replaced the file: the handler turns a call in
\* progress into a recovery and fails any other run.
SaveFails ==
  /\ pc \notin {"idle", "invoke"}
  /\ \/ UnknownEffect /\ run' = Recovering(run) /\ UNCHANGED batch
     \/ ~UnknownEffect /\ DropRun
  /\ Finish
  /\ UNCHANGED <<goalVars, permit, asked, orphan>>

Crash ==
  /\ pc # "idle"
  /\ pc' = "idle"
  /\ UNCHANGED <<goalVars, permit, asked, run, batch, orphan>>

-----------------------------------------------------------------------------
GoalAction ==
  \/ SubmitMessage \/ PauseGoal \/ CancelGoal \/ ResumeGoal \/ ConfirmCriterion
PermissionAction ==
  \/ AnswerDisclosure \/ RevokeConsent \/ RevokeGoalTargetAuthority
  \/ RevokeProcessAuthority \/ Approve \/ Reject
RunAction ==
  \/ ResolveUnknownToolOutcome \/ RecoverUnknownObservation \/ Resume \/ CancelRun
UserAction == GoalAction \/ PermissionAction \/ RunAction \/ RefuseAction

Poll == PollPause \/ PollCancel \/ PollCorrect
Stop == LimitReached \/ PauseRetryable \/ EndRun \/ AskDisclosure
DriveTool == Refuse \/ NeedApproval \/ MarkExecuting \/ Invoke \/ RecordResult
DriveModel ==
  \/ Attempt \/ Repair \/ EndsInProse \/ ProposeGoal \/ RecordProgress
  \/ AcceptDelta \/ NoopDelta \/ AcceptBlockedClaim
  \/ RecordEvidence \/ RecordClaim \/ Verify \/ CompleteRun \/ StartBatch
Drive == Claim \/ Poll \/ Stop \/ DriveTool \/ DriveModel \/ SaveFails

Next == UserAction \/ Drive \/ Crash

\* run_turn is ordinary sequential code, so a turn that has begun goes on;
\* the user owes nothing, and nobody has to come back after a crash.
Spec == Init /\ [][Next]_vars /\ WF_vars(Drive)

-----------------------------------------------------------------------------
(* Properties                                                              *)

TypeOK ==
  /\ goal \in [status : GoalStatus, rev : 0..MaxRev]
  /\ corrections \in 0..MaxCorrections
  /\ evidence \in 0..MaxRev /\ claim \in 0..MaxRev
  /\ permit \in [Permitted -> [rev : 0..MaxRev, uses : 0..PermitUses]]
  /\ asked \in BOOLEAN /\ orphan \in BOOLEAN
  /\ batch \in Seq(Call)
  /\ run \in [status : RunStatus, phase : {"MODEL", "TOOL", "EXECUTING"},
              cursor : 0..Len(batch), owned : BOOLEAN, grant : 0..Len(batch),
              used : 0..RunLimit]
  /\ pc \in {"idle", "claim", "first", "loop", "invoke", "record", "sent",
             "evidence", "claimed", "verified"}

\* A tool call is invoked at most once, whatever crashes, save failures,
\* resumptions and approvals come between mark_executing, the invocation and
\* record_tool_result.
AtMostOnce == \A i \in DOMAIN batch : batch[i].invs <= 1

\* What the conversation says of a call is true of the world: a call recorded
\* as not executed was never invoked (_unstarted_batch_suffix_facts,
\* record_nonexecuted_tool_result), one recorded with a result was, and one
\* that was invoked without a result is the EXECUTING one, which the user will
\* be asked to classify (_has_unknown_effect).
EffectAccounted ==
  \A i \in DOMAIN batch :
    /\ batch[i].res = "notrun" => batch[i].invs = 0
    /\ batch[i].res = "ok" => batch[i].invs = 1
    /\ batch[i].res = "open" /\ batch[i].invs > 0 => UnknownEffect /\ i = run.cursor

\* Unless the orphan flag says otherwise, every batch the model asked for is
\* answered call by call before the model or the user is heard again: results
\* come in order, and only the run that is in the batch has open calls.
BatchesClosed ==
  ~orphan => \A i \in DOMAIN batch :
               batch[i].res = "open" <=> run.phase # "MODEL" /\ i >= run.cursor

\* An approval is never applied to anything but what the user saw: while a
\* grant is standing the run is at the approved call, and no correction of the
\* goal has come since.  So when a call is invoked, no correction waits, its
\* goal can be advanced, and it was given the word its kind calls for
\* (accept_action's ResolveApproval, _poll_control, prepare, mark_executing).
InvokeAuthorized ==
  /\ run.grant # 0 => /\ run.status = "RUNNABLE" /\ run.phase = "TOOL"
                      /\ run.grant = run.cursor /\ corrections = 0
  /\ pc = "invoke" =>
       /\ corrections = 0
       /\ Current.kind \in Effectful => goal.status \in Open
       /\ Current.kind = "proc" => Current.by = "permit"
       /\ Current.kind \in {"net", "write"} => Current.by \in {"user", "permit"}

\* A standing permission never outlives the intent it was given for: no
\* authorization or lease with uses left is bound to another revision than the
\* goal's, or to a goal that is paused or over (pause_goal, cancel_goal,
\* apply_control_request, accept_goal_delta_proposal, verify_goal_completion).
PermitsCurrent ==
  \A k \in Permitted :
    permit[k].uses > 0 => permit[k].rev = goal.rev /\ goal.status \in Open

\* A goal becomes VERIFIED_DONE only with evidence and a claim of its current
\* revision, and not over a correction the model has not yet admitted:
\* verify_goal_completion itself never looks at corrections.
VerifiedIsProved ==
  [][goal'.status = "VERIFIED_DONE" /\ goal.status # "VERIFIED_DONE"
       => evidence = goal'.rev /\ claim = goal'.rev /\ corrections = 0]_vars

\* A turn comes to an end: the model cannot keep it going for ever with
\* repairs, batches and corrections, because a run has max_run_model_calls.
TurnEnds == pc # "idle" ~> pc = "idle"

=============================================================================

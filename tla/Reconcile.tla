------------------------------ MODULE Reconcile ------------------------------
(***************************************************************************)
(* The wakes of the automation subsystem: AutomationReconciler.reconcile   *)
(* (agent/automation/reconcile.py), the supervised child of an occurrence  *)
(* (supervisor.py, child.py and their POSIX host) and the one checkpoint   *)
(* its runtime works on (agent/automation_hosts/runtime_executor.py,       *)
(* agent/scheduler/caller.py).                                             *)
(*                                                                         *)
(* A wake is a process without a lock of its own.  It reads the records,   *)
(* decides, and then takes steps that each load the records anew: the      *)
(* claim, the workspace, the checkpoint, dispatch, start, execution, the   *)
(* capture of the output, the outcome.  Anything may happen between two of *)
(* them: the user, another wake, the death of the wake.  A child that was  *)
(* told to execute lives on when its wake dies; any other reads the end of *)
(* its input and exits.                                                    *)
(*                                                                         *)
(* Left out: a missing provider, sandbox or browser (the wake then changes *)
(* nothing), artifacts, and the deadline, which only bounds tool calls;    *)
(* and that a child whose save was made but reported as failed tries again *)
(* (module BackgroundRun).  The host is the one there is: it composes a    *)
(* runtime over the workspace (agent/automation_hosts/macos_runtime.py).   *)
(***************************************************************************)
EXTENDS Automation

CONSTANTS
  Overlap,    \* bound: the steps of a wake at which another may start ({}: none)
  MaxCrashes  \* bound: wakes that die

ASSUME ReconcileAssumption == MaxCrashes \in Nat

VARIABLES
  wake,    \* where each wake is, its occurrence, and what it will record
  run,     \* the runner each wake owns: its child, or itself when it recovers
  file,    \* the runtime checkpoint of each occurrence
  turns,   \* ghost: turns that were started on it
  crashes

vars == <<rec, now, repo, wake, run, file, turns, crashes>>
world == <<file, turns, crashes>>

NoOcc == [auto |-> "none", rev |-> 0, idx |-> 0]
Idle == [pc |-> "idle", occ |-> NoOcc, out |-> "none"]
NoRun == [pc |-> "none", occ |-> NoOcc, out |-> "none"]

Init ==
  /\ RecordInit
  /\ repo = [src |-> [a \in Autos |-> "none"], ws |-> [o \in Occurrences |-> "none"],
             meta |-> [o \in Occurrences |-> "none"]]
  /\ wake = [w \in Wakes |-> Idle]
  /\ run = [w \in Wakes |-> NoRun]
  /\ file = [o \in Occurrences |-> "none"]
  /\ turns = [o \in Occurrences |-> 0]
  /\ crashes = 0

At(w, pc) == wake[w].pc = pc
Occ(w) == wake[w].occ
Goto(w, pc) == wake' = [wake EXCEPT ![w].pc = pc]
ToRecord(w, out) == wake' = [wake EXCEPT ![w].pc = "record", ![w].out = out]
Leave(w) == wake' = [wake EXCEPT ![w] = Idle]

-----------------------------------------------------------------------------
(* A wake begins.  An active claim comes first, then a pending purge, and   *)
(* only then the schedule.                                                  *)

\* Without a process of its own left over: a wake is a new process each time.
Starts(w) ==
  /\ At(w, "idle") /\ run[w] = NoRun
  /\ \A v \in Wakes : At(v, "idle") \/ wake[v].pc \in Overlap
NoClaims == \A a \in Autos : ~Claimed(a)
Purging(a) == rec[a].status = "PURGE_PENDING"
NoPurges == \A a \in Autos : ~Purging(a)

\* The records of a snapshot are sorted by automation_id, which says nothing else.
Place ==
  CHOOSE f \in [Autos -> 1..Cardinality(Autos)] : \A a, b \in Autos : f[a] = f[b] => a = b
NotAfter(a, b) == Place[a] <= Place[b]

\* Fault, for a mutant: an outcome nobody saw is taken for a failure.
UnseenFault(phase) == "FAILED"

\* A dispatched occurrence may have been started: nobody knows.
Unseen(phase) == "UNRESOLVED"

\* _reconcile_active: what is done with a claim depends on its phase.
ObserveClaim(w) ==
  /\ Starts(w)
  /\ \E a \in Autos :
       LET r == rec[a]
           o == OccurrenceOf(a)
           go(pc, out) == wake' = [wake EXCEPT ![w] = [pc |-> pc, occ |-> o, out |-> out]]
       IN /\ Claimed(a)
          /\ \/ /\ r.phase = "CLAIMED" /\ r.status = "CANCEL_PENDING"
                /\ go(IF repo.ws[o] = "none" THEN "record" ELSE "clean", "CANCELED")
             \/ /\ r.phase = "CLAIMED" /\ r.status # "CANCEL_PENDING"
                /\ go("prepare", "none")
             \/ /\ r.phase = "DISPATCHED" /\ go("record", Unseen(r.phase))
             \/ /\ r.phase = "RUNNING" /\ go("recover", "none")
  /\ UNCHANGED <<rec, now, repo, run, world>>

\* The earliest slot of all, and of those the first by name.
Decide(w) ==
  /\ Starts(w) /\ NoClaims /\ NoPurges
  /\ \E a \in Autos : \E d \in Decision(a, now) :
       /\ \A b \in Autos : \A e \in Decision(b, now) :
            d.occ.idx < e.occ.idx \/ (d.occ.idx = e.occ.idx /\ NotAfter(a, b))
       /\ wake' = [wake EXCEPT ![w] = [pc |-> "claim", occ |-> d.occ,
                     out |-> IF d.due THEN "none" ELSE "MISFIRE_SKIPPED"]]
  /\ UNCHANGED <<rec, now, repo, run, world>>

\* ClaimOccurrence; a slot past its grace is claimed only to be skipped.
Claim(w) ==
  /\ At(w, "claim") /\ MayClaim(Occ(w))
  /\ ClaimIt(Occ(w))
  /\ Goto(w, IF wake[w].out = "none" THEN "prepare" ELSE "record")
  /\ UNCHANGED <<now, repo, run, world>>

-----------------------------------------------------------------------------
(* Preparation                                                             *)

\* materialize_occurrence: the workspace is made once; one that is finished is
\* not made again.
Materialize(w) ==
  LET o == Occ(w)
  IN /\ At(w, "prepare")
     /\ repo.src[o.auto] = "live" /\ repo.ws[o] \in {"none", "live", "captured"}
     /\ repo' = IF repo.ws[o] = "none" THEN [repo EXCEPT !.ws[o] = "live"] ELSE repo
     /\ Goto(w, "initialize")
     /\ UNCHANGED <<rec, now, run, world>>

\* executor.initialize: the checkpoint is created exclusively, or loaded.
Initialize(w) ==
  LET o == Occ(w)
  IN /\ At(w, "initialize")
     /\ Holds(o)
     /\ file' = [file EXCEPT ![o] = IF @ = "none" THEN "fresh" ELSE @]
     /\ Goto(w, "admit")
     /\ UNCHANGED <<rec, now, repo, run, turns, crashes>>

\* admit_runtime_checkpoint
Admit(w) ==
  /\ At(w, "admit")
  /\ repo' = [repo EXCEPT !.meta[Occ(w)] = IF @ = "none" THEN "live" ELSE @]
  /\ Goto(w, "spawn")
  /\ UNCHANGED <<rec, now, run, world>>

-----------------------------------------------------------------------------
(* The handshake with the child, and the run                               *)

\* on_ready: MarkDispatched, then the permit.
Dispatch(w) ==
  /\ At(w, "spawn") /\ MayDispatch(Occ(w))
  /\ DispatchIt(Occ(w), w)
  /\ Goto(w, "permit")
  /\ UNCHANGED <<now, repo, run, world>>

RunningFirst(o, w) == MayRun(o, w) /\ RunIt(o)

\* STARTED arrives: MarkRunning before anything is executed.
Started(w) ==
  /\ At(w, "permit")
  /\ RunningFirst(Occ(w), w)
  /\ Goto(w, "execute")
  /\ UNCHANGED <<now, repo, run, world>>

\* The execute frame is sent.
Execute(w) ==
  /\ At(w, "execute")
  /\ run' = [run EXCEPT ![w] = [pc |-> "start", occ |-> Occ(w), out |-> "none"]]
  /\ Goto(w, "wait")
  /\ UNCHANGED <<rec, now, repo, world>>

\* No STARTED in time, or a frame that cannot be written: unknown.
HandshakeFails(w) ==
  /\ At(w, "permit") \/ At(w, "execute")
  /\ ToRecord(w, "UNRESOLVED")
  /\ UNCHANGED <<rec, now, repo, run, world>>

\* Fault, for a mutant: nothing holds the checkpoint of a turn at work.
BusyFault(o) == FALSE

\* The flock of the checkpoint is held by a turn at work.
Busy(o) == \E v \in Wakes : run[v].occ = o /\ run[v].pc = "turn"

\* Fault, for a mutant: the action of the run is not sequence number 1.
FirstTurnFault(o) == TRUE

\* accept_action on sequence number 1, revision 0 (module ActionLedger).
FirstTurn(o) == file[o] = "fresh"

\* A runtime is composed over the workspace as it is.
Composes(o) == Holds(o) /\ repo.ws[o] # "cleaned"

\* run_once and recover end in the same run_turn.  It needs the flock of the
\* checkpoint; it starts the turn, takes up one that was interrupted, or
\* replays the result of one that is finished.  A first save that fails, or that
\* comes after one of another runner, fails the run and leaves the checkpoint.
RunTurn(w) ==
  LET o == run[w].occ
  IN /\ run[w].pc = "start" /\ Composes(o)
     /\ \/ /\ Busy(o)
           /\ run' = [run EXCEPT ![w].pc = "end", ![w].out = "UNRESOLVED"]
           /\ UNCHANGED <<file, turns>>
        \/ /\ ~Busy(o) /\ FirstTurn(o)
           /\ file' = [file EXCEPT ![o] = "begun"]
           /\ turns' = [turns EXCEPT ![o] = @ + 1]
           /\ run' = [run EXCEPT ![w].pc = "turn"]
        \/ /\ ~Busy(o) /\ file[o] = "begun"
           /\ run' = [run EXCEPT ![w].pc = "turn"]
           /\ UNCHANGED <<file, turns>>
        \/ /\ ~Busy(o) /\ file[o] \in {"COMPLETED", "FAILED", "UNRESOLVED"}
           /\ run' = [run EXCEPT ![w].pc = "end", ![w].out = file[o]]
           /\ UNCHANGED <<file, turns>>
        \/ /\ ~Busy(o)
           /\ run' = [run EXCEPT ![w].pc = "end", ![w].out = "FAILED"]
           /\ UNCHANGED <<file, turns>>
     /\ UNCHANGED <<rec, now, repo, wake, crashes>>

\* The turn finishes: done, failed, or waiting for a human.  One that fails may not
\* be able to save that it did, or have saved that it waits.
EndTurn(w) ==
  LET o == run[w].occ
  IN /\ run[w].pc = "turn"
     /\ \E out \in {"COMPLETED", "FAILED", "UNRESOLVED"} :
          /\ \/ file' = [file EXCEPT ![o] = out]
             \/ out = "FAILED" /\ file' \in {file, [file EXCEPT ![o] = "UNRESOLVED"]}
          /\ run' = [run EXCEPT ![w].pc = "end", ![w].out = out]
     /\ UNCHANGED <<rec, now, repo, wake, turns, crashes>>

\* Fault, for a mutant: a run that failed has failed its occurrence.
ToldFault(w) == run[w].out

\* _report: a checkpoint that is completed has the last word.
Told(w) == IF file[run[w].occ] = "COMPLETED" THEN "COMPLETED" ELSE run[w].out

\* The result of the runner is there: a child's process group is cleaned up.
Result(w) ==
  /\ At(w, "wait") /\ run[w].pc = "end"
  /\ wake' = [wake EXCEPT ![w].pc = IF Told(w) = "UNRESOLVED" THEN "record" ELSE "clean",
                          ![w].out = Told(w)]
  /\ run' = [run EXCEPT ![w] = NoRun]
  /\ UNCHANGED <<rec, now, repo, world>>

\* The child gives no result (it died, it was too late, its claim was gone): it
\* is killed, unless its group survives the clean-up, which is then unknown.
NoResult(w) ==
  /\ At(w, "wait")
  /\ run' \in {run, [run EXCEPT ![w] = NoRun]}
  /\ ToRecord(w, "UNRESOLVED")
  /\ UNCHANGED <<rec, now, repo, world>>

\* recover: a checkpoint at revision 0, or none, tells nothing.
Recover(w) ==
  LET o == Occ(w)
  IN /\ At(w, "recover") /\ Holds(o) /\ repo.ws[o] # "none"
     /\ \/ /\ file[o] \in {"none", "fresh"}
           /\ ToRecord(w, Unseen("RUNNING"))
           /\ UNCHANGED run
        \/ /\ file[o] \notin {"none", "fresh"}
           /\ run' = [run EXCEPT ![w] = [pc |-> "start", occ |-> o, out |-> "none"]]
           /\ Goto(w, "rerun")
     /\ UNCHANGED <<rec, now, repo, world>>
\* What the runtime has opened may not be closed: that is unknown too.
Recovered(w) ==
  /\ At(w, "rerun") /\ run[w].pc = "end"
  /\ \E out \in {Told(w), "UNRESOLVED"} :
       wake' = [wake EXCEPT ![w].pc = IF out = "UNRESOLVED" THEN "record" ELSE "clean",
                            ![w].out = out]
  /\ run' = [run EXCEPT ![w] = NoRun]
  /\ UNCHANGED <<rec, now, repo, world>>

-----------------------------------------------------------------------------
(* The end of an occurrence                                                *)

\* _capture_and_cleanup: the output is captured, then the workspace deleted;
\* either may fail.
CaptureAndCleanup(w) ==
  LET o == Occ(w)
  IN /\ At(w, "clean")
     /\ \/ /\ repo.src[o.auto] = "live" /\ repo.ws[o] # "none"
           /\ repo' = [repo EXCEPT !.ws[o] = "cleaned"]
           /\ Goto(w, "record")
        \/ /\ repo' = IF repo.ws[o] = "live" /\ repo.src[o.auto] = "live"
                        THEN [repo EXCEPT !.ws[o] = "captured"] ELSE repo
           /\ ToRecord(w, "UNRESOLVED")
        \/ UNCHANGED repo /\ ToRecord(w, "UNRESOLVED")
     /\ UNCHANGED <<rec, now, run, world>>

RecordOutcome(w) ==
  /\ At(w, "record") /\ MayRecord(Occ(w), wake[w].out)
  /\ RecordIt(Occ(w), wake[w].out)
  /\ Leave(w)
  /\ UNCHANGED <<now, repo, run, world>>

-----------------------------------------------------------------------------
(* A purge: the intent, the deletion and its confirmation are steps of     *)
(* their own, for one object after the other.                              *)

\* Only the first record that is PURGE_PENDING is looked at, also when it is stuck.
FirstPurge(a) == Purging(a) /\ \A b \in Autos : Purging(b) => NotAfter(a, b)

\* The first object of the manifest that is still there: it is sorted by names that
\* say nothing of the objects.
Pending(a) == CHOOSE x \in rec[a].purge.todo : TRUE
StartPurge(w) ==
  /\ Starts(w) /\ NoClaims
  /\ \E a \in Autos : FirstPurge(a) /\ \E x \in rec[a].purge.todo :
       x = Pending(a) /\ MayStartPurge(a, x) /\ StartPurgeIt(a, x)
  /\ UNCHANGED <<now, repo, wake, run, world>>

\* delete_purge_object: what is already gone counts as cleaned, and the entry
\* of a checkpoint is marked so; a workspace that was not captured stays.
Deleted(a, x) ==
  CASE x.kind = "source"     -> [repo EXCEPT !.src[a] = "cleaned"]
    [] x.kind = "workspace"  -> [repo EXCEPT !.ws[Slot(a, x)] = "cleaned"]
    [] x.kind = "checkpoint" -> [repo EXCEPT !.meta[Slot(a, x)] = "cleaned"]
MayDelete(a, x) == x.kind = "workspace" => repo.ws[Slot(a, x)] # "live"
Confirm(w, a, x, cleaned) ==
  wake' = [wake EXCEPT ![w] = [pc |-> "confirm", out |-> IF cleaned THEN "ok" ELSE "UNRESOLVED",
             occ |-> [auto |-> a, rev |-> x.rev, idx |-> x.idx, kind |-> x.kind]]]
DeletePurge(w) ==
  /\ Starts(w) /\ NoClaims
  /\ \E a \in Autos : FirstPurge(a) /\ ~rec[a].purge.stuck /\ \E x \in rec[a].purge.busy :
       \/ MayDelete(a, x) /\ repo' = Deleted(a, x) /\ Confirm(w, a, x, TRUE)
       \/ IsLive(a, x) /\ UNCHANGED repo /\ Confirm(w, a, x, FALSE)
  /\ UNCHANGED <<rec, now, run, world>>
ConfirmPurge(w) ==
  LET o == Occ(w)
      x == [kind |-> o.kind, rev |-> o.rev, idx |-> o.idx]
  IN /\ At(w, "confirm") /\ MayProgress(o.auto, x)
     /\ ProgressIt(o.auto, x, wake[w].out = "ok")
     /\ Leave(w)
     /\ UNCHANGED <<now, repo, run, world>>
FinishPurge(w) ==
  /\ Starts(w) /\ NoClaims
  /\ \E a \in Autos : FirstPurge(a) /\ MayFinishPurge(a) /\ FinishPurgeIt(a)
  /\ UNCHANGED <<now, repo, wake, run, world>>

-----------------------------------------------------------------------------
(* A step that raises ends the wake                                        *)

Raises(w) ==
  LET o == Occ(w)
  IN \/ At(w, "claim") /\ ~MayClaim(o)
     \/ At(w, "prepare") /\ ~(repo.src[o.auto] = "live" /\ repo.ws[o] # "cleaned")
     \/ At(w, "initialize") /\ ~Holds(o)
     \/ At(w, "spawn") /\ ~MayDispatch(o)
     \/ At(w, "permit") /\ ~MayRun(o, w)
     \/ At(w, "recover") /\ ~(Holds(o) /\ repo.ws[o] # "none")
     \/ At(w, "rerun") /\ run[w].pc = "start" /\ ~Composes(o)
     \/ At(w, "record") /\ ~MayRecord(o, wake[w].out)
     \/ At(w, "confirm")
          /\ ~MayProgress(o.auto, [kind |-> o.kind, rev |-> o.rev, idx |-> o.idx])
\* What is left of its runner: a recovery is part of the wake itself.
Ended(w) == IF At(w, "rerun") THEN [run EXCEPT ![w] = NoRun] ELSE run
Raise(w) ==
  /\ Raises(w)
  /\ Leave(w)
  /\ run' = Ended(w)
  /\ UNCHANGED <<rec, now, repo, world>>

\* The wake dies, loses its compare-and-swap, or has a child that is not READY
\* in time; a child that executes lives on, and dies when it wants to.
Crash(w) ==
  /\ ~At(w, "idle") /\ crashes < MaxCrashes
  /\ crashes' = crashes + 1
  /\ Leave(w)
  /\ run' = Ended(w)
  /\ UNCHANGED <<rec, now, repo, file, turns>>
OrphanEnds(w) ==
  /\ At(w, "idle") /\ run[w] # NoRun
  /\ run' = [run EXCEPT ![w] = NoRun]
  /\ UNCHANGED <<rec, now, repo, wake, world>>

-----------------------------------------------------------------------------
Begin(w) ==
  \/ ObserveClaim(w) \/ Decide(w)
  \/ StartPurge(w) \/ DeletePurge(w) \/ FinishPurge(w)
Go(w) ==
  \/ Claim(w) \/ Materialize(w) \/ Initialize(w) \/ Admit(w)
  \/ Dispatch(w) \/ Started(w) \/ Execute(w) \/ HandshakeFails(w)
  \/ Result(w) \/ NoResult(w) \/ Recover(w) \/ Recovered(w)
  \/ CaptureAndCleanup(w) \/ RecordOutcome(w) \/ ConfirmPurge(w) \/ Raise(w)
Runner(w) == RunTurn(w) \/ EndTurn(w) \/ OrphanEnds(w)

UserStep ==
  /\ \E a \in Autos : UserMutation(a)
  /\ UNCHANGED <<wake, run, world>>
Time == Tick /\ UNCHANGED <<wake, run, world>>

Next == UserStep \/ Time \/ \E w \in Wakes : Begin(w) \/ Go(w) \/ Runner(w) \/ Crash(w)

\* The host delivers wakes again and again, and a process that has begun goes
\* on; the user owes nothing.
Spec ==
  /\ Init /\ [][Next]_vars
  /\ \A w \in Wakes : WF_vars(Begin(w)) /\ WF_vars(Go(w)) /\ WF_vars(Runner(w))

-----------------------------------------------------------------------------
(* Properties                                                              *)

ClaimSet == [rev : 0..MaxRev, idx : 0..MaxOcc - 1]
TypeOK ==
  /\ rec \in [Autos ->
       [status : Status, rev : 0..MaxRev, draft : 0..MaxRev, next : 0..MaxOcc,
        count : 0..MaxOcc, human : BOOLEAN, claim : ClaimSet, phase : Phases,
        proc : Wakes \cup {"none"},
        hist : Seq([rev : 1..MaxRev, idx : 0..MaxOcc - 1, out : SafeOutcomes]),
        purge : [todo : SUBSET Objects, busy : SUBSET Objects, stuck : BOOLEAN]]]
  /\ \A a \in Autos :
       /\ rec[a].human => rec[a].status = "PAUSED" /\ Claimed(a)
       /\ Claimed(a) <=> rec[a].phase # "none"
       /\ Len(rec[a].hist) <= HistoryCap
  /\ repo \in [src : [Autos -> {"none", "live", "cleaned"}],
               ws : [Occurrences -> {"none", "live", "captured", "cleaned"}],
               meta : [Occurrences -> {"none", "live", "cleaned"}]]
  /\ file \in [Occurrences ->
       {"none", "fresh", "begun", "COMPLETED", "FAILED", "UNRESOLVED"}]

\* Global concurrency is FORBID: whatever wakes, users and updates do, at most
\* one occurrence of all automations is claimed (_claim).
OneClaim == Cardinality({a \in Autos : Claimed(a)}) <= 1

\* The task of an occurrence is started at most once, by whichever wake, child
\* or recovery gets to its checkpoint (run_once, recover, accept_action).
TurnOnce == \A o \in Occurrences : turns[o] <= 1

\* No task is started before its claim is durably RUNNING, so that a later wake
\* always finds a trace of what it cannot vouch for (on_started, MarkRunning).
StartedDurably ==
  [][\A o \in Occurrences : turns'[o] # turns[o] =>
       Holds(o) /\ rec[o.auto].phase \in {"RUNNING", "UNRESOLVED"}]_vars

\* The history of an automation is what happened: each occurrence has one
\* outcome, in the order of the slots of its revision; a completed one ended so
\* in its own checkpoint and a failed one did not, and a skipped or cancelled one
\* was never started (_record_occurrence_outcome, _reconcile_active, _report).
Entries(a) == DOMAIN rec[a].hist
HistoryInOrder ==
  \A a \in Autos : \A i, j \in Entries(a) :
    LET h == rec[a].hist
    IN i < j => h[i].rev < h[j].rev \/ (h[i].rev = h[j].rev /\ h[i].idx < h[j].idx)
HistoryTrue ==
  \A a \in Autos : \A i \in Entries(a) :
    LET h == rec[a].hist[i]
        o == [auto |-> a, rev |-> h.rev, idx |-> h.idx]
    IN /\ h.out \in {"COMPLETED", "FAILED"} => (h.out = "COMPLETED" <=> file[o] = "COMPLETED")
       /\ h.out \in {"MISFIRE_SKIPPED", "CANCELED"} => turns[o] = 0

\* A workspace is deleted only when its occurrence has ended: never under a
\* turn that is still at work in it (_capture_and_cleanup).
WorkspaceKept ==
  \A w \in Wakes : run[w].pc = "turn" => repo.ws[run[w].occ] # "cleaned"

\* A purged automation owns nothing any more: what it owned is frozen in a
\* manifest when the purge begins, and the wakes that were still at work on it
\* create nothing behind its back (confirm_purge, _finish_purge, _claim).
PurgedOwnsNothing == \A a \in Autos : rec[a].status = "PURGED" => Owned(a) = {}

\* A claim is settled, by an outcome or by asking for a human: wakes, crashes and
\* failures in between do not leave it open for ever (the checkpoint of a run that has
\* ended is replayed by the next wake).  The one exception is a wake that ends between
\* the deletion of the workspace and the record of the outcome: no runtime is composed
\* over what is gone, so every later wake raises.
Answered(a) == ~Claimed(a) \/ rec[a].phase = "UNRESOLVED"
Stranded(a) ==
  /\ Claimed(a) /\ repo.ws[OccurrenceOf(a)] = "cleaned"
  /\ \A w \in Wakes : At(w, "record") => Occ(w) # OccurrenceOf(a)
ClaimSettlesOrStrands == \A a \in Autos : Claimed(a) ~> Answered(a) \/ Stranded(a)

\* A purge ends, through deaths between its steps and beside the purge of another
\* automation.  What it may wait behind for good: a purge that comes first by name and
\* of which a deletion failed (its own, or that of another), and the claim of another
\* automation that asks for a human or is stranded (reconcile, _reconcile_purge).
Blocked ==
  \/ \E b \in Autos : FirstPurge(b) /\ rec[b].purge.stuck
  \/ \E b \in Autos : rec[b].phase = "UNRESOLVED" \/ Stranded(b)
PurgeEnds == \A a \in Autos : Purging(a) ~> ~Purging(a) \/ Blocked

=============================================================================

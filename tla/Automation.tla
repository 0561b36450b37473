----------------------------- MODULE Automation -----------------------------
(***************************************************************************)
(* The automation records and every mutation of them                       *)
(* (agent/automation/controller.py), with what a record may never look     *)
(* like (AutomationRecordV1.__post_init__ in contracts.py: a mutation that *)
(* would produce such a record raises and changes nothing), and the        *)
(* schedule (schedule.py).                                                 *)
(*                                                                         *)
(* A mutation is one compare-and-swap under the store's lease, so it is    *)
(* one step.  The ones of the user are actions here; the ones of a wake    *)
(* (claim, dispatch, run, outcome, purge) are operators that module        *)
(* Reconcile puts into the steps of its processes.                         *)
(*                                                                         *)
(* A definition is known by its revision: all revisions have one schedule, *)
(* whose slot i is at time i * Interval.  The four unknown outcomes and    *)
(* needs_human are one phase, UNRESOLVED.                                  *)
(***************************************************************************)
EXTENDS Naturals, Sequences, FiniteSets

CONSTANTS
  Autos,       \* automations
  Wakes,       \* reconcile processes; also the identities of their children
  MaxRev,      \* bound: revisions of a definition
  MaxOcc,      \* max_occurrences of a definition
  Interval,    \* interval_seconds
  Grace,       \* misfire_grace_seconds
  CatchUp,     \* catch_up: "NONE" or "LATEST_ONE"
  MaxNow,      \* bound: the clock; also expires_at_utc
  HistoryCap   \* terminal summaries a record holds (128 in the code)

ASSUME AutomationAssumption ==
  /\ MaxRev \in Nat \ {0} /\ MaxOcc \in Nat \ {0} /\ Interval \in Nat \ {0}
  /\ Grace \in Nat /\ MaxNow \in Nat /\ HistoryCap \in Nat
  /\ CatchUp \in {"NONE", "LATEST_ONE"}

VARIABLES
  rec,   \* the record of each automation
  now,   \* the clock
  repo   \* the owned objects: [src, ws, meta] of workspace.py

\* An occurrence is the slot of a revision of an automation.
Occurrences == [auto : Autos, rev : 1..MaxRev, idx : 0..MaxOcc - 1]
NoClaim == [rev |-> 0, idx |-> 0]
Phases == {"none", "CLAIMED", "DISPATCHED", "RUNNING", "UNRESOLVED"}
SafeOutcomes == {"COMPLETED", "FAILED", "MISFIRE_SKIPPED", "CANCELED"}

\* absent: there is no record.  PURGED: only a tombstone is left.
Status == {"absent", "PROPOSAL", "ACTIVE", "PAUSED", "CANCEL_PENDING",
           "CANCELED", "PURGE_PENDING", "PURGED"}

\* What an automation owns: the captured source, and for an occurrence the
\* workspace and the entry of its runtime checkpoint.
Objects ==
  [kind : {"source"}, rev : {0}, idx : {0}]
    \cup [kind : {"workspace", "checkpoint"}, rev : 1..MaxRev, idx : 0..MaxOcc - 1]

NoPurge == [todo |-> {}, busy |-> {}, stuck |-> FALSE]
Absent ==
  [status |-> "absent", rev |-> 0, draft |-> 0, next |-> 0, count |-> 0,
   human |-> FALSE, claim |-> NoClaim, phase |-> "none", proc |-> "none",
   hist |-> <<>>, purge |-> NoPurge]

RecordInit == rec = [a \in Autos |-> Absent] /\ now = 0

Claimed(a) == rec[a].claim # NoClaim
Holds(o) == rec[o.auto].claim = [rev |-> o.rev, idx |-> o.idx]
OccurrenceOf(a) == [auto |-> a, rev |-> rec[a].claim.rev, idx |-> rec[a].claim.idx]

-----------------------------------------------------------------------------
(* The schedule                                                            *)

\* resolve_schedule and _decision_for_slot: nothing, or one slot of the
\* approved revision that is due, or that is past its grace.
Decision(a, t) ==
  LET r == rec[a]
      latest == IF t \div Interval < MaxOcc THEN t \div Interval ELSE MaxOcc - 1
      i == IF CatchUp = "NONE" THEN r.next ELSE latest
  IN IF /\ r.status = "ACTIVE" /\ ~r.human /\ ~Claimed(a)
        /\ r.next < MaxOcc /\ r.next * Interval <= t /\ t <= MaxNow
       THEN {[occ |-> [auto |-> a, rev |-> r.rev, idx |-> i],
              due |-> t <= i * Interval + Grace]}
       ELSE {}

-----------------------------------------------------------------------------
(* The mutations of a wake, on the record of automation a                  *)

\* Faults, for the mutants.
ForbidFault(a) == ~Claimed(a)      \* only its own record is looked at
AdvanceFault(r) == r.next          \* the cursor stays
ProgressFault(a, x, cleaned) ==    \* the intent is not cleared
  rec' = [rec EXCEPT ![a].purge.todo = @ \ {x}]

\* _claim: one claim at a time over all records, of exactly the next slot.
Forbid(a) == \A b \in Autos : ~Claimed(b)
AtCursor(r, i) == i = r.next
MayClaim(o) ==
  LET r == rec[o.auto]
  IN /\ r.status = "ACTIVE"
     /\ Forbid(o.auto)
     /\ o.rev = r.rev
     /\ AtCursor(r, o.idx)
ClaimIt(o) ==
  rec' = [rec EXCEPT ![o.auto].claim = [rev |-> o.rev, idx |-> o.idx],
                     ![o.auto].phase = "CLAIMED"]

MayDispatch(o) == Holds(o) /\ rec[o.auto].phase = "CLAIMED"
DispatchIt(o, w) ==
  rec' = [rec EXCEPT ![o.auto].phase = "DISPATCHED", ![o.auto].proc = w]

MayRun(o, w) ==
  Holds(o) /\ rec[o.auto].phase = "DISPATCHED" /\ rec[o.auto].proc = w
RunIt(o) == rec' = [rec EXCEPT ![o.auto].phase = "RUNNING"]

\* _record_occurrence_outcome.  Which safe outcomes fit a phase:
SafeFrom(phase) ==
  IF phase = "CLAIMED" THEN {"MISFIRE_SKIPPED", "CANCELED"}
  ELSE IF phase = "RUNNING" THEN {"COMPLETED", "FAILED", "CANCELED"} ELSE {}
NextSlot(r) == r.claim.idx + 1
Settled(r) == [r EXCEPT !.claim = NoClaim, !.phase = "none", !.proc = "none"]
MayRecord(o, out) ==
  /\ Holds(o)
  /\ out # "UNRESOLVED" => /\ out \in SafeFrom(rec[o.auto].phase)
                           /\ Len(rec[o.auto].hist) < HistoryCap
Recorded(r, out) ==
  IF out = "UNRESOLVED"
    THEN [r EXCEPT !.status = "PAUSED", !.human = TRUE, !.phase = "UNRESOLVED"]
    ELSE [Settled(r) EXCEPT
            !.status = CASE r.status = "CANCEL_PENDING" -> "CANCELED"
                         [] r.status = "PAUSED" -> "PAUSED"
                         [] OTHER -> "ACTIVE",
            !.next = NextSlot(r), !.count = @ + 1, !.human = FALSE,
            !.hist = Append(@, [rev |-> r.claim.rev, idx |-> r.claim.idx,
                                out |-> out])]
RecordIt(o, out) == rec' = [rec EXCEPT ![o.auto] = Recorded(@, out)]

\* _start_purge_object, _record_purge_progress, _finish_purge
MayStartPurge(a, x) ==
  LET p == rec[a].purge
  IN rec[a].status = "PURGE_PENDING" /\ ~p.stuck /\ p.busy = {} /\ x \in p.todo
StartPurgeIt(a, x) == rec' = [rec EXCEPT ![a].purge.busy = {x}]
MayProgress(a, x) == rec[a].status = "PURGE_PENDING" /\ rec[a].purge.busy = {x}
ProgressIt(a, x, cleaned) ==
  rec' = IF cleaned
           THEN [rec EXCEPT ![a].purge.todo = @ \ {x}, ![a].purge.busy = {}]
           ELSE [rec EXCEPT ![a].purge.stuck = TRUE]
FinishFault(a) == rec[a].purge.busy = {}   \* for a mutant
PurgeDone(a) == rec[a].purge.busy = {} /\ rec[a].purge.todo = {}
MayFinishPurge(a) ==
  rec[a].status = "PURGE_PENDING" /\ ~rec[a].purge.stuck /\ PurgeDone(a)
FinishPurgeIt(a) == rec' = [rec EXCEPT ![a] = [Absent EXCEPT !.status = "PURGED"]]

-----------------------------------------------------------------------------
(* The mutations of the user (AutomationManagementService)                 *)

CreateProposal(a) ==
  /\ rec[a].status = "absent"
  /\ rec' = [rec EXCEPT ![a].status = "PROPOSAL", ![a].draft = 1]
  /\ UNCHANGED <<now, repo>>

StageRevision(a) ==
  LET r == rec[a]
      newest == IF r.draft > r.rev THEN r.draft ELSE r.rev
  IN /\ r.rev # 0 /\ r.status \notin {"CANCELED", "PURGE_PENDING", "PURGED"}
     /\ newest < MaxRev
     /\ rec' = [rec EXCEPT ![a].draft = newest + 1]
     /\ UNCHANGED <<now, repo>>

\* approve captures the source first.  An approval of an update takes the
\* place of the definition, starts its schedule anew and keeps the claim.
ApproveRevision(a) ==
  LET r == rec[a]
  IN /\ r.draft # 0
     /\ rec' = [rec EXCEPT ![a] =
                  [r EXCEPT !.rev = r.draft, !.draft = 0, !.next = 0, !.count = 0,
                     !.status = IF r.status \in {"PAUSED", "CANCEL_PENDING"}
                                  THEN @ ELSE "ACTIVE"]]
     /\ repo' = [repo EXCEPT !.src[a] = "live"]
     /\ UNCHANGED now

PauseAutomation(a) ==
  /\ rec[a].status = "ACTIVE"
  /\ rec' = [rec EXCEPT ![a].status = "PAUSED"]
  /\ UNCHANGED <<now, repo>>

ResumeAutomation(a) ==
  /\ rec[a].status = "PAUSED" /\ ~Claimed(a) /\ ~rec[a].human
  /\ rec' = [rec EXCEPT ![a].status = "ACTIVE"]
  /\ UNCHANGED <<now, repo>>

\* A proposal has no definition, and a record that needs a human must be
\* PAUSED: cancelling either of them raises.
CancelAutomation(a) ==
  /\ rec[a].status \in {"ACTIVE", "PAUSED", "CANCEL_PENDING"} /\ ~rec[a].human
  /\ rec' = [rec EXCEPT ![a].status =
               IF Claimed(a) THEN "CANCEL_PENDING" ELSE "CANCELED"]
  /\ UNCHANGED <<now, repo>>

\* confirm_purge: what is to be deleted is what the automation owns now.
Slot(a, x) == [auto |-> a, rev |-> x.rev, idx |-> x.idx]
IsLive(a, x) ==
  CASE x.kind = "source"     -> repo.src[a] = "live"
    [] x.kind = "workspace"  -> repo.ws[Slot(a, x)] \in {"live", "captured"}
    [] x.kind = "checkpoint" -> repo.meta[Slot(a, x)] = "live"
Owned(a) == {x \in Objects : IsLive(a, x)}
BeginPurge(a) ==
  /\ rec[a].status = "CANCELED" /\ ~Claimed(a)
  /\ rec' = [rec EXCEPT ![a] =
               [Absent EXCEPT !.status = "PURGE_PENDING", !.next = rec[a].next,
                              !.count = rec[a].count, !.purge.todo = Owned(a)]]
  /\ UNCHANGED <<now, repo>>

UserMutation(a) ==
  \/ CreateProposal(a) \/ StageRevision(a) \/ ApproveRevision(a)
  \/ PauseAutomation(a) \/ ResumeAutomation(a) \/ CancelAutomation(a)
  \/ BeginPurge(a)

Tick == now < MaxNow /\ now' = now + 1 /\ UNCHANGED <<rec, repo>>

=============================================================================

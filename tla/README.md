# A TLA+ verification of my-first-agent

my-first-agent is a local agent runtime in Python. A *conversation* is one
durable checkpoint file; the *kernel* drives it turn by turn: it asks a model for
the next step, governs and runs the tool calls the model wants, and stops
wherever a human has to decide. *Automations* run such conversations unattended,
on a schedule, in workspaces of their own. Around both there are things that are
owned and have to be given up: conversation files and archives, a browser profile
and its contexts, development servers, the files of an automation. This directory
holds TLA+ models of the parts where interleavings, crashes and stale decisions
matter, the TLC instances that check them, and proofs checked by TLAPS.

Paths below are relative to the repository root. `PROJECT.json` lists the
components, the runs, the code lines every definition stands for, the mutants
that show that each property can fail, the findings and the hazards.

## How to run

    tlc -workers 4 -config KernelBatches.cfg KernelMC    # model-check one instance
    tlapm KernelProofs.tla                               # check the proofs of one module

The table below names the module and the `.cfg` of each run.
The proof modules check in a few minutes each.

## Inventory of the system

| Part (source) | State it keeps | Operations | Interacts with | What is hard about it |
|---|---|---|---|---|
| Action ledger (`agent/runtime/state.py` accept/finalize, `checkpoint.py`) | revision, next sequence number, window of replay records, flock lease, one JSON file | load, submit, accept, finalize, save | every client of a conversation; the driver | clients decide on stale snapshots; redelivery; saves that fail before or after the replace; crashes |
| Conversation state and reducers (`agent/runtime/state.py`, `contracts.py`) | goal, corrections, evidence and claim, permissions, active run, tool batch | about 25 user actions, about 30 driver transitions | the driver, the tool runtime | long legal sequences; an approval and the state it was given on |
| Driver loop (`agent/runtime/loop.py`) | none but the above | claim, poll, prepare, mark, invoke, record, model call, controls, completion, failure | all of the runtime | one effect between two saves; an error handler that works from an old snapshot |
| Tool runtime (`agent/runtime/tools.py`, `tool_governance.py`) | leases and authorizations in the state | prepare, invoke | policy, sandbox, browser, processes | authority that is stale when used, expiry, uses that run out |
| Control inbox (`agent/runtime/control.py`) | queue of pause, cancel and correction requests | put, poll, acknowledge | another thread or client; the driver's safe points | a request that crosses an approval or a completion |
| Context and compaction (`agent/runtime/context.py`, `context_control.py`, `agent/continuity/compaction.py`) | derived; a compaction summary | build, compact, expose tools | the model | which tools are offered while a correction is pending |
| Evidence and completion (`agent/runtime/evidence.py`, `state.py`) | evidence by criterion, completion claim | record, verify, confirm | tool results, the user | completion is four saves |
| Provider consent (`agent/runtime/provider_consent.py`) | disclosures and grants | ask, acknowledge, grant, revoke | driver, user | coverage that changes between ask and send |
| Automation records (`agent/automation/controller.py`, `contracts.py`, `store.py`) | one record an automation: definition, draft, status, cursor, claim and its phase, history, purge manifest | fourteen mutations, each a compare-and-swap under a short lease | users, wakes | updates, pauses and cancellations while an occurrence is active |
| Reconciler and supervisor (`agent/automation/reconcile.py`, `supervisor.py`, `child.py`, `agent/automation_hosts/`) | none: a wake is a short process with a child | decide, claim, prepare, handshake, recover, capture, record, purge | records, workspaces, checkpoints, the child process group | wakes die at any point, overlap, and leave children behind |
| Occurrence (`agent/scheduler/caller.py`, `agent/automation_hosts/runtime_executor.py`, `agent/automation/claim_verifier.py`, the background branch of `loop.py`) | a checkpoint of its own: the open call of the provider or its saved answer, the open call of a tool, counters | run, take over, verify the claim, report | the child, a recovering wake, the records | an intent before and a result after every call, two runners that may both be alive, a claim that ends under them |
| Schedule (`agent/automation/schedule.py`) | none | resolve | records, clock | missed slots, grace, catch-up |
| Owned workspaces (`agent/automation/workspace.py`, `agent/automation_hosts/posix_workspace.py`) | metadata and payload of sources, workspaces, artifacts, checkpoints | capture, materialize, admit, delete | wakes, purge | deletion steps and what the metadata does not cover |
| Conversations and archives (`agent/continuity/sessions.py`, `archive.py`, `agent/runtime/checkpoint.py`) | one checkpoint file, one lock file a conversation, a bootstrap lock, immutable archives | open, create, select, commit, compact, archive, restore | clients in several processes | two files that must agree, lock files that are unlinked, power loss between write and sync |
| Browser sessions (`agent/browser/profile_store.py`, `session_store.py`, `tools.py`, `takeover.py`) | profile, writer lock, a ledger for each session, leases | open, observe, prepare, act, hand over, close, revoke, clear | the browser adapter, the tool runtime | owners that die between ledger, effect and result; process ids that come again |
| Browser adapter (`agent/browser/playwright_adapter.py`) | two queues, a worker thread, contexts | open, observe, execute, take over, close, shut down | Playwright | answers later than the caller waits, answers that name no request |
| Automation files (`agent/automation_hosts/posix_workspace.py`) | payload and metadata of every owned object | install, capture, delete, purge | wakes and management commands | two writes for one object, a capture overtaken by a purge |
| Managed servers (`agent/process/managed_web.py`, `managed_web_child.py`, `agent/runtime/resource_lifecycle.py`) | processes, control pipes, receipts; facts of a conversation | start, stop, close | the evidence and completion of a goal | orphans, retried clean-ups, writes after a validation |
| Foreground processes, sandbox, skills, MCP, web, memory, subagents | stores, profiles | tool invocations | tool runtime | clean-up, budgets |
| Provider adapters | none | HTTP calls | model services | external |
| Command line, terminal interface, scripts | none durable | presentation | everything | not a subject of the models |

What makes each of the central parts correct:

* **Action ledger** - a sequence number is accepted once, in order; a repeated
  submission gets the recorded answer or a conflict; an answer never claims an
  acceptance that is not on disk; nobody saves between the saves of a turn.
* **Kernel** - a call is invoked at most once; what the conversation says of a
  call is true of the world; every call of a batch is answered before the model
  or the user is heard again; an effect has the word its kind needs, given on the
  intent that still holds; permissions do not outlive that intent; a goal is done
  only with evidence and a claim of its current revision; a turn ends.
* **Automation** - one occurrence at a time over all automations; an occurrence's
  task is started once, and only after the claim is durably RUNNING; the history
  is what happened, in order; no workspace is deleted under a turn; a claim is
  settled (with one exception, `Stranded`); a purge ends with nothing owned, unless
  the first one is stuck (`Blocked`).
* **Occurrences** - no call of the provider or of a tool is made twice, whoever takes
  over; a call under a dead claim has no effect; the budgets outlive the runners; a
  death is not a failure; an end that was told is one, and nobody is still at work.
* **Conversations** - one writer at a time although lock files come and go; what
  the user was told is saved survives a death or a power loss; an archive is of
  what the user was shown; the room for old checkpoints is bounded.
* **Browser** - the profile has one owner, whoever died before; an action is in the
  ledger before it is in the browser, and a result is true of the browser; a session
  reported closed has no live context; late answers are never taken for others.
* **Automation files** - what was reported deleted is gone and stays gone; a
  workspace is deleted only after its output was captured.
* **Managed servers** - what was reported gone is gone; a goal is not done while its
  server runs, or on a validation that the server's writes made stale.

## Modules

| Module | What it models | Uses |
|---|---|---|
| `ActionLedger` | `accept_action`, `finalize_action`, `LocalCheckpointStore`, as several clients use them | |
| `ActionLedgerProofs` | order of acceptance, truth of answers, ownership of the file, for all constants | `ActionLedger` |
| `ToolBatch` | abstract: what the runtime promises of the calls of a batch | |
| `Kernel` | the reducers and the driver loop of one conversation | |
| `KernelMC` | instances, the refinement to `ToolBatch`, statements the code does not keep | `Kernel`, `ToolBatch` |
| `KernelProofs` | types, at-most-once, effects, batches, the refinement of `ToolBatch`, authority, permissions, completion, for all constants | `KernelMC` |
| `Automation` | the records, the schedule, the user's mutations | |
| `Reconcile` | wakes, children, checkpoints, workspaces, purge | `Automation` |
| `ReconcileProofs` | types, one claim, one turn, durable start, order and truth of histories, workspaces, purges, for all constants | `Reconcile` |
| `BackgroundRun` | the one turn of an occurrence, its recovery and its claim, inside `RunTurn` of `Reconcile` | |
| `BackgroundRunProofs` | nothing done twice, no effect without a claim, the budget, deaths, ends, for all constants | `BackgroundRun` |
| `OwnedObjects`, `OwnedObjectsMC` | payload and metadata of an automation's files, below the single steps of `Reconcile` | |
| `OwnedObjectsProofs` | cleaned is gone, capture first, nothing unlisted, for all constants | `OwnedObjects` |
| `Sessions`, `SessionsMC` | the conversations of a workspace on disk | |
| `SessionsProofs` | exclusive leases, nothing lost, capacity, what an archive may remove, for all constants | `Sessions` |
| `Browser`, `BrowserMC` | profile, lock, ledgers and tools of the site-bound browser | |
| `BrowserProofs` | one browser on the profile, write-ahead, true results, clean closes, acts under the lease; the adapter keeps the promise of the port, and that is enough; for all constants | `Browser`, `BrowserEnvironment`, `BrowserWorker` (as `Adapter`) |
| `BrowserEnvironment` | abstract: what the port of the browser promises its callers | |
| `BrowserWorker` | the adapter's caller, worker thread and queues; implements `BrowserEnvironment` | `BrowserEnvironment` |
| `ManagedWeb` | development servers, their supervisors, and the facts completion asks for | |
| `ManagedWebProofs` | confirmed is gone, completion on current evidence and without servers, for all constants | `ManagedWeb` |

### ActionLedger

`disk` is the checkpoint (revision, next sequence number, floor of the replay
window, records), `lease` the holder of the flock, `snap[c]` the `LoadedSnapshot`
of a client, `turn[c]` the turn a client drives, `reply[c]` what it was last told,
and `history` (a ghost) the actions accepted so far. `Load` reads without the lease;
`Submit` is one call of `run_turn` with any snapshot, number and digest, which is
busy, answered from the snapshot (`Answer`), a conflict, decided by one save
(`AcceptAndFinish`), or accepted with a turn to follow (`Accept`, `DriveSave`,
`Finish`). A save fails before the replace, or after it: then the caller's own
clean-up loses its compare-and-swap. `Crash` drops the flock. Digests are model
values: the code only compares them.

### Kernel, ToolBatch

The state is the goal's status and revision, the number of corrections waiting,
the revision that evidence and claim belong to, one standing permission for each
kind of call, whether a disclosure is unanswered, the active run (status, phase,
cursor, owner, approval grant, model calls used) and the latest batch with, for
each call, its result and two ghosts: how often it was invoked and on whose word.
All of that is durable; `pc`, the place of the turn, is not, and a crash sets it
to "idle". Each user action of `accept_action` and each save of `_drive` is an
action. The one external effect, `Invoke`, is a step of its own between
`MarkExecuting` (the save before it) and `RecordResult` (the save after it).
A save that fails is `SaveFails` (nothing was replaced: the handler works from the
last saved state) or `Crash` (it was replaced: the handler loses its own
compare-and-swap). A kind of call stands for all tools that are governed alike:
`read` (policy allows), `net` (needs the user), `write` (user or goal-target
authorization), `proc` (process, sandbox or browser: needs a lease). Wall clock,
tokens and no-progress limits are one nondeterministic `LimitReached`; the limit
of model calls is counted.

`ToolBatch` has no runs, goals or saves. It says of a batch: calls are taken in
order, begun at most once, touch the world at most once and only in progress, end
with a result, an outcome known to be unknown, or skipped if never begun; ends are
final; a new batch comes when the old one is answered or lost. `KernelMC`
maps a call to its stage (`StageOf`) and checks `BatchProtocol == TB!Spec`.

### Automation, Reconcile

`rec[a]` is an `AutomationRecordV1`: status, approved and draft revision, cursor,
count, `human` (there is a `needs_human_reason`), claim with phase and process,
history, purge manifest. `repo` is the workspace repository's metadata: the source
of an automation, and of each occurrence the workspace and the checkpoint entry.
Definitions differ by revision only; slot *i* is at time *i* * `Interval`.
The user's mutations are actions; those of a wake are pairs of a guard and an
effect (`MayClaim`/`ClaimIt`, ...) that `Reconcile` uses in its steps.
A mutation that would make a record that `__post_init__` refuses is not enabled.

In `Reconcile`, `wake[w]` is where a wake is, the occurrence it works on (read
once and then stale) and the outcome it will record. `run[w]` is its runner: its
child after the execute frame, or the wake itself when it recovers. `file[o]`
is the runtime checkpoint of an occurrence; `turns[o]` a ghost. The steps are
those of `reconcile`: `ObserveClaim` (what is done with a claim in each phase),
`Decide`, `Claim`, `Materialize`, `Initialize`, `Admit`, `Dispatch` (READY),
`Started` (MarkRunning), `Execute`, `RunTurn`/`EndTurn` (the occurrence's
one action, sequence number 1, which the ledger replays if it is there already),
`Result`/`NoResult`, `Recover`, `CaptureAndCleanup`, `RecordOutcome`, and
the purge's `StartPurge`, `DeletePurge`, `ConfirmPurge`, `FinishPurge`. A step
that raises ends the wake (`Raise`). `Crash` may strike between any two steps; a
child that executes lives on. The four unknown outcomes and needs-human are one
phase, UNRESOLVED: nothing in the code tells them apart after they are recorded.
A run, and a recovery, compose a runtime over the workspace first and raise when it is
gone (`Composes`; `agent/automation_hosts/macos_runtime.py`). A turn that fails may not
be able to save that it did, so what a runner says and what its checkpoint says are two
things (`EndTurn`); the report takes the checkpoint's word for a completion (`Told`).
`Overlap` is a bound: the places of a wake at which another one may start. With {} a
wake starts only when no other is at work (children may be); all places together would let
them interleave freely. A purge is only taken up when it is the first by name
(`FirstPurge`; `Place` is an arbitrary order of the names), also when it is stuck, and the
name decides between two slots of the same time (`Decide`).

### BackgroundRun

What `Reconcile` takes for `RunTurn` and `EndTurn`: one occurrence from the commit of
RUNNING to its outcome. `disk` is its checkpoint, reduced to what the background
branch decides on: `st` joins status and phase of the run ("asking" and "answered" are
MODEL_EXECUTING without and with a persisted answer), the batch and the place in it,
the answers consumed (`pos`), the calls counted (`models`, `tools`) and the recorded
result of the one action (`fin`). `run["child"]` is the child, `run["wake"]` a wake that
recovers; each has a place `pc`, the snapshot `tok` it last loaded or saved, and
`eaten`, an answer consumed in memory and not yet on disk. `lease` is the flock,
`claim` the active claim with its phase, or the outcome that ended it.

The actions are the steps of `ScheduledOccurrenceCaller.run_once` and `_drive`:
`Take` (busy and in conflict once more: `Conflicts`), `Accept` and `Own`, or `Replay`
(`_resume_background_replay`); `Ask`, `Send`, `Keep`, `Reduce`, or `TakeUp` of a saved
answer; `Prepare`, `Mark`, `Verify`, `Effect`, `Record`, and `Unsure` when the effect is
not known; `Handle`, `HandleAgain` and `Raises` (`_handle_unexpected_error`); `Report`
(`_report`, `_execution_result`). Every save either writes, is refused because the file
is not the snapshot any more, or fails, before the file was replaced or after.
`Cancel` and `Expire` end the claim under the runners, `NoResult` is the supervisor that
gives up on its child (and may not be able to end it), `Dies` and `ParentDies` are
deaths; a child whose parent died goes on. `SettledIsOver` reads the outcome against
the runners: `AtWork` is a driver that may still call the provider or a tool.

### OwnedObjects

The level below `Reconcile`: its `Materialize`, `CaptureAndCleanup` and `DeletePurge`
are single steps, here they are the writes of `posix_workspace.py`. `payload` is the
set of objects whose file or directory is there, `meta` their metadata ("there",
"captured", "cleaned"), `flock` the holder of `workspace.lock`, `at[p]` where a
process is. A capture reads, installs the diff and its metadata, marks the workspace
as captured, and undoes what it made when one of these fails. `delete` and the purge
remove a payload and then mark it. Every write may fail before or after it took
effect, and a process may die at any point, which frees the flock. Occurrences with
the same changes share their diff: it is named by its digest. `told` is what was
reported CLEANED, `unknown` what was reported CLEANUP_UNKNOWN.

### Sessions

`file[c]` is the checkpoint as the directory shows it, `lock[c]` the inode of the
lock file (a flock is on an inode: the lock file is unlinked by an archive and
created again), `boot` the bootstrap lock, `final` the archives and `drafts` their
temporary files. `firm` is what a power loss leaves: a rename or a new file that was
not yet synced is taken back. A checkpoint is its revision and whether the
conversation is a chat, open work or done, which is all that these functions look
at. `client[p]` holds the operation a process is in, the conversation it has open,
and what it was shown (a choice or a preview) and may have gone stale. The steps are
those of opening (`EnterOpen`, `ScanOpen`, `Create`, `Write`, `Sync`), of a commit
(`TakeLock`, `Stage`, `Swap`, `Flush`), of an archive draft (`Draft`, `FillDraft`,
`Link`, `Settle`), of archiving (`Preview`, `EnterArchive`, `ScanArchive`, `Retire`,
`EndArchive`) and of restoring. The scan of a directory is one step, taken under the
bootstrap lock. To open or to restore, it sweeps the locks of conversations that are gone and
then syncs the directory, even if it fails afterwards at a file it cannot decode; it
passes over a lock that somebody holds or is just trying (`Sweep`). The sweep takes at most
32 locks a time, a bound the model leaves out.

`HistoryBounded` is about at most one fault. With two TLC finds it exceeded: a
client dies after unlinking a checkpoint and before syncing the directory, the next scan
finds room but does not sync since somebody is just trying the lock of that conversation,
and the power fails when the next checkpoint has been created. The unlinked file is back beside
it, and from then on every scan refuses the directory.

### Browser, BrowserEnvironment, BrowserWorker

`Browser` has owners (runs of the program, with process ids that come again),
`profile`, `lock` (`writer.lock`), `book[s]` (the ledger of a session, PREPARED to
CLOSED), `ses[s]` (what its owner holds in memory) and `web[s]` (the context). A tool
call is several steps: `BeginAction` and `MarkExecuting` write the ledger,
`Execute` is the effect, `RecordResult` writes again. An owner may die between any two,
and inside a write, which leaves a torn file. Observations are numbered and an action
is bound to the one it was prepared on. The profile exists from the start (creating
it is not modelled). A later owner finds the lock of a dead one, and revokes or
clears it if the file can be read.

`BrowserWorker` is the adapter that `Browser` takes for a context that opens, acts
and closes: one caller (the lock of the adapter), a worker thread, a queue of
requests and one of answers. A timed wait may end only while the queue is empty, so an
answer that comes later is there when the next request waits. `known` is the
adapter's own table of sessions (usable, headed, poisoned), `held` the worker's. A
shutdown is several calls (`Shutdown`, a `Close` for each session, `ShutdownReturns`);
`closing` is what it has yet to close and whether anything failed, which is all that
decides whether it raises. The calls of the worker to Playwright are the places
`InPlaywright`, the idle loop's included (`Pump`): only some of them have a timeout. A
close that reports CLEANED, on which `Browser` releases the writer lock, is
`CleanedIsClosed` here.

`BrowserEnvironment` is the port (`agent/browser/ports.py`) as its callers may rely on
it: contexts that are launched beside no other and never after a clean close, closed by
whoever, a receipt CLEANED for what is closed, a shutdown that returns when no thread is
left and no context but those of sessions whose close was answered with the receipt of an
action (`misread`). The docstring promises more (see the findings below); `Misreports` is
the step that the code cannot keep apart. The port has no queues and no calls.
`BrowserWorker` EXTENDS it for the contexts, the
thread and the ghosts `cleaned`, `shut` and `misread`, so the mapping is the identity on them, and
`EnvSpec` is a property of its run.

### ManagedWeb

A server (`server[s]`) runs in the group of a supervisor (`supervisor[s]`), which ends
it when the control pipe is closed, by anybody: `pipe` says whose pipe a descriptor
of the application is, so that a descriptor that is closed twice may be another
server's by then. `call` is the call the owner is in: a start (`Spawn`, `Registered`
or `GivesUp`), a stop (`Signal`, `Kill`, `Record`), or the close of all. What the
conversation makes of it are the facts: `active` (ready and not confirmed gone),
`closed`, `unknown`, and `valid`, a validation of the workspace that still counts.
`Validate`, `Classify` and `Complete` are the tool results and the completion
that read them; `Writes` is a server writing to the workspace, whenever it lives. A
`Crash` closes the pipes, and receipts alone survive it.

## Runs

Passing runs (distinct states in brackets):

| Run | Instance and bounds | What it shows |
|---|---|---|
| `ledger` (470 k): `ActionLedger` | 2 clients, 2 digests (one decided by a single save), window of 2, 3 sequence numbers | `AcceptedOnce`, `RepliesTruthful`, `TurnOwnsDisk`. Three numbers in a window of two make eviction, and refusal to evict an open record, happen; two clients are enough for a race because the lease admits one. |
| `kernel_batches` (3.3 M): `KernelMC` | batches of 1 or 2 calls of net, write, proc; 2 revisions, 1 correction, 2 model calls | `AtMostOnce`, `EffectAccounted`, `BatchProtocol`. Two calls give a call before, at and after the cursor. |
| `kernel_goal` (1.3 M): `KernelMC` | one call of any kind; 3 revisions, 2 corrections, 2 model calls, permissions of 2 uses | `InvokeAuthorized`, `VerifiedIsProved`, `TurnEnds`. Three revisions let a permission be two intents old. |
| `sessions` (1.1 M): `SessionsMC` | 2 clients, 2 conversations, 1 commit each, room for 1 checkpoint, 1 death or power loss | `OneWriter`, `NothingLost`, `HistoryBounded`, `ArchivesWhatWasShown`. Two conversations and room for one: the bound bites, and a new conversation needs the archive of the other. |
| `browser` (2.6 M): `BrowserMC` | 3 runs of the program, the third with the process id of the first; 2 sessions with 2 observations each and 2 actions together, 1 failing write | `LockIsHis`, `WriteAhead`, `ResultTrue`, `ClosedIsClean`, `ActsUnderLease`. The third run is what may be taken for the owner of a lock; two observations give an action on a stale one. |
| `browser_worker` (564 k): `BrowserWorker` | 3 sessions opened once each, 4 uses, 4 closes | `EnvSpec`, `WorkerStops`: the adapter implements the port, from which `CleanedIsClosed`, `OneContext` and `ShutdownHonest` follow (`PromiseIsEnough`). A worker told to stop ends, or stays in a call to Playwright. Three sessions: one that times out, one that gets its answer, one more after the worker was replaced. |
| `automation` (475 k): `Reconcile` | 1 automation, 2 revisions of 2 slots, a clock of 2 instants, wakes one at a time, 1 death | `HistoryInOrder`, `HistoryTrue`, `WorkspaceKept`, `PurgedOwnsNothing`, `ClaimSettlesOrStrands`. One death leaves an orphan, two wakes make it and its successor; a wake that raises gives a recovery after a recovery; the second instant gives a slot that was missed. The proofs of the four invariants bound neither deaths nor wakes. |
| `background` (3.2 M): `BackgroundRun` | 2 calls of the provider, 2 of tools, batches of 1 or 2; 2 deaths, 2 saves or calls that fail | `NothingRedone`, `EffectUnderClaim`, `BudgetKept`, `CrashIsNotFailure`, `SettledIsOver`. Two deaths leave an orphan (its parent died) and kill a runner, or two wakes; two failures let the clean-up of a failure fail; two calls let a limit be met after a takeover. |
| `automation_overlap` (581 k): `Reconcile` | 2 automations of one slot, 2 wakes, the second of which may start when the first has decided and not claimed yet, 1 death | `OneClaim`, `TurnOnce`, `PurgeEnds`. Two automations give two decisions for the same or different occurrences, and a purge beside another purge or a claim; the death leaves an orphan beside the recovery of its occurrence. That a wake starts at other places of another is left to the proofs of the first two, which bound neither `Overlap` nor deaths; the exceptions in `Blocked` are needed, each alone (TLC finds `PurgeEnds` violated without any one of them). |
| `owned_objects` (4.6 M): `OwnedObjectsMC` | 3 processes, 2 workspaces that may share the one diff, the source, a checkpoint entry, 2 failing writes, 1 death | `CleanedIsGone`, `CaptureFirst`, `UnlistedIsCut`. A third process is needed for a purge between two captures of one diff. |
| `managed_web` (181 k): `ManagedWeb` | 2 servers, the application ends twice | `ConfirmedIsGone`, `DoneOnCurrent`, `DoneOwnsNothing`, `OrphansEnd`. Two servers let a descriptor be reused; two endings let a server outlive a restart. |

`CHECK_DEADLOCK FALSE` is set in all runs but `sessions`: clients, users and the clock
may stop for good, and the bounds on numbers, revisions and time end every
instance. In `Sessions` a client can always go on.

Each property has a mutant in `PROJECT.json`: an operator `...Fault`, beside the
definition it replaces, that is a plausible slip in that code, under which the
property fails in its own run.

Runs with a liveness property use no symmetry; `sessions`, `browser` and
`owned_objects` do, over values that the module treats alike.

The properties of `ManagedWeb` and `OwnedObjects` name the cases that the code leaves
open and no more: `DoneOnCurrent` and `DoneOwnsNothing` except servers that were
answered "not ready" (for the first) and servers that outlived the
application without a supervisor; `CleanedIsGone` lets a diff come back that was
reported while its metadata was gone. Each exception is listed below.

The run named `code_...` expects a violation. It checks a statement that a comment
of the repository makes and the code does not keep:

| Property | Statement | What the run shows |
|---|---|---|
| `NoBatchLost` | every call of an unfinished batch gets a result first (`agent/runtime/state.py:3019`) | a message without an open goal replaces the run and answers none |

Other places where the models show the code apart from a text of the repository,
which no run is kept for (each can be stated in a line and checked in the
instances above). The *background design* is
`docs/superpowers/specs/2026-08-28-durable-background-runs-design.md`.

Of the kernel:

* A correction pending at the cancellation revives a cancelled goal in a follow-up
  (`agent/runtime/state.py:1262`; `docs/plans/2026-09-08-012a-...:36` says that a
  terminal goal is not advanced by the model).
* A limit reached right after an approval fails the run instead of pausing it
  (`state.py:5004`; `docs/architecture/KERNEL_ARCHITECTURE.md:76`).
* A follow-up on a paused goal whose model call needs a disclosure lifts the pause
  (`state.py:1730`; line 1076 says only `ResumeGoal` does).
* `SubmitMessage` as a correction leaves the process leases (`state.py:3053`;
  `docs/architecture/015_GOVERNED_LOCAL_ACTION_DESIGN.md:305`).
* Revoking a permission in `PAUSED_LIMIT` fails the run (`agent/runtime/loop.py:714`;
  `KERNEL_ARCHITECTURE.md:73` calls that pause recoverable).
* The handler of an unexpected error works from the claim's snapshot, so after a save
  of the driver it loses its compare-and-swap and leaves the run owned
  (`loop.py:732`; docstring at line 757).
* A crash leaves a replay record open for good, and a full window of such
  records refuses every action (`state.py:2201`).

Of the automations:

* A wake that dies after it deleted the workspace of a finished run and before it records
  the outcome leaves the claim RUNNING for good, and with it every automation waiting:
  `recover` (`agent/automation/reconcile.py:347`) composes a runtime over the workspace
  (`agent/automation_hosts/macos_profile.py:84`: "workspace_root must exist") and raises,
  in every later wake (design line 595 says that a terminal result is replayed; the
  test of that order, `tests/automation/test_reconcile_faults.py:323`, has an executor
  that needs no workspace). TLC finds it for `Claimed(a) ~> Answered(a)`;
  `ClaimSettlesOrStrands` says that there is no other way.
* After a missed slot `LATEST_ONE` never gets a claim accepted
  (`agent/automation/controller.py:394`; design line 406).
* `NONE` jumps over a slot when an update falls into a claim (`controller.py:554`;
  design line 405).
* A purge that is stuck (CLEANUP_UNKNOWN) keeps every purge with a later name waiting
  for good, since only the first one is looked at (`agent/automation/reconcile.py:186`,
  `:410`), and so does a claim that waits for a human (line 178). While any purge is
  pending, no automation runs. `Blocked` of `PurgeEnds` names the cases.
* Cancelling an unresolved occurrence raises (`controller.py:246`,
  `contracts.py:608`; design line 411).
* An unresolved outcome turns CANCEL_PENDING into PAUSED (`controller.py:530`;
  design line 422).
* Approving a draft that is older than the cancellation makes CANCELED ACTIVE
  (`controller.py:170`; design line 389).
* A history of 128 outcomes, filled before an update, takes no more and the next
  claim never settles (`controller.py:542`; design line 574). The runs keep the
  revisions within the history.
* With overlapping wakes, CANCELED is committed under a running turn
  (`agent/automation/reconcile.py:301`; design line 421), and a purge that froze its
  manifest misses the workspace an overtaken wake then makes
  (`agent/automation_hosts/posix_workspace.py:251`; design line 763):
  `PurgedOwnsNothing` holds for wakes that follow one another only.

Of the occurrences (each was found by TLC in the instance of `background`):

* A save of a provider's answer that fails drops the open call and fails the run, and
  the occurrence is recorded as failed (`agent/runtime/loop.py:787`;
  `docs/acceptance/019_PORTABLE_AUTOMATION_CORE_E3.md:39` says that an intent without a
  response becomes MODEL_OUTCOME_UNKNOWN). Nothing is sent again.
* When the save that marks a call as executing fails after the file was replaced, the
  occurrence is recorded as failed with EXECUTING in its checkpoint
  (`loop.py:786`; design line 594: such a call needs a human). So it is after two
  refused saves (`agent/scheduler/caller.py:85`: CONFLICT is reported as fatal).
* A remote provider asks for a disclosure in every new checkpoint, nothing projects the
  acknowledgement of the activation into it (design line 357), and AWAITING_DISCLOSURE
  is no class of `agent/scheduler/contracts.py:130`: the occurrence fails where the
  design says it pauses.
* The verdict that is compared before a call is invoked holds the second in which the
  claim was checked (`agent/runtime/tools.py:78`, `:1449`): a claim that is still live is
  refused when preparation and invocation fall into different seconds, and the
  occurrence needs a human although nothing happened.
* The claim is not looked at before a model call: an orphan whose occurrence was
  settled goes on asking until its first call of a tool.
* No code records WORKER_DEADLINE (design line 597): a child that is late ends as an
  unknown effect or an unknown clean-up (`agent/automation_hosts/posix_supervisor.py:255`).

Of the automation files:

* A purge leaves the runtime checkpoint file: its entry has metadata and no payload
  (`posix_workspace.py:511`, `:558`; `agent/automation/management.py:464`).
* A death between the removal of a payload and its mark ends the purge in
  CLEANUP_UNKNOWN for good (`posix_workspace.py:558`;
  `docs/superpowers/plans/2026-08-28-019-portable-durable-automations-core.md:480`).
* A rollback deletes a diff that another occurrence with the same changes relies on
  (`tests/automation_hosts/test_posix_owned_cleanup.py:42`).
* A payload write that fails half-way leaves a file no metadata names (same file, line 176).
* Three captures that overlap a purge can install a diff again that was reported
  cleaned; a late write of a capture can take back the mark "cleaned"; a temporary
  file that `_write_meta` left behind makes every later scan fail.

Of the browser:

* Closing the adapter can raise (`agent/browser/playwright_adapter.py:669`; the
  comment at line 663 says that it does not).
* `shutdown` can return without an error with the browser still alive. An action times
  out, its answer comes late and is read by the close that shutdown makes: the receipt of
  an action has an outcome that is not CLEANUP_UNKNOWN
  (`agent/browser/playwright_adapter.py:648`, `:683`), and if the worker then ends without
  having closed the context (it is told to stop before it takes the close; the closing in its
  `finally` ignores errors) nothing has failed. The docstring (line 627) says that any
  undecided session raises. TLC finds it with `Live = {}` in `ShutsDown`; `misread` names
  exactly these sessions. `owner_shutdown` of the tools, which releases the lock of the
  profile, is not misled: it asks for CLEANED itself (`agent/browser/tools.py:809`).
* The mirror of a ledger in memory can be stale, and then `browser_close` is refused
  (`agent/browser/tools.py:740`).
* After a takeover the message of `loop.py:585` asks for an observation, which is
  refused until the profile was advanced.
* A `writer.lock` that was torn cannot be cleared by any operation.
* A second `browser_open` while a session is active fails, sets `_stopped` and with
  it ends the first session's browser; a request that nobody took makes the next
  open unknown.

Of the managed servers:

* A stop that is retried after a failed clean-up or receipt closes `control_fd` once more;
  the number may be another server's pipe by then, whose supervisor ends it
  (`agent/process/managed_web.py:608`; the tool is described as cleaning up *one*
  server).
* The owner's TERM ends a supervisor that still watches (its handler is installed
  later). If the application dies before its KILL, a server that ignores TERM stays,
  with nobody to end it (`managed_web_child.py:3` promises that it ends with its owner).
* A server that ran, wrote to the workspace and was answered "not ready" leaves an
  earlier validation standing, and the goal is verified on it
  (`agent/runtime/evidence.py:1519` looks for a tool name that the result of a
  known-executed error does not have;
  `docs/handoffs/2026-10-11-product-reliability-closure/WORK_ITEMS.md:62` says that such a
  start is treated conservatively).
* After a death there is no receipt for a server that was active, `managed_web_stop`
  is refused and the goal cannot be completed (known:
  `docs/handoffs/2026-09-13-autonomy-audit-remediation/RESULTS.md:96`).

## Fairness

* `Kernel`: weak fairness of the steps of a turn that has begun.
  `run_turn` is sequential code; it does not wait for anybody, and an
  external call returns or times out. Clients and users owe nothing, and after a
  crash nobody has to come back.
* `Reconcile`: weak fairness, for each wake, of starting, of its next step and of
  its runner. The trigger is delivered at intervals for as long as the machine is
  used; a wake is sequential; the runner's turn ends by `TurnEnds`, and the wait
  for a child has a deadline (`NoResult`). Deaths are bounded by `MaxCrashes`: a
  machine on which every wake dies settles nothing. The user and the clock owe nothing.
* `BrowserWorker`: weak fairness of the caller inside a call, whose waits are timed, and
  of the loop of the worker taking a request or noticing that it is told to stop
  (`Take`, `Stops`), whose wait is timed too. Nothing is owed of its calls to Playwright:
  `page.evaluate`, the closing of pages and contexts and the end of Playwright have no
  timeout (`playwright_adapter.py:1159`, `:960`, `:1609`, `:796`), and `close` and
  `shutdown` provide for a worker that stays (lines 650, 674). `WorkerStops` says that this is
  the only way in which one does.
* `ManagedWeb`: weak fairness of each supervisor, a process of its own. The
  lifetime of a server and the end of its program are not owed, so `OrphansEnd` rests on
  the end of the control pipe alone.
* `ActionLedger`, `BackgroundRun`, `Sessions`, `Browser` and `OwnedObjects` state safety
  only: their processes may die for good at any point. That an occurrence is settled
  as long as wakes keep coming is `ClaimSettlesOrStrands` of `Reconcile`.

## Proofs

All proofs are about the specifications as they are, for all values of the
constants that the named assumption of each module allows (`KernelAssumption`,
`LedgerAssumption`, `AutomationAssumption`, `ReconcileAssumption`,
`BackgroundAssumption`, `OwnedAssumption`, `SessionsAssumption`, `BrowserAssumption`,
`WebAssumption`). These only say that the bounds are numbers, that a name for nobody is
nobody's and a torn file no record, that the servers of `ManagedWeb`, the clients and
conversations of `Sessions` and the sessions of `Browser` are finitely many, that what
commits make of a conversation is of one of its kinds, and that the runs of the program
that are there at the start have process ids of their own. Each theorem follows from an inductive invariant:
true initially, kept by every action (a step of the proof for each), and
implying the property. TLC had checked each of them on a small instance before.

`KernelProofs` - `RunInvariant` proves the inductive invariant `Inv`, a predicate
of run, batch, orphan flag and place only:

* `RunShape` - in which phase a run of each status may be and where its cursor is;
* `PlaceShape` - what each place of the turn knows of the run: at "invoke" the
  call at the cursor is EXECUTING and has not been invoked, at "record" it has been once;
* `Answers` - results come in order, so exactly the calls from the cursor on are open;
* `Effects` - what a result says of the number of invocations.

`AtMostOnce` alone is not inductive: a second invocation is excluded because the
place "invoke" is reached only by the save that makes an open call EXECUTING, an
open call before that has not been invoked, and nothing but a result or the user's
classification leaves EXECUTING. From `Inv` follow `InvokedAtMostOnce`,
`EffectsAccounted` and `ClosedBatches`. The proof has lemmas on what the helpers
(`Suffix`, `Answered`, `Advance`) do to a batch, and one step per action.

`ImplementsToolBatch` - the kernel implements `ToolBatch`, the same theorem that
`KernelBatches` checks on one instance. The mapping makes of each call its stage and
the number of its effects (`StagesOf`, `EffectsOf`). The argument has a lemma for each
kind of step: a skip of the calls from the cursor on (`SkipStep`, with `DropSkips` and
`RefuseSkips` for those who skip), the save that begins a call (`MarkBegins`), the
invocation (`InvokeTouches`), an answer (`AnswerEnds`), a new batch (`BatchBegins`)
and a batch that is lost (`SubmitLoses`); every other action leaves the mapped state
alone. `Inv` is what makes the guards of `ToolBatch` true: that the call at the
cursor is the first that waits, and that no other one is running.

For the goal the module adds `GoalTypes` and `AuthInv`: an effectful batch is worked on
only under an open goal, no correction waits behind an approval, a grant or a
completion claim, the call about to be invoked has its word, and permissions are
current. `TypeCorrect`, `EffectsAuthorized`, `PermitsNeverStale` and
`DoneMeansProved` follow.

`ActionLedgerProofs` - a revision names one content (`SnapInv`): a snapshot whose
revision is that of the file is the file, so the decision of a submission that gets
past the comparison was made on what is there. `DiskInv` ties the numbers of the
file to the ghost `history`; a stale snapshot keeps telling the truth (`Coherent`), since
the history only grows; and a turn under way has what is on disk in its hands, with
its own action accepted last and open (`TurnInv`). `AcceptedInOrder`, `AnswersAreTrue` and
`TurnsOwnTheFile` follow.

`ReconcileProofs` - `RecordsAndWakes` proves the inductive invariant `Inv`, with
overlapping wakes and without:

* `RecordInv` - what a record looks like: its types, the checks of
  `__post_init__`, and how cursor, count and draft follow the claim across an update;
* `Unique` - two claims are one;
* `RepoInv`, `PlaceInv` - types; a wake or runner at work has an occurrence;
* `TurnInv` - the checkpoint of an occurrence tells whether its turn was started;
* `DurableInv` - for whoever is about to run an occurrence, or runs it, the claim
  is still there and RUNNING or UNRESOLVED, or the occurrence can never be claimed again.

The records are handled once: `Progress` says what a mutation may do to one record
(`Moves`: a purge is not taken back, the cursor of a revision does not go back, the
claim stays, is settled behind the cursor, or is made at it). `ProgressKeeps` shows
that such a move keeps `RecordInv`, `Unique` and everything `Durable`, and a lemma for each
mutation shows that it is one. `StartedDurably` is not inductive without the second
half of `Durable`: an orphaned child keeps its occurrence while the claim is settled,
and must not find a new claim of the same occurrence, which the cursor forbids.
`RecordTypes`, `AtMostOneClaim`, `TurnsStartOnce` and `TurnsStartDurably` follow.

`HistoryOrdered` adds `HistInv`: the history of a record is in order, behind its cursor
and before its claim. It holds with overlapping wakes too.

`HistoryIsTrue`, `WorkspacesAreKept` and `PurgedIsEmpty` are of the form
`Overlap = {} => (Spec => []P)`. The hypothesis is needed: with two wakes at work on one
occurrence TLC finds each of the three violated (one wake settles or deletes what the other
goes on with), which is why `AutomationOverlap` does not check them.
The inductive invariant is `SoloInv`: one wake is at work (`Alone`), and so nobody else
settles the claim it works on (`StepInv`); a runner at work or with a result agrees with
the checkpoint, but for a failure it could not save (`RunnerInv`); a checkpoint that was
begun keeps its claim, and a workspace is cleaned only when its occurrence is over, has
ended, or will never be run (`FileInv`); and the manifest of a purge names whatever is left
(`PurgeInv`). The difficult actors are the orphaned children, who are not wakes and
outlive them. A failure that is told says nothing of the checkpoint, so it has to say
something of the runners: a new checkpoint is begun by one child, one that was begun is
taken up by a recovery only, and whoever is told an end is told it by the last of them
(`StartInv`, with `Quiet`). A turn at work thus keeps its claim and its workspace
(`TurnSafe`), and what was told as failed has nobody left who could complete it.

`BackgroundRunProofs` - whoever is in a turn holds the flock (`LeaseInv`), who has saved
since has the file in hand (`PlaceInv`), and the file covers the world (`DiskInv`): a
question that was asked and a call that had its effect are counted in it, because
each is counted before it happens. Hence a process that takes over an occurrence never
repeats one (`NothingDoneTwice`) and the counters bound the effects (`BudgetOfOccurrence`,
with an argument on the cardinality of the calls done). `VoidInv` - a call
prepared without a claim has had no effect, and the claim is not live again -
gives `NoEffectWithoutClaim`. `DeathsAreNoFailure` also needs that a result in hand
is the one in the file as long as nothing failed. `ToldIsOver` (the invariant `Over`) is
about the other runner, the one that does not report. A result in the file is final
(`EndStays`), it is of a run that is over (`EndInv`), and was written by the one
that drove, who had the flock; whoever takes the flock after that replays the result. That
settles what was told as completed. For a failure the file need not say anything; as long as nothing failed
the child is never told of a conflict, it is past its turn before a wake can be in
one, and a wake that finds the flock held asks for a human instead (`CleanInv`).
What a driver may do in one step (write its file, go on, leave, try again) is summed up
once (`Drives`) and cited for all of its actions.

`OwnedObjectsProofs` - who holds the flock knows what became of the object it
works on (`LockInv`, `WorkInv`); what was read without it (the scan of a capture) is not
relied on. With `ListInv` and `CutInv` follow `CleanedStaysGone`, `CapturedBeforeGone`
and `NothingElseUnlisted`.

`SessionsProofs` - a client with a lease has the inode that the lock file has now, and
knows the content of the checkpoint (`KnowInv`); as inodes are not reused while somebody has
them open, and the sweep passes over those that are held, the second one to get there finds
the lock held or the inode replaced (`LeasesAreExclusive`). `SafeInv` states twice what
`NothingLost` states once: what the user was told is in the file that the directory shows
and in the file that a power loss would leave, or in an archive that a power loss does
not take and that can be read (`Solid`). A checkpoint is removed when it is in such an
archive (`BackInv`), and a client that restores or writes a new one covers what it
writes. `PairInv` is about the one case in which two clients are at a file: a turn
may commit over a checkpoint whose creation was not yet synced. `RoomInv` counts the files together with
those that a power loss would bring back, which before the first fault belong to a client
that is about to sync. `OnlyTheShownGoes` follows from the same invariant: no step
but `Retire` removes a file, since power losses are counted as faults.

`BrowserProofs` - a session has one owner for good, and only the calls of its owner write
its ledger or touch its browser. So what a call knows at each of its steps (`PlaceInv`)
is still true at the next one, whatever the others do; `StepKeeps` proves that once, for
all the steps that change one session. The profile and the lock are shared: `HoldInv`
says that every session of a live owner that needs the profile (it is active, or just took
the lock, or may have left a browser) is the one the lock names, on a profile that is
active and at most one revision ahead. Nobody may take a lock whose holder is alive
(`Unheld`), and a release takes only its own lock (`ReleasesOwn`). `SoundInv` relates the
ledger of a session to its context, `DeadInv` says that the dead have nothing open, and
`RevInv` bounds the revisions of the profile by the sessions. `ActsUnderLease` is an action
property: between the checks of `browser_act` and the effect any other owner may run, so
`Knows` keeps for a call about to act that its revision is still the profile's.

The second part of `BrowserProofs` is about the adapter (`Adapter`, an instance of
`BrowserWorker`), and proves that it implements `BrowserEnvironment`. No
answer says which request it belongs to, so the proof has to know what the caller can find
in the queue of answers. At most one session is in play: known to the caller, held by the
worker or named by an answer (`OneInv`), and a worker that can still open something has none
in play (`NewInv`). Behind a receipt comes at most the word of a new worker (`ReceiptInv`),
so an answer that says CLEANED is the last of its worker and of its session (`DoneInv`),
from which `CleanedStaysClosed` follows. `PaceInv` bounds, for each call, how far the
answers may be behind it: with a usable session not at all, with a poisoned one by one, in
its close by two; an open that starts without a session can meet only refusals of what was
asked before. `LiveInv` accounts for every live context, by the session it belongs to or by
`_anonymous_open_unknown`. What a shutdown has done so far is `ExitInv`: as long as
nothing has failed, a session that is still known has yet to be closed, is being closed, or
is named in `misread`. The two give `ShutdownIsHonest`. `NeverTwoContexts` needs what
becomes of a context that a failed open or a worker that ended left behind (`LeakInv`): from
then on nothing is in play and no worker opens anything, as the adapter is stopped for good
or about to find out that its open failed.

With the two the refinement is a matter of steps (`PromiseKept`). A request that launches
a context finds no other: nothing is held, or what is held is its own (`DoAlone`), and no
context is lost while a worker works. It launches none of a session that was closed for
good, which is neither held nor asked for again. A failed open may leave a context in any
state, and had none before (the clause of `Unborn` about `context`): so it launches,
closes or stutters. `Join` is the step that reports CLEANED, long after the
context was closed, or returns the receipt of an action (`Misreports`), and every other step of the caller stutters. `PromiseIsEnough` is
about the port alone: what it promises implies `CleanedIsClosed`, `OneContext` and
`ShutdownHonest`, whatever adapter is behind it. `AdapterTyped` assumes of the two bounds that
they are natural numbers, as `BrowserWorker` does.

`ManagedWebProofs` - the core is `Accounted`: a server that lives is in the facts, or in
the start that is still open, or about to be ended by a supervisor that outlived the
application, or an orphan nobody watches. `CallInv` and `RecordInv` say what the owner's
call knows of its server, `EvidenceInv` that a validation that counts was made with no
server active. `ConfirmedServersAreGone`, `EvidenceIsCurrent` and
`DoneLeavesNoServer` follow. `Fades` states once what no step does: no server that ended
lives again, and none is born but by a start.

`ClosedBatches`, `PermitsNeverStale`, `TurnsStartDurably`, `CleanedIsClosed`, `OneContext`,
`ShutdownHonest` and the types are conclusions no run repeats: TLC agreed with them before they were proved.

Only model-checked: all liveness (`TurnEnds`, `ClaimSettlesOrStrands`, `PurgeEnds`, `WorkerStops`,
`OrphansEnd`), which is outside the prover's reach. Every safety invariant and action
property that a run checks has a theorem.

## What is not modelled, and why

* Of the kernel: the operator tool, browser takeover and leases, plans and memory actions, the
  repair and retry counters, lease expiry, the coverage of consent grants, and the
  control inbox's own queue. All are planned below.
* Of the automations: missing providers or sandboxes (a wake then changes nothing),
  artifacts (the runtime reports none), the bounds of 128 records, 32 live
  automations and 128 tombstones.
* Of the occurrences: abandoning an unknown model outcome and answering an approval or
  a recovery (actions of a user who opens the checkpoint, as in `Kernel`), the budgets
  of tokens and of each class of calls, and a shared budget of HTTP attempts.
* Of the conversations: restarts (`restart.py`, projections of a loaded state),
  identities, unsafe owners and modes of files, the size of a state.
* Of the browser: the modes without a profile, uploads, downloads and their
  quarantine, what the policy makes of a page or an address, and the check of
  `_mutate` for a profile that drifted, which nothing in the program can make fail.
* Of the automation files: the temporary directories of copies, and the order of
  a purge (`OwnedObjects` allows any, `Reconcile` an arbitrary but fixed one: the code
  goes by object ids).
* Of the managed servers: admission and preparation, ports and bindings, logs, the
  foreground runner. A server that KILL was sent to writes no more, and the user's
  classification of an unknown outcome comes later than the supervisor's second of grace.
* Encodings, digests, prompts, previews, messages, file walking and permissions:
  data or pure I/O.
* Provider adapters, Playwright, launchd, MCP servers, sandboxes: external.
* Command line, terminal interface, evaluation scripts: no durable state of their own.

## Plan

Done, in this order: the ledger (everything else rests on it), the kernel and its
batches, their proofs, the automations and their proofs, the conversations on disk,
the browser and its adapter, the automation files, the managed servers, one
occurrence with its recovery and its claim. Next:

1. Proofs: that `Browser`, for each owner, is a caller that `BrowserEnvironment` is enough
   for; and the safety of the components to come.
2. `ControlInbox` - queue, binding to a run, acknowledgements; refined by the
   `Poll` actions of `Kernel`.
3. `Budgets` - repair and retry counters rebuilt from policy facts, against the
   limits the architecture document names.
4. `ProviderConsent` and `Authority` - coverage of grants; leases with expiry.
5. `TransportLedger`, `MemoryStore`.

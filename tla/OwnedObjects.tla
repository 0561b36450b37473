---------------------------- MODULE OwnedObjects ----------------------------
(***************************************************************************)
(* The files an automation owns, as the POSIX host keeps them              *)
(* (agent/automation_hosts/posix_workspace.py): the captured source, a     *)
(* workspace for each occurrence, the diff that is kept of it, and the     *)
(* entry of its runtime checkpoint.  An object is a payload and a metadata *)
(* file, which are two writes; module Reconcile takes the operations on    *)
(* them for single steps.                                                  *)
(*                                                                         *)
(* The processes are the wakes and the management commands.  A flock that  *)
(* nobody waits for covers the writes of an operation, but not what it     *)
(* read before.  Each write may fail before or after it took effect, and a *)
(* process may die between any two, which frees its flock.                 *)
(*                                                                         *)
(* Two occurrences that changed the same share their diff: its name is its *)
(* digest.  Left out: artifacts (the runtime reports none), replacement of *)
(* files by others, bounds on sizes.                                       *)
(***************************************************************************)
EXTENDS Naturals, FiniteSets

CONSTANTS
  Procs,       \* processes at work on the files of one automation
  NoProc,
  Source,      \* its source snapshot
  Workspaces,  \* of its occurrences
  Diffs, None, \* the diffs it keeps, and no diff
  Points,      \* entries of its checkpoints: metadata without a payload
  MaxFaults,   \* bound: writes that fail
  MaxCrashes   \* bound: processes that die

Stored == {Source} \cup Workspaces \cup Diffs
Objects == Stored \cup Points

ASSUME OwnedAssumption ==
  /\ NoProc \notin Procs /\ None \notin Objects
  /\ Source \notin Workspaces \cup Diffs \cup Points
  /\ Workspaces \cap Diffs = {} /\ Points \cap Stored = {}
  /\ MaxFaults \in Nat /\ MaxCrashes \in Nat

VARIABLES
  diffOf,    \* the diff each occurrence leaves
  payload,   \* objects whose file or directory is there
  meta,      \* the metadata of each object
  residue,   \* a temporary file of _write_meta was left behind
  cut,       \* objects whose installation was cut short (a ghost)
  flock,     \* who holds workspace.lock
  at,        \* the operation of each process
  manifest,  \* what the purge is to delete
  told,      \* what a delete or a purge reported as CLEANED
  unknown,   \* what they reported as CLEANUP_UNKNOWN
  faults, crashes

vars == <<diffOf, payload, meta, residue, cut, flock, at, manifest, told, unknown,
          faults, crashes>>

\* made: the diff is among what this capture created.
Idle == [step |-> "idle", id |-> None, made |-> FALSE]
Steps == {"idle", "copy", "placed", "admit", "read", "scanned", "diff", "diffplaced",
          "mark", "undo", "undone", "captured", "delete", "removed"}
\* The steps of which _write_meta is the next thing.
Writing == {"placed", "admit", "diffplaced", "mark", "removed"}

Goes(p, step) == at' = [at EXCEPT ![p].step = step]
Starts(p, step, id) ==
  at[p] = Idle /\ at' = [at EXCEPT ![p] = [step |-> step, id |-> id, made |-> FALSE]]
Ends(p) == at' = [at EXCEPT ![p] = Idle]
In(p, step) == at[p].step = step
Purging == manifest # {}

\* _lease: nobody waits for the flock.
\* Fault: an operation takes the flock from whoever holds it.
LocksFault(p) == flock' = p
Locks(p) == flock = NoProc /\ flock' = p
Unlocks(p) == flock' = IF flock = p THEN NoProc ELSE flock
Faults(n) == faults + n <= MaxFaults /\ faults' = faults + n
Fault == Faults(1)

\* _write_meta: a new file takes the place of the old one; an error comes before
\* or after that, and in the second case the outcome is unknown to the caller.
Meta(id, value) == meta' = [meta EXCEPT ![id] = value]
-----------------------------------------------------------------------------
(* Directories: capture_source and materialize_occurrence                  *)

\* One occurrence is at work at a time, and the purge waits for all: each outcome is
\* recorded only when its workspace was reported as deleted.
Settled(ws) == \A w \in ws : meta[w] = "none" \/ w \in told

\* A workspace is copied from its source, which was looked at before the lease.
StartDirectory(p, id) ==
  /\ ~Purging /\ meta[id] = "none" /\ Locks(p) /\ Starts(p, "copy", id)
  /\ id \in Workspaces =>
       meta[Source] = "there" /\ Source \in payload /\ Settled(Workspaces \ {id})
  /\ UNCHANGED <<payload, meta, residue, cut, manifest, told, unknown, faults, crashes>>

\* The object is at its place, but the sync of the directory or the rest of the
\* write fails, and nobody removes it.
CutShort(p, id) ==
  Fault /\ payload' = payload \cup {id} /\ cut' = cut \cup {id} /\ Ends(p) /\ Unlocks(p)

\* _install_directory_object: what is at the place already is not touched.
PlaceDirectory(p) ==
  LET id == at[p].id IN
  /\ In(p, "copy")
  /\ \/ id \in payload /\ Ends(p) /\ Unlocks(p) /\ UNCHANGED <<payload, cut, faults>>
     \/ id \notin payload /\ payload' = payload \cup {id} /\ Goes(p, "placed")
        /\ UNCHANGED <<flock, cut, faults>>
     \/ id \notin payload /\ CutShort(p, id)
  /\ UNCHANGED <<meta, residue, manifest, told, unknown, crashes>>

\* Fault: the directory stays when its metadata could not be written.
UndoneFault(id) == payload
\* What was installed goes again when its metadata could not be written, unless
\* that fails too.
Undone(id) == payload \ {id}

AdmitDirectory(p) ==
  /\ In(p, "placed") /\ Ends(p) /\ Unlocks(p)
  /\ \/ Meta(at[p].id, "there") /\ UNCHANGED <<payload, faults>>
     \/ Fault /\ payload' = Undone(at[p].id) /\ UNCHANGED meta
     \/ Fault /\ Meta(at[p].id, "there") /\ UNCHANGED payload
     \/ Faults(2) /\ UNCHANGED <<payload, meta>>
  /\ cut' = IF faults' = faults + 2 THEN cut \cup {at[p].id} ELSE cut
  /\ UNCHANGED <<residue, manifest, told, unknown, crashes>>

\* admit_runtime_checkpoint
StartPoint(p, id) ==
  /\ ~Purging /\ meta[id] = "none" /\ Locks(p) /\ Starts(p, "admit", id)
  /\ UNCHANGED <<payload, meta, residue, cut, manifest, told, unknown, faults, crashes>>

AdmitPoint(p) ==
  /\ In(p, "admit") /\ Ends(p) /\ Unlocks(p)
  /\ \/ Meta(at[p].id, "there") /\ UNCHANGED faults
     \/ Fault /\ (UNCHANGED meta \/ Meta(at[p].id, "there"))
  /\ UNCHANGED <<payload, residue, cut, manifest, told, unknown, crashes>>
-----------------------------------------------------------------------------
(* capture_terminal_outputs                                                *)

\* The metadata is read and the tree is looked at before the lease.  A capture
\* that is there already is the answer.
ReadCapture(p, w) ==
  /\ ~Purging /\ meta[w] # "none" /\ meta[Source] # "none"
  /\ meta[w] = "cleaned" \/ w \in payload
  /\ Starts(p, IF meta[w] = "there" THEN "read" ELSE "captured", w)
  /\ UNCHANGED <<payload, meta, residue, cut, flock, manifest, told, unknown, faults, crashes>>

\* _scan_tree and _all_metadata, which knows only names of metadata files.
Scan(p) ==
  /\ In(p, "read")
  /\ IF at[p].id \in payload /\ ~residue THEN Goes(p, "scanned") ELSE Ends(p)
  /\ UNCHANGED <<payload, meta, residue, cut, flock, manifest, told, unknown, faults, crashes>>

LeaseCapture(p) ==
  /\ In(p, "scanned")
  /\ \/ Locks(p) /\ Goes(p, "diff")
     \/ flock # NoProc /\ Ends(p) /\ UNCHANGED flock
  /\ UNCHANGED <<payload, meta, residue, cut, manifest, told, unknown, faults, crashes>>

Kept(d) == meta[d] = "there" /\ d \in payload
\* Fault: that a diff was cleaned is forgotten.
AbsentFault(d) == d \notin payload
Absent(d) == meta[d] = "none" /\ d \notin payload

\* _install_file_object: a diff that is there already will do, and is counted among
\* the ones this capture made; one with half of it there, or cleaned, is an error.
InstallDiff(p) ==
  LET d == diffOf[at[p].id] IN
  /\ In(p, "diff")
  /\ \/ d = None /\ Goes(p, "mark") /\ UNCHANGED <<payload, flock, cut, faults>>
     \/ d # None /\ Kept(d) /\ at' = [at EXCEPT ![p].step = "mark", ![p].made = TRUE]
        /\ UNCHANGED <<payload, flock, cut, faults>>
     \/ d # None /\ Absent(d) /\ payload' = payload \cup {d} /\ Goes(p, "diffplaced")
        /\ UNCHANGED <<flock, cut, faults>>
     \/ d # None /\ Absent(d) /\ CutShort(p, d)
     \/ d # None /\ ~Kept(d) /\ ~Absent(d) /\ Ends(p) /\ Unlocks(p)
        /\ UNCHANGED <<payload, cut, faults>>
  /\ UNCHANGED <<meta, residue, manifest, told, unknown, crashes>>

AdmitDiff(p) ==
  LET d == diffOf[at[p].id] IN
  /\ In(p, "diffplaced")
  /\ \/ Meta(d, "there") /\ at' = [at EXCEPT ![p].step = "mark", ![p].made = TRUE]
        /\ UNCHANGED <<payload, flock, faults>>
     \/ Fault /\ payload' = Undone(d) /\ Ends(p) /\ Unlocks(p) /\ UNCHANGED meta
     \/ Fault /\ Meta(d, "there") /\ Ends(p) /\ Unlocks(p) /\ UNCHANGED payload
     \/ Faults(2) /\ Ends(p) /\ Unlocks(p) /\ UNCHANGED <<payload, meta>>
  /\ cut' = IF faults' = faults + 2 THEN cut \cup {d} ELSE cut
  /\ UNCHANGED <<residue, manifest, told, unknown, crashes>>

\* The metadata of the workspace is written as it was read before the lease, with
\* the capture: also over one that says cleaned by now.
MarkCaptured(p) ==
  /\ In(p, "mark")
  /\ \/ Meta(at[p].id, "captured") /\ Goes(p, "captured") /\ Unlocks(p) /\ UNCHANGED faults
     \/ Fault /\ at[p].made /\ Goes(p, "undo") /\ UNCHANGED <<meta, flock>>
     \/ Fault /\ ~at[p].made /\ Ends(p) /\ Unlocks(p) /\ UNCHANGED meta
     \/ Fault /\ Meta(at[p].id, "captured") /\ Ends(p) /\ Unlocks(p)
  /\ UNCHANGED <<payload, residue, cut, manifest, told, unknown, crashes>>

\* _remove_installed_object: the file, then its metadata; a failure ends it.
RemoveInstalled(p) ==
  LET d == diffOf[at[p].id] IN
  /\ \/ In(p, "undo") /\ payload' = payload \ {d} /\ Goes(p, "undone")
        /\ UNCHANGED <<meta, flock, faults>>
     \/ In(p, "undone") /\ Meta(d, "none") /\ Ends(p) /\ Unlocks(p)
        /\ UNCHANGED <<payload, faults>>
     \/ (In(p, "undo") \/ In(p, "undone")) /\ Fault /\ Ends(p) /\ Unlocks(p)
        /\ UNCHANGED <<payload, meta>>
  /\ UNCHANGED <<residue, cut, manifest, told, unknown, crashes>>
-----------------------------------------------------------------------------
(* delete_owned_object, after a capture and for a purge                    *)

\* owned_objects: what the metadata lists and is not cleaned.
Listed == {id \in Objects : meta[id] \in {"there", "captured"}}

\* The automation is at rest with nothing unknown; the manifest is final.
BeginPurge(p) ==
  /\ at[p] = Idle /\ ~Purging /\ unknown = {} /\ ~residue /\ Listed # {}
  /\ Settled(Workspaces)
  /\ manifest' = Listed
  /\ UNCHANGED <<payload, meta, residue, cut, flock, at, told, unknown, faults, crashes>>

\* delete_purge_object looks before the lease: what is not there, or cleaned, is
\* done.  An unknown outcome stops the purge for good.
PurgeObject(p) ==
  \E id \in manifest \ told :
    /\ unknown \cap manifest = {}
    /\ \/ meta[id] \in {"none", "cleaned"} /\ at[p] = Idle /\ told' = told \cup {id}
          /\ UNCHANGED at
       \/ meta[id] \notin {"none", "cleaned"} /\ Starts(p, "delete", id) /\ UNCHANGED told
    /\ UNCHANGED <<payload, meta, residue, cut, flock, manifest, unknown, faults, crashes>>

\* What may be removed: a captured workspace, and what is where it should be.
Deletable(id) ==
  /\ id \in Workspaces => meta[id] = "captured"
  /\ id \in Stored => id \in payload

DeleteObject(p) ==
  LET id == at[p].id IN
  /\ In(p, "captured") \/ In(p, "delete")
  /\ \/ flock # NoProc /\ Ends(p) /\ UNCHANGED <<payload, flock, told, unknown>>
     \/ flock = NoProc /\ meta[id] = "cleaned" /\ told' = told \cup {id} /\ Ends(p)
        /\ UNCHANGED <<payload, flock, unknown>>
     \/ flock = NoProc /\ meta[id] # "cleaned" /\ (meta[id] = "none" \/ ~Deletable(id))
        /\ unknown' = unknown \cup {id} /\ Ends(p) /\ UNCHANGED <<payload, flock, told>>
     \/ meta[id] \notin {"none", "cleaned"} /\ Deletable(id) /\ Locks(p)
        /\ payload' = payload \ {id} /\ Goes(p, "removed") /\ UNCHANGED <<told, unknown>>
  /\ UNCHANGED <<meta, residue, cut, manifest, faults, crashes>>

\* The removal of a file or of a tree fails: what is left stays.
RemovalFails(p) ==
  /\ In(p, "captured") \/ In(p, "delete")
  /\ flock = NoProc /\ at[p].id \in Stored /\ Deletable(at[p].id) /\ Fault
  /\ unknown' = unknown \cup {at[p].id} /\ Ends(p)
  /\ UNCHANGED <<payload, meta, residue, cut, flock, manifest, told, crashes>>

MarkCleaned(p) ==
  /\ In(p, "removed") /\ Ends(p) /\ Unlocks(p)
  /\ \/ Meta(at[p].id, "cleaned") /\ told' = told \cup {at[p].id} /\ UNCHANGED faults
     \/ Fault /\ (UNCHANGED meta \/ Meta(at[p].id, "cleaned")) /\ UNCHANGED told
  /\ UNCHANGED <<payload, residue, cut, manifest, unknown, crashes>>
-----------------------------------------------------------------------------
\* A process dies: its flock is free; what it was writing stays as a temporary file.
Die(p) ==
  /\ at[p] # Idle /\ crashes < MaxCrashes /\ crashes' = crashes + 1
  /\ Ends(p) /\ Unlocks(p)
  /\ residue' \in (IF at[p].step \in Writing THEN {residue, TRUE} ELSE {residue})
  /\ cut' = cut \cup (IF In(p, "placed") THEN {at[p].id}
                     ELSE IF In(p, "diffplaced") THEN {diffOf[at[p].id]} ELSE {})
  /\ UNCHANGED <<payload, meta, manifest, told, unknown, faults>>

Init ==
  /\ diffOf \in [Workspaces -> Diffs \cup {None}]
  /\ payload = {} /\ meta = [id \in Objects |-> "none"] /\ residue = FALSE /\ cut = {}
  /\ flock = NoProc /\ at = [p \in Procs |-> Idle]
  /\ manifest = {} /\ told = {} /\ unknown = {} /\ faults = 0 /\ crashes = 0

Step(p) ==
  \/ \E id \in {Source} \cup Workspaces : StartDirectory(p, id)
  \/ PlaceDirectory(p) \/ AdmitDirectory(p)
  \/ \E id \in Points : StartPoint(p, id)
  \/ AdmitPoint(p)
  \/ \E w \in Workspaces : ReadCapture(p, w)
  \/ Scan(p) \/ LeaseCapture(p) \/ InstallDiff(p) \/ AdmitDiff(p) \/ MarkCaptured(p)
  \/ RemoveInstalled(p) \/ BeginPurge(p) \/ PurgeObject(p) \/ DeleteObject(p)
  \/ RemovalFails(p) \/ MarkCleaned(p) \/ Die(p)

Next == (\E p \in Procs : Step(p)) /\ UNCHANGED diffOf
Spec == Init /\ [][Next]_vars
-----------------------------------------------------------------------------
(* Properties                                                              *)

TypeOK ==
  /\ diffOf \in [Workspaces -> Diffs \cup {None}]
  /\ payload \subseteq Stored
  /\ meta \in [Objects -> {"none", "there", "captured", "cleaned"}]
  /\ residue \in BOOLEAN /\ cut \subseteq Stored /\ flock \in Procs \cup {NoProc}
  /\ at \in [Procs -> [step : Steps, id : Objects \cup {None}, made : BOOLEAN]]
  /\ manifest \subseteq Objects /\ told \subseteq Objects /\ unknown \subseteq Objects
  /\ faults \in 0..MaxFaults /\ crashes \in 0..MaxCrashes

\* What a delete or a purge reported as CLEANED is gone and stays gone, also when
\* another process was in the middle of its capture.  A diff may come back when it was
\* reported because a rollback had taken it and its metadata: a capture that began
\* before the purge installs it again.  It does not once its metadata says cleaned.
CleanedIsGone ==
  /\ told \cap payload \subseteq Diffs
  /\ \A id \in Stored : meta[id] = "cleaned" => id \notin payload

\* A workspace leaves the disk only after its output was captured durably: whatever
\* write fails and whoever dies, an entry without a capture still has its directory.
CaptureFirst == \A w \in Workspaces : meta[w] = "there" => w \in payload

\* What is on the disk is listed, and so found by a purge, once nobody is at work: a
\* metadata write that fails, before or after it took effect, leaves nothing behind
\* ("retryable without orphans"), nor does a capture that takes back a diff which
\* another one uses.  An object is unlisted only when its installation itself was cut
\* short, by a death, by its own write, or by two failures in a row.
UnlistedIsCut ==
  (\A p \in Procs : at[p] = Idle) => \A id \in payload : meta[id] = "none" => id \in cut
=============================================================================

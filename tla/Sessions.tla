------------------------------ MODULE Sessions ------------------------------
(***************************************************************************)
(* The conversations of one workspace on disk: opening, selecting,         *)
(* archiving and restoring them (agent/continuity/sessions.py), the        *)
(* checkpoint file with its lock (LocalCheckpointStore in                  *)
(* agent/runtime/checkpoint.py) and the immutable archive                  *)
(* (agent/continuity/archive.py, compaction.py).                           *)
(*                                                                         *)
(* Clients are processes of one user.  Whoever opens, archives or restores *)
(* holds the bootstrap lock of the workspace; whoever changes a checkpoint *)
(* holds the flock on the lock file of that conversation.  A lock file can *)
(* be unlinked and created again, so a flock is on an inode and not on a   *)
(* name.  A client may die between any two steps, and the machine may lose *)
(* power, which takes away what was not yet synced.                        *)
(*                                                                         *)
(* A checkpoint is its revision and the part of its state these functions  *)
(* look at.  Left out: unsafe owners, modes and links, and the bounds on   *)
(* the size of a state.                                                    *)
(***************************************************************************)
EXTENDS Naturals, FiniteSets

CONSTANTS
  Clients, Convs,
  NoOne, Nothing,  \* not a client; not a conversation, nor a content
  Torn,            \* a file that was created but not yet written
  MaxHistory,      \* max_history_checkpoints
  MaxRev,          \* bound: commits of a conversation
  CommitKinds,     \* bound: what a commit makes of it
  MaxFaults        \* bound: crashes and power losses

\* A chat has no goal, work has an open goal (or a run), done a closed one.
Kinds == {"chat", "work", "done"}
Contents == [rev : 0..MaxRev, kind : Kinds]

ASSUME SessionsAssumption ==
  /\ IsFiniteSet(Clients) /\ IsFiniteSet(Convs)
  /\ NoOne \notin Clients /\ Nothing \notin Convs
  /\ Nothing \notin Contents /\ Torn \notin Contents /\ Torn # Nothing
  /\ CommitKinds \subseteq Kinds
  /\ MaxHistory \in Nat \ {0} /\ MaxRev \in Nat /\ MaxFaults \in Nat

VARIABLES
  boot,     \* who holds the bootstrap lock
  client,   \* what each client is doing
  file,     \* the checkpoint of each conversation, as the directory shows it
  temps,    \* conversations with a temporary file of a commit beside them
  lock,     \* the inode under the name of each lock file, 0 for none
  final,    \* archives: conversation and content
  drafts,   \* temporary files of archives
  firm,     \* the files and archives that would survive a power loss
  kept,     \* ghost: what the user was last told is saved
  faults

vars == <<boot, client, file, temps, lock, final, drafts, firm, kept, faults>>

NewChat == [rev |-> 0, kind |-> "chat"]
Nonterminal(s) == s.kind # "done"     \* _is_nonterminal
Archivable(s) == s.kind # "work"      \* _require_user_archive_eligible
Inodes == 1..(Cardinality(Clients) + 1)

Idle == [at |-> "idle", op |-> "none", conv |-> Nothing, inode |-> 0,
         seen |-> Nothing, next |-> Nothing]

\* A client between operations has a conversation open, or looks at a choice of
\* conversations, or at the preview of one.  It leaves them for the next one.
NoView == [of |-> "none", shown |-> {}]
Dead == [job |-> Idle, open |-> Nothing, view |-> NoView]

Init ==
  /\ boot = NoOne
  /\ client = [p \in Clients |-> Dead]
  /\ file = [c \in Convs |-> Nothing] /\ temps = {}
  /\ lock = [c \in Convs |-> 0]
  /\ final = {} /\ drafts = {}
  /\ firm = [file |-> file, final |-> final]
  /\ kept = [c \in Convs |-> Nothing]
  /\ faults = 0

Job(p) == client[p].job
At(p, at) == Job(p).at = at
Doing(p, op) == Job(p).op = op
Goto(p, at) == client' = [client EXCEPT ![p].job.at = at]
Quit(p) == client' = [client EXCEPT ![p].job = Idle]

Unboot(p) == boot' = IF boot = p THEN NoOne ELSE boot
disk == <<file, temps, lock, final, drafts, firm>>
ghosts == <<kept, faults>>

Present == {c \in Convs : file[c] # Nothing}
Active == {c \in Present : file[c] # Torn /\ Nonterminal(file[c])}

\* The scan of the directory raises at anything but checkpoints, at too many of them,
\* and then, when the names were good, at one it cannot decode.
Listed == temps = {} /\ Cardinality(Present) <= MaxHistory
Readable == Listed /\ \A c \in Convs : file[c] # Torn

-----------------------------------------------------------------------------
(* Opening a workspace.                                                    *)

Enter(p, op, c, s) ==
  /\ At(p, "idle") /\ boot = NoOne
  /\ boot' = p
  /\ client' = [client EXCEPT ![p] = [Dead EXCEPT !.job =
       [Idle EXCEPT !.at = "scan", !.op = op, !.conv = c, !.next = s]]]
  /\ UNCHANGED <<disk, ghosts>>

EnterOpen(p) == \E op \in {"open", "new", "switch"} : Enter(p, op, Nothing, NewChat)

\* Between listing and decoding, the locks of conversations that were archived go,
\* and the directory is synced.  _sweep_retired_locks takes the flock of each, so
\* it passes over one that is held, be it by a try_acquire about to be refused.
Leased(p) == Job(p).at \in {"leased", "staged", "swapped", "draft", "drafted", "linked",
                           "archived", "retired"}
Busy(i, c) == \E q \in Clients : Leased(q) /\ Job(q).conv = c /\ Job(q).inode = i
Tried(i, c) == \E q \in Clients : At(q, "locking") /\ Job(q).conv = c /\ Job(q).inode = i
OrphanLocks == {c \in Convs \ Present : lock[c] # 0 /\ ~Busy(lock[c], c)}
Sweep ==
  \E swept \in SUBSET OrphanLocks :
    /\ \A c \in OrphanLocks \ swept : Tried(lock[c], c)
    /\ lock' = [c \in Convs |-> IF c \in swept THEN 0 ELSE lock[c]]
    /\ firm' = IF swept = {} THEN firm ELSE [firm EXCEPT !.file = file]

\* An archive only reads: it does not sweep.
ScanFails(p) ==
  /\ At(p, "scan") /\ ~Readable
  /\ \/ Listed /\ ~Doing(p, "archive") /\ Sweep
     \/ /\ ~Listed \/ Doing(p, "archive")
        /\ UNCHANGED <<lock, firm>>
  /\ Quit(p) /\ Unboot(p)
  /\ UNCHANGED <<file, temps, final, drafts, ghosts>>

\* Faulty: counts the checkpoints one too low.
HasRoomFault == Cardinality(Present) <= MaxHistory

HasRoom == Cardinality(Present) < MaxHistory

\* A conversation id is a fresh UUID.
Unused == {c \in Convs \ Present : kept[c] = Nothing /\ ~\E s \in Contents : <<c, s>> \in final}

Opened(p, c) ==
  client' = [client EXCEPT ![p] = [Dead EXCEPT !.open = c]]

ScanOpen(p) ==
  /\ At(p, "scan") /\ Job(p).op \in {"open", "new", "switch"} /\ Readable
  /\ Sweep
  /\ \/ /\ Doing(p, "open") /\ Cardinality(Active) = 1
        /\ \E c \in Active : Opened(p, c)
        /\ Unboot(p)
     \/ /\ \/ Doing(p, "open") /\ Cardinality(Active) > 1
           \/ Doing(p, "switch") /\ Active # {}
        /\ client' = [client EXCEPT ![p] =
             [Dead EXCEPT !.view = [of |-> "choice", shown |-> {<<c, file[c]>> : c \in Active}]]]
        /\ Unboot(p)
     \/ /\ Doing(p, "new") \/ Active = {}
        /\ \/ /\ ~HasRoom \/ Unused = {}  \* bound: the ids run out
              /\ Quit(p) /\ Unboot(p)
           \/ /\ HasRoom
              /\ \E c \in Unused :
                   client' = [client EXCEPT ![p].job.at = "create", ![p].job.conv = c]
              /\ UNCHANGED boot
  /\ UNCHANGED <<file, temps, final, drafts, ghosts>>

\* initialize: created exclusively, then written, then synced.  It never meets a
\* file: the bootstrap lock is held since the scan.
Create(p) ==
  /\ At(p, "create") /\ file[Job(p).conv] = Nothing
  /\ file' = [file EXCEPT ![Job(p).conv] = Torn]
  /\ Goto(p, "write")
  /\ UNCHANGED <<boot, temps, lock, final, drafts, firm, ghosts>>

Write(p) ==
  /\ At(p, "write")
  /\ file' = [file EXCEPT ![Job(p).conv] = Job(p).next]
  /\ Goto(p, "sync")
  /\ UNCHANGED <<boot, temps, lock, final, drafts, firm, ghosts>>

\* What initialize wrote, unless a turn has committed over it since.
Fresh(p, c) == At(p, "sync") /\ Job(p).conv = c /\ Job(p).next = file[c]

Sync(p) ==
  /\ At(p, "sync")
  /\ firm' = [firm EXCEPT !.file = file]
  /\ kept' = [c \in Convs |-> IF Fresh(p, c) THEN Job(p).next ELSE kept[c]]
  /\ Opened(p, Job(p).conv) /\ Unboot(p)
  /\ UNCHANGED <<file, temps, lock, final, drafts, faults>>

\* Without any lock: what was displayed must still be the content.
Select(p) ==
  /\ At(p, "idle") /\ client[p].view.of = "choice"
  /\ \E v \in client[p].view.shown :
       /\ file[v[1]] = v[2]
       /\ Opened(p, v[1])
  /\ UNCHANGED <<boot, disk, ghosts>>

-----------------------------------------------------------------------------
(* The lease: try_acquire opens the lock file, takes its flock and then    *)
(* looks whether the name still is that inode.                             *)

FreeInodes(c) ==
  {i \in Inodes : i # lock[c] /\ ~\E q \in Clients : Job(q).conv = c /\ Job(q).inode = i}

OpenLock(p, c, job) ==
  \E i \in IF lock[c] = 0 THEN {CHOOSE j \in FreeInodes(c) : TRUE} ELSE {lock[c]} :
    /\ lock' = [lock EXCEPT ![c] = i]
    /\ client' = [client EXCEPT ![p].job = [job EXCEPT !.at = "locking", !.conv = c, !.inode = i]]

BeginTurn(p) ==
  /\ At(p, "idle") /\ client[p].open # Nothing
  /\ OpenLock(p, client[p].open, [Idle EXCEPT !.op = "turn"])
  /\ UNCHANGED <<boot, file, temps, final, drafts, firm, ghosts>>

\* Faulty: any inode with a flock will do.
CurrentFault(p) == Job(p).inode # 0

Current(p) == Job(p).inode = lock[Job(p).conv]

\* Faulty: the preview is not compared again under the lease.
AcceptableFault(p) == file[Job(p).conv] \in Contents

\* An archive also looks again at what it is going to archive.
Acceptable(p) ==
  LET s == file[Job(p).conv] IN
  /\ s \in Contents
  /\ Doing(p, "archive") => s = Job(p).next /\ Archivable(s)

TakeLock(p) ==
  /\ At(p, "locking")
  /\ \/ /\ ~Busy(Job(p).inode, Job(p).conv) /\ Current(p) /\ Acceptable(p)
        /\ client' = [client EXCEPT ![p].job.at = "leased",
                                    ![p].job.seen = file[Job(p).conv]]
        /\ UNCHANGED boot
     \/ /\ Busy(Job(p).inode, Job(p).conv) \/ ~Current(p) \/ ~Acceptable(p)
        /\ Quit(p) /\ Unboot(p)
  /\ UNCHANGED <<disk, ghosts>>

-----------------------------------------------------------------------------
(* A turn commits its states one after the other with compare_and_swap: a  *)
(* temporary file beside the checkpoint, renamed over it, the directory    *)
(* synced.                                                                 *)

Stage(p) ==
  /\ \/ At(p, "leased") /\ Doing(p, "turn")
     \/ At(p, "archived") /\ Doing(p, "compact")
  /\ LET c == Job(p).conv IN
     /\ file[c] = Job(p).seen /\ file[c].rev < MaxRev
     /\ \E kind \in CommitKinds :
          client' = [client EXCEPT ![p].job.at = "staged",
                                   ![p].job.next = [rev |-> file[c].rev + 1, kind |-> kind]]
     /\ temps' = temps \cup {c}
  /\ UNCHANGED <<boot, file, lock, final, drafts, firm, ghosts>>

Swap(p) ==
  /\ At(p, "staged")
  /\ LET c == Job(p).conv IN
     /\ file' = [file EXCEPT ![c] = Job(p).next]
     /\ temps' = temps \ {c}
  /\ Goto(p, "swapped")
  /\ UNCHANGED <<boot, lock, final, drafts, firm, kept, faults>>

Flush(p) ==
  /\ At(p, "swapped")
  /\ firm' = [firm EXCEPT !.file = file]
  /\ kept' = [kept EXCEPT ![Job(p).conv] = Job(p).next]
  /\ client' = [client EXCEPT ![p].job.at = "leased", ![p].job.op = "turn",
                              ![p].job.seen = Job(p).next, ![p].job.next = Nothing]
  /\ UNCHANGED <<boot, file, temps, lock, final, drafts, faults>>

\* A write, rename or sync fails: the temporary file goes, and the turn ends.
CommitFails(p) ==
  /\ Job(p).at \in {"staged", "swapped"}
  /\ temps' = temps \ {Job(p).conv}
  /\ Quit(p)
  /\ UNCHANGED <<boot, file, lock, final, drafts, firm, ghosts>>

EndTurn(p) ==
  /\ At(p, "leased") /\ Doing(p, "turn")
  /\ Quit(p)
  /\ UNCHANGED <<boot, disk, ghosts>>

-----------------------------------------------------------------------------
(* Writing an archive, for the user or for a compaction.  The draft is     *)
(* linked under the name of its digest, never over an existing file.       *)

Mine(p) == <<Job(p).conv, Job(p).seen>>
Drafts(v) == {d \in drafts : <<d[1], d[2]>> = v}

\* _reconcile_temp_entries removes what a dead writer left of the same archive,
\* unless it is incomplete.
Draft(p) ==
  /\ At(p, "leased") /\ Job(p).op \in {"turn", "archive"}
  /\ Doing(p, "turn") => Job(p).seen.rev < MaxRev
  /\ \A d \in Drafts(Mine(p)) : d[3] # "torn"
  /\ drafts' = (drafts \ Drafts(Mine(p))) \cup {<<Job(p).conv, Job(p).seen, "torn">>}
  /\ client' = [client EXCEPT ![p].job.at = "draft",
                              ![p].job.op = IF Doing(p, "turn") THEN "compact" ELSE "archive"]
  /\ UNCHANGED <<boot, file, temps, lock, final, firm, ghosts>>

DraftRefused(p) ==
  /\ At(p, "leased") /\ Doing(p, "archive")
  /\ \E d \in Drafts(Mine(p)) : d[3] = "torn"
  /\ Quit(p) /\ Unboot(p)
  /\ UNCHANGED <<disk, ghosts>>

FillDraft(p) ==
  /\ At(p, "draft")
  /\ drafts' = (drafts \ Drafts(Mine(p))) \cup {<<Job(p).conv, Job(p).seen, "whole">>}
  /\ Goto(p, "drafted")
  /\ UNCHANGED <<boot, file, temps, lock, final, firm, ghosts>>

Synced(c) == firm.final \cup {v \in final : v[1] = c}

Link(p) ==
  /\ At(p, "drafted")
  /\ \/ /\ Mine(p) \notin final
        /\ final' = final \cup {Mine(p)}
        /\ drafts' = (drafts \ Drafts(Mine(p))) \cup {<<Job(p).conv, Job(p).seen, "linked">>}
        /\ Goto(p, "linked") /\ UNCHANGED firm
     \/ /\ Mine(p) \in final  \* the same content: made durable, the draft dropped
        /\ firm' = [firm EXCEPT !.final = Synced(Job(p).conv)]
        /\ drafts' = drafts \ Drafts(Mine(p))
        /\ Goto(p, "archived") /\ UNCHANGED final
  /\ UNCHANGED <<boot, file, temps, lock, ghosts>>

\* Faulty: the directory of the archive is not synced.
SettleFault(p) ==
  /\ At(p, "linked")
  /\ drafts' = drafts \ Drafts(Mine(p))
  /\ Goto(p, "archived")
  /\ UNCHANGED <<boot, file, temps, lock, final, firm, ghosts>>

Settle(p) ==
  /\ At(p, "linked")
  /\ drafts' = drafts \ Drafts(Mine(p))
  /\ firm' = [firm EXCEPT !.final = Synced(Job(p).conv)]
  /\ Goto(p, "archived")
  /\ UNCHANGED <<boot, file, temps, lock, final, ghosts>>

\* An operation of the archive fails: its draft goes.  A turn goes on without the
\* compaction.
DraftFails(p) ==
  /\ Job(p).at \in {"draft", "drafted", "linked"}
  /\ drafts' = drafts \ Drafts(Mine(p))
  /\ \/ /\ Doing(p, "archive") /\ Quit(p) /\ Unboot(p)
     \/ /\ Doing(p, "compact") /\ UNCHANGED boot
        /\ client' = [client EXCEPT ![p].job.at = "leased", ![p].job.op = "turn"]
  /\ UNCHANGED <<file, temps, lock, final, firm, ghosts>>

-----------------------------------------------------------------------------
(* Archiving and restoring.                                                *)

Preview(p) ==
  /\ At(p, "idle") /\ Readable
  /\ \E c \in Present :
       /\ Archivable(file[c])
       /\ client' = [client EXCEPT ![p] =
            [Dead EXCEPT !.view = [of |-> "preview", shown |-> {<<c, file[c]>>}]]]
  /\ UNCHANGED <<boot, disk, ghosts>>

EnterArchive(p) ==
  /\ client[p].view.of = "preview"
  /\ \E v \in client[p].view.shown : Enter(p, "archive", v[1], v[2])

ScanArchive(p) ==
  /\ At(p, "scan") /\ Doing(p, "archive") /\ Readable
  /\ \/ /\ file[Job(p).conv] = Job(p).next
        /\ OpenLock(p, Job(p).conv, Job(p)) /\ UNCHANGED boot
     \/ /\ file[Job(p).conv] # Job(p).next
        /\ Quit(p) /\ Unboot(p) /\ UNCHANGED lock
  /\ UNCHANGED <<file, temps, final, drafts, firm, ghosts>>

Retire(p) ==
  /\ At(p, "archived") /\ Doing(p, "archive")
  /\ file[Job(p).conv] = Job(p).seen
  /\ file' = [file EXCEPT ![Job(p).conv] = Nothing]
  /\ Goto(p, "retired")
  /\ UNCHANGED <<boot, temps, lock, final, drafts, firm, ghosts>>

EndArchive(p) ==
  /\ At(p, "retired")
  /\ firm' = [firm EXCEPT !.file = file]
  /\ Quit(p) /\ Unboot(p)
  /\ UNCHANGED <<file, temps, lock, final, drafts, ghosts>>

EnterRestore(p) == \E v \in final : Enter(p, "restore", v[1], v[2])

\* An archive with a second link is not read.
Restorable(v) == v \in final /\ Drafts(v) \cap {<<v[1], v[2], "linked">>} = {}

ScanRestore(p) ==
  /\ At(p, "scan") /\ Doing(p, "restore") /\ Readable
  /\ Sweep
  /\ LET may == HasRoom /\ Job(p).conv \notin Present /\ Archivable(Job(p).next)
                /\ Restorable(<<Job(p).conv, Job(p).next>>) IN
     \/ may /\ Goto(p, "create") /\ UNCHANGED boot
     \/ ~may /\ Quit(p) /\ Unboot(p)
  /\ UNCHANGED <<file, temps, final, drafts, ghosts>>

-----------------------------------------------------------------------------
(* Faults.  The kernel drops the locks of a dead client; its files stay.   *)

Crash(p) ==
  /\ faults < MaxFaults /\ faults' = faults + 1
  /\ client[p] # Dead
  /\ client' = [client EXCEPT ![p] = Dead] /\ Unboot(p)
  /\ UNCHANGED <<disk, kept>>

PowerLoss ==
  /\ faults < MaxFaults /\ faults' = faults + 1
  /\ client' = [p \in Clients |-> Dead] /\ boot' = NoOne
  /\ \E torn \in SUBSET {c \in Convs : \E p \in Clients : Fresh(p, c)},
        old \in SUBSET {c \in Convs : file[c] # firm.file[c]} :
       file' = [c \in Convs |-> IF c \in torn THEN Torn
                                ELSE IF c \in old THEN firm.file[c] ELSE file[c]]
  /\ temps' \in {{}, temps}
  /\ \E lost \in SUBSET (final \ firm.final) :
       /\ final' = final \ lost
       /\ drafts' = {d \in drafts : <<d[1], d[2]>> \notin lost}
  /\ firm' = [file |-> file', final |-> final']
  /\ UNCHANGED <<lock, kept>>

Next ==
  \/ \E p \in Clients :
       \/ EnterOpen(p) \/ ScanFails(p) \/ ScanOpen(p) \/ Create(p) \/ Write(p) \/ Sync(p)
       \/ Select(p) \/ BeginTurn(p) \/ TakeLock(p) \/ Stage(p) \/ Swap(p) \/ Flush(p)
       \/ CommitFails(p) \/ EndTurn(p)
       \/ Draft(p) \/ DraftRefused(p) \/ FillDraft(p) \/ Link(p) \/ Settle(p) \/ DraftFails(p)
       \/ Preview(p) \/ EnterArchive(p) \/ ScanArchive(p) \/ Retire(p) \/ EndArchive(p)
       \/ EnterRestore(p) \/ ScanRestore(p) \/ Crash(p)
  \/ PowerLoss

Spec == Init /\ [][Next]_vars

-----------------------------------------------------------------------------
(* Properties.                                                             *)

Jobs ==
  [at : {"idle", "scan", "create", "write", "sync", "locking", "leased", "staged",
         "swapped", "draft", "drafted", "linked", "archived", "retired"},
   op : {"none", "open", "new", "switch", "turn", "compact", "archive", "restore"},
   conv : Convs \cup {Nothing}, inode : Inodes \cup {0},
   seen : Contents \cup {Nothing}, next : Contents \cup {Nothing}]
Views == [of : {"none", "choice", "preview"}, shown : SUBSET (Convs \X Contents)]

TypeOK ==
  /\ boot \in Clients \cup {NoOne}
  /\ \A p \in Clients : boot = p <=>
       Job(p).op \in {"open", "new", "switch", "archive", "restore"}
  /\ client \in [Clients -> [job : Jobs, open : Convs \cup {Nothing}, view : Views]]
  /\ file \in [Convs -> Contents \cup {Nothing, Torn}]
  /\ firm \in [file : [Convs -> Contents \cup {Nothing, Torn}], final : SUBSET (Convs \X Contents)]
  /\ temps \subseteq Convs
  /\ lock \in [Convs -> Inodes \cup {0}]
  /\ final \subseteq Convs \X Contents /\ firm.final \subseteq final
  /\ drafts \subseteq Convs \X Contents \X {"torn", "whole", "linked"}
  /\ kept \in [Convs -> Contents \cup {Nothing}]
  /\ faults \in 0..MaxFaults

\* Lock files come and go, but only one client at a time may change a checkpoint:
\* an old inode is not worth a lease (try_acquire, _sweep_retired_locks).
OneWriter ==
  \A p, q \in Clients : Leased(p) /\ Leased(q) /\ Job(p).conv = Job(q).conv => p = q

\* What the user was told is saved is in the checkpoint or in an archive that can
\* be read, after any crash and any power loss (archive, retire_archived_snapshot).
NothingLost ==
  \A c \in Convs : kept[c] # Nothing =>
    \/ file[c] \in Contents /\ file[c].rev >= kept[c].rev
    \/ \E s \in Contents : s.rev >= kept[c].rev /\ Restorable(<<c, s>>)

\* A checkpoint is removed only with the content the user saw in the preview, and
\* with nobody's turn on it (archive_workspace_session).
ArchivesWhatWasShown ==
  [][\A c \in Convs : file[c] \in Contents /\ file'[c] = Nothing /\ faults' = faults =>
       /\ <<c, file[c]>> \in firm.final
       /\ \E p \in Clients : Doing(p, "archive") /\ Job(p).conv = c /\ Job(p).next = file[c]
       /\ ~\E p \in Clients : Doing(p, "turn") /\ Leased(p) /\ Job(p).conv = c]_vars

\* Creating and restoring at the same time never exceed the capacity, after which
\* no scan would succeed any more (_load_candidates), whoever crashes and also after
\* a power loss.  It takes both to exceed it: a client that died between unlinking a
\* checkpoint and syncing, a sweep that passes over its lock since another one is
\* trying it, and a power loss that undoes the unlinking but not the next creation.
HistoryBounded == faults <= 1 => Cardinality(Present) <= MaxHistory
=============================================================================

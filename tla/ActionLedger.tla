---------------------------- MODULE ActionLedger ----------------------------
(***************************************************************************)
(* The action ledger of one conversation (agent/runtime/state.py,          *)
(* accept_action and finalize_action) over its checkpoint file             *)
(* (agent/runtime/checkpoint.py), as several clients use it.               *)
(*                                                                         *)
(* A client loads a snapshot without holding the lease, builds an action   *)
(* with a sequence number and the revision it expects, and hands both to   *)
(* run_turn.  run_turn takes the flock lease but decides on the CALLER's   *)
(* snapshot, which may be stale by then: only the compare-and-swap tells.  *)
(* An accepted action occupies a replay record; the record is closed when  *)
(* the turn finishes, so a redelivered action is answered from the record  *)
(* and never run again.  What the turn does in between is module Kernel;   *)
(* here it is one optional save.                                           *)
(*                                                                         *)
(* A save may fail without having replaced the file, or after it has (the  *)
(* directory fsync that follows os.replace).  A process may die at any     *)
(* point; the kernel drops its flock.                                      *)
(***************************************************************************)
EXTENDS Naturals, Sequences, FiniteSets

CONSTANTS
  Clients,      \* processes that submit actions to the conversation
  Digests,      \* canonical action digests: what the action asks for
  Direct,       \* the ones decided by one save: accept and finish together
  ReplayLimit,  \* max_replay_records (64 in the code)
  MaxSeq,       \* bound: sequence numbers that can be submitted
  NoClient      \* nobody holds the lease

ASSUME LedgerAssumption ==
  /\ Direct \subseteq Digests
  /\ ReplayLimit \in Nat \ {0}
  /\ MaxSeq \in Nat
  /\ NoClient \notin Clients

VARIABLES
  disk,     \* the checkpoint: [rev, next, floor, recs]
  lease,    \* the client whose run_turn holds the flock, or NoClient
  snap,     \* each client's LoadedSnapshot
  turn,     \* the turn a client is driving: where it is, and its action
  reply,    \* the last RunResult a client got
  history   \* ghost: the actions whose acceptance reached the disk, in order

vars == <<disk, lease, snap, turn, reply, history>>

Seqs == 1..MaxSeq
Results == {"ok", "failed"}
Record == [seq : Seqs, digest : Digests, result : Results \cup {"open"}]
State == [rev : Nat, next : Nat \ {0}, floor : Nat \ {0}, recs : Seq(Record)]
Submission == [seq : Seqs, digest : Digests]
NoTurn == [pc |-> "idle"]
Driving(pc, a, s) == [pc |-> pc, action |-> a, cur |-> s]
NoReply == [kind |-> "none"]
Told(kind, a) == [kind |-> kind, action |-> a]
Replayed(a, result) == [kind |-> "replayed", action |-> a, result |-> result]

Init ==
  /\ disk = [rev |-> 0, next |-> 1, floor |-> 1, recs |-> <<>>]
  /\ lease = NoClient
  /\ snap = [c \in Clients |-> disk]
  /\ turn = [c \in Clients |-> NoTurn]
  /\ reply = [c \in Clients |-> NoReply]
  /\ history = <<>>

-----------------------------------------------------------------------------
(* accept_action and finalize_action, as functions of a state              *)

Known(s, seq) == \E i \in DOMAIN s.recs : s.recs[i].seq = seq
IndexOf(s, seq) == CHOOSE i \in DOMAIN s.recs : s.recs[i].seq = seq
RecordOf(s, seq) == s.recs[IndexOf(s, seq)]

\* _append_replay_record: a full window drops its oldest record, which must
\* be closed; there is no way past one that is still open.
HasRoom(s) == Len(s.recs) >= ReplayLimit => s.recs[1].result # "open"
Evicted(s) == IF Len(s.recs) < ReplayLimit THEN s.recs ELSE Tail(s.recs)
Floor(s) == IF Len(s.recs) < ReplayLimit THEN s.floor ELSE s.recs[1].seq + 1
AppendRecord(s, a) ==
  [rev |-> s.rev + 1, next |-> s.next + 1, floor |-> Floor(s),
   recs |-> Append(Evicted(s),
                   [seq |-> a.seq, digest |-> a.digest, result |-> "open"])]

\* accept_action's ladder: a known sequence number is answered from its
\* record, any other must be the next one, with the revision it was built for.
Acceptable(s, a, expected) ==
  /\ ~Known(s, a.seq)
  /\ a.seq = s.next
  /\ expected = s.rev
  /\ HasRoom(s)
ReplayableFault(s, a) ==  \* for a mutant: the digest is not compared
  Known(s, a.seq) /\ RecordOf(s, a.seq).result # "open"
Replayable(s, a) ==
  /\ Known(s, a.seq)
  /\ RecordOf(s, a.seq).digest = a.digest
  /\ RecordOf(s, a.seq).result # "open"

\* finalize_action closes the record; closing it twice differently raises.
CanFinalize(s, a) == Known(s, a.seq) /\ RecordOf(s, a.seq).result = "open"
Finalized(s, a, result) ==
  [s EXCEPT !.rev = @ + 1, !.recs[IndexOf(s, a.seq)].result = result]

-----------------------------------------------------------------------------
(* The clients                                                             *)

Idle(c) == turn[c] = NoTurn

\* Faults, for the mutants: the flock is not taken; the file is replaced without
\* comparing its revision.
FreeFault == TRUE
SwapFault(s) == TRUE

\* try_acquire, and the lease's release when run_turn returns.
Free == lease = NoClient
Released(c) == NoClient

\* store.load: no lease is needed to read.
Load(c) ==
  /\ Idle(c)
  /\ snap' = [snap EXCEPT ![c] = disk]
  /\ UNCHANGED <<disk, lease, turn, reply, history>>

\* try_acquire fails: another run_turn is in progress (conversation_busy).
Busy(c, a) ==
  /\ Idle(c) /\ lease # NoClient
  /\ reply' = [reply EXCEPT ![c] = Told("conflict", a)]
  /\ UNCHANGED <<disk, lease, snap, turn, history>>

\* accept_action answers without a save: any conflict of its ladder (the last
\* alternative is an action that is illegal in the state), or a replay.
Answer(c, a, expected) ==
  /\ Idle(c) /\ Free
  /\ \/ /\ Replayable(snap[c], a)
        /\ reply' = [reply EXCEPT
                       ![c] = Replayed(a, RecordOf(snap[c], a.seq).result)]
     \/ /\ ~Replayable(snap[c], a)
        /\ reply' = [reply EXCEPT ![c] = Told("conflict", a)]
  /\ UNCHANGED <<disk, lease, snap, turn, history>>

\* compare_and_swap: the file must still be the snapshot's.
SwapOk(s) == disk.rev = s.rev

\* The first save of an accepted action fails its compare-and-swap.
AcceptConflicts(c, a, expected) ==
  /\ Idle(c) /\ Free
  /\ Acceptable(snap[c], a, expected) /\ ~SwapOk(snap[c])
  /\ reply' = [reply EXCEPT ![c] = Told("conflict", a)]
  /\ UNCHANGED <<disk, lease, snap, turn, history>>

\* An action the loop decides at once: acceptance and result in one save.
AcceptAndFinish(c, a, expected) ==
  /\ Idle(c) /\ Free /\ a.digest \in Direct
  /\ Acceptable(snap[c], a, expected) /\ SwapOk(snap[c])
  /\ disk' = Finalized(AppendRecord(snap[c], a), a, "ok")
  /\ history' = Append(history, a)
  /\ snap' = [snap EXCEPT ![c] = disk']
  /\ \/ reply' = [reply EXCEPT ![c] = Told("ok", a)]
     \/ reply' = [reply EXCEPT ![c] = Told("failed", a)]   \* fsync failed
  /\ UNCHANGED <<lease, turn>>

\* An action that starts or continues a run: the accepted state is saved first.
Accept(c, a, expected) ==
  /\ Idle(c) /\ Free /\ a.digest \notin Direct
  /\ Acceptable(snap[c], a, expected) /\ SwapOk(snap[c])
  /\ disk' = AppendRecord(snap[c], a)
  /\ history' = Append(history, a)
  /\ lease' = c
  /\ turn' = [turn EXCEPT ![c] = Driving("drive", a, disk')]
  /\ UNCHANGED <<snap, reply>>

\* That save fails.  The handler only has the snapshot from before, in which
\* the action has no record, so it cannot finalize: the turn ends with FAILED,
\* and if the file was replaced the record stays open.
AcceptSaveFails(c, a, expected) ==
  /\ Idle(c) /\ Free
  /\ Acceptable(snap[c], a, expected) /\ SwapOk(snap[c])
  /\ \/ UNCHANGED <<disk, history>>
     \/ /\ a.digest \notin Direct
        /\ disk' = AppendRecord(snap[c], a)
        /\ history' = Append(history, a)
  /\ reply' = [reply EXCEPT ![c] = Told("failed", a)]
  /\ UNCHANGED <<lease, snap, turn>>

\* One save of the run in between (claim_run and everything _drive saves).
DriveSave(c) ==
  /\ turn[c].pc = "drive" /\ SwapOk(turn[c].cur)
  /\ disk' = [turn[c].cur EXCEPT !.rev = @ + 1]
  /\ turn' = [turn EXCEPT ![c].pc = "finish", ![c].cur = disk']
  /\ UNCHANGED <<lease, snap, reply, history>>

\* _finish: close the record and give up the lease.
Finish(c) ==
  /\ turn[c].pc = "finish"
  /\ CanFinalize(turn[c].cur, turn[c].action) /\ SwapOk(turn[c].cur)
  /\ \E result \in Results :
       /\ disk' = Finalized(turn[c].cur, turn[c].action, result)
       /\ reply' = [reply EXCEPT ![c] = Told(result, turn[c].action)]
  /\ lease' = Released(c)
  /\ snap' = [snap EXCEPT ![c] = disk']
  /\ turn' = [turn EXCEPT ![c] = NoTurn]
  /\ UNCHANGED history

\* A save of the turn fails and the handler finishes it with FAILED: with the
\* snapshot it was given it can close the record exactly when the file was not
\* replaced, the run is still there and the second save succeeds.
TurnSaveFails(c) ==
  /\ turn[c].pc \in {"drive", "finish"}
  /\ LET a == turn[c].action
         s == turn[c].cur
     IN /\ \/ UNCHANGED disk
           \/ disk' = Finalized(s, a, "failed")
           \/ turn[c].pc = "drive" /\ disk' = [s EXCEPT !.rev = @ + 1]
           \/ turn[c].pc = "finish" /\ \E r \in Results : disk' = Finalized(s, a, r)
        /\ reply' = [reply EXCEPT ![c] = Told("failed", a)]
  /\ lease' = Released(c)
  /\ turn' = [turn EXCEPT ![c] = NoTurn]
  /\ UNCHANGED <<snap, history>>

\* The process dies: flock is released, nothing is told, nothing closed.
Crash(c) ==
  /\ ~Idle(c)
  /\ lease' = NoClient
  /\ turn' = [turn EXCEPT ![c] = NoTurn]
  /\ reply' = [reply EXCEPT ![c] = NoReply]
  /\ UNCHANGED <<disk, snap, history>>

Submit(c) ==
  \E a \in Submission, expected \in {snap[c].rev, 0} :
    \/ Busy(c, a)
    \/ Answer(c, a, expected)
    \/ AcceptConflicts(c, a, expected)
    \/ AcceptAndFinish(c, a, expected)
    \/ Accept(c, a, expected)
    \/ AcceptSaveFails(c, a, expected)

Drive(c) == DriveSave(c) \/ Finish(c) \/ TurnSaveFails(c)

Next == \E c \in Clients : Load(c) \/ Submit(c) \/ Drive(c) \/ Crash(c)

\* Nobody owes a step: a client may die, or never load or submit again.
Spec == Init /\ [][Next]_vars

-----------------------------------------------------------------------------
(* Properties                                                              *)

TypeOK ==
  /\ disk \in State
  /\ lease \in Clients \cup {NoClient}
  /\ \A c \in Clients :
       /\ snap[c] \in State
       /\ turn[c].pc \in {"idle", "drive", "finish"}
       /\ ~Idle(c) => turn[c].action \in Submission /\ turn[c].cur \in State
  /\ history \in Seq(Submission)

\* Every sequence number is accepted at most once, in order, whichever clients
\* race for it and however stale their snapshots are: the accepted actions are
\* numbered 1, 2, 3... without a gap or a repetition (accept_action's ladder on
\* a stale snapshot, caught by compare_and_swap).
AcceptedOnce ==
  /\ Len(history) = disk.next - 1
  /\ \A i \in DOMAIN history : history[i].seq = i

\* Whatever a client was told of an action, that action was accepted with this
\* very digest: a replay never answers for a different action, and a success is
\* never reported for an action whose acceptance is not on disk.
RepliesTruthful ==
  \A c \in Clients :
    reply[c].kind \in {"ok", "replayed"} =>
      LET a == reply[c].action
      IN a.seq \in DOMAIN history /\ history[a.seq] = a

\* A turn in progress works on the state that is on disk, and its action is the
\* last one accepted and still open: nobody else got in between its saves.
TurnOwnsDisk ==
  \A c \in Clients : ~Idle(c) =>
    /\ lease = c
    /\ turn[c].cur = disk
    /\ turn[c].action.seq = disk.next - 1
    /\ CanFinalize(disk, turn[c].action)
=============================================================================

------------------------- MODULE ActionLedgerProofs -------------------------
(***************************************************************************)
(* Proofs about ActionLedger, for any number of clients, any limit of the  *)
(* replay window and any bound on the sequence numbers: an action is       *)
(* accepted once and in order, what a client is told of it is true, and a  *)
(* turn in progress owns the file.                                         *)
(*                                                                         *)
(* What carries the proof is that a revision names one content: a snapshot *)
(* whose revision is that of the file IS the file.  Everything a stale     *)
(* snapshot still knows of an action stays true, since the history of      *)
(* accepted actions only grows.                                            *)
(***************************************************************************)
EXTENDS ActionLedger, TLAPS

-----------------------------------------------------------------------------
(* The inductive invariant                                                 *)

Turns == {NoTurn} \cup [pc : {"drive", "finish"}, action : Submission, cur : State]
Replies ==
  {NoReply} \cup [kind : {"conflict", "ok", "failed"}, action : Submission]
            \cup [kind : {"replayed"}, action : Submission, result : Results]

Types ==
  /\ disk \in State
  /\ lease \in Clients \cup {NoClient}
  /\ snap \in [Clients -> State]
  /\ turn \in [Clients -> Turns]
  /\ reply \in [Clients -> Replies]
  /\ history \in Seq(Submission)

\* The history numbers the accepted actions.
Numbered(h) == \A i \in DOMAIN h : h[i].seq = i

\* Every record of a state is that of an accepted action, older than the next one.
Coherent(s, h) ==
  /\ s.next - 1 <= Len(h)
  /\ \A i \in DOMAIN s.recs :
       /\ s.recs[i].seq < s.next
       /\ h[s.recs[i].seq].digest = s.recs[i].digest

DiskInv ==
  /\ Coherent(disk, history)
  /\ Len(history) = disk.next - 1
  /\ Numbered(history)

\* A revision names one content of the file.
SnapInv ==
  \A c \in Clients :
    /\ Coherent(snap[c], history)
    /\ snap[c].rev <= disk.rev
    /\ snap[c].rev = disk.rev => snap[c] = disk

TurnInv ==
  \A c \in Clients : turn[c] # NoTurn =>
    /\ lease = c
    /\ turn[c].cur = disk
    /\ turn[c].action.seq = disk.next - 1
    /\ CanFinalize(disk, turn[c].action)
    /\ turn[c].action = history[turn[c].action.seq]

Inv == Types /\ DiskInv /\ SnapInv /\ TurnInv /\ RepliesTruthful

-----------------------------------------------------------------------------
(* What the reducers do to a state                                         *)

\* The index that IndexOf picks is one of the record looked for.
LEMMA IndexOfKnown ==
  ASSUME NEW s, NEW seq, Known(s, seq)
  PROVE  IndexOf(s, seq) \in DOMAIN s.recs /\ RecordOf(s, seq).seq = seq
  BY DEF Known, IndexOf, RecordOf

\* What a state and its records are made of.
LEMMA StateShape ==
  ASSUME NEW s \in State
  PROVE  /\ s.rev \in Nat /\ s.next \in Nat /\ s.next >= 1 /\ s.floor \in Nat \ {0}
         /\ s.recs \in Seq(Record)
         /\ s = [rev |-> s.rev, next |-> s.next, floor |-> s.floor, recs |-> s.recs]
         /\ \A i \in DOMAIN s.recs :
              /\ s.recs[i] \in Record
              /\ s.recs[i].seq \in Nat /\ s.recs[i].seq >= 1
<1>1. /\ s.rev \in Nat /\ s.next \in Nat /\ s.next >= 1 /\ s.floor \in Nat \ {0}
      /\ s.recs \in Seq(Record)
      /\ s = [rev |-> s.rev, next |-> s.next, floor |-> s.floor, recs |-> s.recs]
  BY DEF State
<1>2. \A i \in DOMAIN s.recs : s.recs[i] \in Record
  BY <1>1
<1>3. \A r \in Record : r.seq \in Nat /\ r.seq >= 1
  BY DEF Record, Seqs
<1> QED BY <1>1, <1>2, <1>3

\* An acceptance appends one open record, which is found by its number, and
\* whatever the window still holds is as true as before.
LEMMA AppendKeeps ==
  ASSUME NEW s \in State, NEW h \in Seq(Submission), NEW a \in Submission,
         Coherent(s, h), Numbered(h), Len(h) = s.next - 1, a.seq = s.next
  PROVE  /\ AppendRecord(s, a) \in State
         /\ AppendRecord(s, a).rev = s.rev + 1
         /\ AppendRecord(s, a).next = s.next + 1
         /\ Coherent(AppendRecord(s, a), Append(h, a))
         /\ CanFinalize(AppendRecord(s, a), a)
<1> DEFINE t == AppendRecord(s, a)
           e == Evicted(s)
           r == [seq |-> a.seq, digest |-> a.digest, result |-> "open"]
<1>1. r \in Record /\ a.seq \in Nat
  BY DEF Record, Submission, Results, Seqs
<1>2. e \in Seq(Record) /\ Floor(s) \in Nat \ {0}
  <2>1. CASE Len(s.recs) < ReplayLimit
    BY <2>1 DEF Evicted, Floor, State
  <2>2. CASE ~(Len(s.recs) < ReplayLimit)
    <3>1. s.recs # <<>> /\ s.recs[1] \in Record
      BY <2>2, LedgerAssumption DEF State
    <3> QED BY <2>2, <3>1 DEF Evicted, Floor, State, Record, Seqs
  <2> QED BY <2>1, <2>2
<1>3. \A i \in DOMAIN e : \E j \in DOMAIN s.recs : e[i] = s.recs[j]
  <2>1. CASE Len(s.recs) < ReplayLimit
    BY <2>1 DEF Evicted
  <2>2. CASE ~(Len(s.recs) < ReplayLimit)
    <3>1. s.recs \in Seq(Record) /\ s.recs # <<>>
      BY <2>2, LedgerAssumption DEF State
    <3>2. e = Tail(s.recs)
      BY <2>2 DEF Evicted
    <3>3. \A i \in DOMAIN e : i + 1 \in DOMAIN s.recs /\ e[i] = s.recs[i + 1]
      BY <3>1, <3>2
    <3> QED BY <3>3
  <2> QED BY <2>1, <2>2
<1>4. t.recs = Append(e, r) /\ t.rev = s.rev + 1 /\ t.next = s.next + 1
  BY DEF AppendRecord
<1>5. t \in State
  BY <1>1, <1>2 DEF AppendRecord, State
<1>6. \A i \in DOMAIN t.recs : IF i \in DOMAIN e THEN t.recs[i] = e[i] ELSE t.recs[i] = r
  BY <1>1, <1>2, <1>4
<1>7. t.recs[Len(e) + 1] = r /\ Len(e) + 1 \in DOMAIN t.recs
  BY <1>1, <1>2, <1>4
<1>8. \A i \in DOMAIN e :
        /\ e[i].seq \in Nat /\ e[i].seq < s.next
        /\ h[e[i].seq].digest = e[i].digest /\ e[i].seq \in DOMAIN h
  <2> SUFFICES ASSUME NEW j \in DOMAIN s.recs
               PROVE  /\ s.recs[j].seq \in Nat /\ s.recs[j].seq < s.next
                      /\ h[s.recs[j].seq].digest = s.recs[j].digest
                      /\ s.recs[j].seq \in DOMAIN h
    BY <1>3
  <2>2. s.recs[j].seq \in Nat /\ s.recs[j].seq >= 1 /\ s.next \in Nat
    BY StateShape
  <2>3. s.recs[j].seq < s.next /\ h[s.recs[j].seq].digest = s.recs[j].digest
    BY DEF Coherent
  <2> QED BY <2>2, <2>3
<1>9. Coherent(t, Append(h, a))
  <2>1. Len(Append(h, a)) = Len(h) + 1 /\ Append(h, a)[Len(h) + 1] = a
    OBVIOUS
  <2>2. \A k \in DOMAIN h : Append(h, a)[k] = h[k]
    OBVIOUS
  <2>3. \A i \in DOMAIN t.recs :
          /\ t.recs[i].seq < t.next
          /\ Append(h, a)[t.recs[i].seq].digest = t.recs[i].digest
    <3> SUFFICES ASSUME NEW i \in DOMAIN t.recs
                 PROVE  /\ t.recs[i].seq < t.next
                        /\ Append(h, a)[t.recs[i].seq].digest = t.recs[i].digest
      OBVIOUS
    <3>1. s.next \in Nat
      BY DEF State
    <3>2. CASE i \in DOMAIN e
      <4>1. t.recs[i] = e[i]
        BY <3>2, <1>6
      <4> QED BY <4>1, <3>1, <3>2, <1>4, <1>8, <2>2
    <3>3. CASE i \notin DOMAIN e
      <4>1. t.recs[i] = r
        BY <3>3, <1>6
      <4>2. s.next = Len(h) + 1
        BY <3>1
      <4> QED BY <4>1, <4>2, <3>1, <1>4, <2>1
    <3> QED BY <3>2, <3>3
  <2>4. t.next - 1 <= Len(Append(h, a))
    BY <1>4, <2>1, StateShape
  <2> HIDE DEF t
  <2> QED BY <2>3, <2>4 DEF Coherent
<1>10. CanFinalize(t, a)
  <2>1. Known(t, a.seq)
    BY <1>7 DEF Known
  <2>2. IndexOf(t, a.seq) \notin DOMAIN e
    <3>1. IndexOf(t, a.seq) \in DOMAIN t.recs /\ t.recs[IndexOf(t, a.seq)].seq = a.seq
      BY <2>1, IndexOfKnown DEF RecordOf
    <3> QED BY <3>1, <1>6, <1>8, <1>1
  <2>3. RecordOf(t, a.seq) = r
    BY <2>1, <2>2, <1>6, IndexOfKnown DEF RecordOf
  <2> QED BY <2>1, <2>3 DEF CanFinalize
<1> QED BY <1>4, <1>5, <1>9, <1>10

\* Closing a record changes no number and no digest.
LEMMA FinalizedKeeps ==
  ASSUME NEW s \in State, NEW h \in Seq(Submission), NEW a \in Submission,
         NEW result \in Results, Coherent(s, h), Known(s, a.seq)
  PROVE  /\ Finalized(s, a, result) \in State
         /\ Finalized(s, a, result).rev = s.rev + 1
         /\ Finalized(s, a, result).next = s.next
         /\ Coherent(Finalized(s, a, result), h)
<1> DEFINE k == IndexOf(s, a.seq)
           t == Finalized(s, a, result)
           r == [s.recs[k] EXCEPT !.result = result]
<1>1. k \in DOMAIN s.recs
  BY IndexOfKnown
<1>2. t = [rev |-> s.rev + 1, next |-> s.next, floor |-> s.floor,
           recs |-> [s.recs EXCEPT ![k] = r]]
  <2>1. t = [s EXCEPT !.rev = s.rev + 1, !.recs = [s.recs EXCEPT ![k] = r]]
    BY DEF Finalized, State
  <2> QED BY <2>1 DEF State
<1>3. r \in Record /\ r.seq = s.recs[k].seq /\ r.digest = s.recs[k].digest
  <2>1. s.recs[k] \in Record
    BY <1>1 DEF State
  <2> QED BY <2>1 DEF Record, Results
<1>4. [s.recs EXCEPT ![k] = r] \in Seq(Record)
  BY <1>1, <1>3 DEF State
<1>5. t \in State
  BY <1>2, <1>4 DEF State
<1>6. Coherent(t, h)
  BY <1>1, <1>2, <1>3 DEF Coherent, State
<1> QED BY <1>2, <1>5, <1>6

\* What was true of an older history stays true of a longer one.
LEMMA CoherentGrows ==
  ASSUME NEW s \in State, NEW h \in Seq(Submission), NEW a \in Submission, Coherent(s, h)
  PROVE  Coherent(s, Append(h, a))
<1>1. \A k \in DOMAIN h : Append(h, a)[k] = h[k]
  OBVIOUS
<1>2. Len(Append(h, a)) = Len(h) + 1
  OBVIOUS
<1>3. \A i \in DOMAIN s.recs : s.recs[i].seq \in DOMAIN h
  <2> SUFFICES ASSUME NEW i \in DOMAIN s.recs PROVE s.recs[i].seq \in DOMAIN h
    OBVIOUS
  <2>1. s.recs[i].seq \in Nat /\ s.recs[i].seq >= 1 /\ s.next \in Nat
    BY StateShape
  <2> QED BY <2>1 DEF Coherent
<1> QED BY <1>1, <1>2, <1>3 DEF Coherent, State

\* The history with one more action still numbers its actions.
LEMMA NumberedGrows ==
  ASSUME NEW h \in Seq(Submission), NEW a \in Submission,
         Numbered(h), a.seq = Len(h) + 1
  PROVE  /\ Append(h, a) \in Seq(Submission) /\ Numbered(Append(h, a))
         /\ Len(Append(h, a)) = Len(h) + 1 /\ Append(h, a)[a.seq] = a
         /\ \A i \in DOMAIN h : i \in DOMAIN Append(h, a) /\ Append(h, a)[i] = h[i]
  BY DEF Numbered

-----------------------------------------------------------------------------
(* The steps.  A step either leaves the file and the turns alone, or it     *)
(* accepts an action, or it belongs to the one turn that is in progress.    *)

LEMMA InitInv == Init => Inv
<1> SUFFICES ASSUME Init PROVE Inv
  OBVIOUS
<1> DEFINE s == [rev |-> 0, next |-> 1, floor |-> 1, recs |-> <<>>]
<1>1. disk = s /\ s \in State
  BY DEF Init, State
<1>2. Types
  BY <1>1 DEF Init, Types, Turns, Replies
<1>3. DiskInv /\ SnapInv
  BY <1>1 DEF Init, DiskInv, SnapInv, Coherent, Numbered
<1>4. TurnInv /\ RepliesTruthful
  BY DEF Init, TurnInv, RepliesTruthful, NoReply
<1> QED BY <1>2, <1>3, <1>4 DEF Inv

\* The file, the lease, the turns and the history stay as they are.
Quiet == UNCHANGED <<disk, lease, turn, history>>

LEMMA QuietKeeps ==
  ASSUME Inv, Quiet
  PROVE  DiskInv' /\ TurnInv'
  BY DEF Inv, Quiet, DiskInv, TurnInv

\* A load takes a snapshot that is the file.
LEMMA LoadKeeps ==
  ASSUME Inv, NEW c \in Clients, Load(c)
  PROVE  Inv'
<1>1. DiskInv' /\ TurnInv'
  BY QuietKeeps DEF Load, Quiet
<1>2. Types' /\ RepliesTruthful'
  BY DEF Load, Inv, Types, RepliesTruthful
<1>3. SnapInv'
  <2>1. disk.rev \in Nat
    BY DEF Inv, Types, State
  <2> QED BY <2>1 DEF Load, Inv, Types, SnapInv, DiskInv
<1> QED BY <1>1, <1>2, <1>3 DEF Inv

\* An answer without a save is a conflict, or what a record says of the very action.
LEMMA AnswerKeeps ==
  ASSUME Inv, NEW c \in Clients, NEW a \in Submission, NEW expected,
         Busy(c, a) \/ Answer(c, a, expected) \/ AcceptConflicts(c, a, expected)
  PROVE  Inv'
<1>1. DiskInv' /\ TurnInv'
  BY QuietKeeps DEF Busy, Answer, AcceptConflicts, Quiet
<1>2. SnapInv'
  BY DEF Busy, Answer, AcceptConflicts, Inv, SnapInv
<1>3. UNCHANGED <<disk, lease, snap, turn, history>>
  BY DEF Busy, Answer, AcceptConflicts
<1>4. \/ reply' = [reply EXCEPT ![c] = Told("conflict", a)]
      \/ /\ Replayable(snap[c], a)
         /\ reply' = [reply EXCEPT ![c] = Replayed(a, RecordOf(snap[c], a.seq).result)]
  BY DEF Busy, Answer, AcceptConflicts
<1>5. CASE reply' = [reply EXCEPT ![c] = Told("conflict", a)]
  <2>1. Types'
    BY <1>3, <1>5 DEF Inv, Types, Told, Replies
  <2>2. RepliesTruthful'
    BY <1>3, <1>5 DEF Inv, Types, Told, RepliesTruthful
  <2> QED BY <1>1, <1>2, <2>1, <2>2 DEF Inv
<1>6. CASE /\ Replayable(snap[c], a)
           /\ reply' = [reply EXCEPT ![c] = Replayed(a, RecordOf(snap[c], a.seq).result)]
  <2> DEFINE s == snap[c]
             i == IndexOf(s, a.seq)
  <2>1. s \in State /\ Coherent(s, history)
    BY DEF Inv, Types, SnapInv
  <2>2. /\ i \in DOMAIN s.recs /\ s.recs[i].seq = a.seq /\ RecordOf(s, a.seq) = s.recs[i]
        /\ s.recs[i].digest = a.digest /\ s.recs[i].result # "open"
    BY <1>6, IndexOfKnown DEF Replayable, RecordOf
  <2>3. s.recs[i] \in Record
    BY <2>1, <2>2, StateShape
  <2>4. s.recs[i].result \in Results
    BY <2>2, <2>3 DEF Record
  <2>5. a.seq \in DOMAIN history
    <3>1. a.seq \in Nat /\ a.seq >= 1 /\ s.next \in Nat
      BY <2>1, <2>2, StateShape
    <3>2. a.seq < s.next /\ s.next - 1 <= Len(history)
      BY <2>1, <2>2 DEF Coherent
    <3> QED BY <3>1, <3>2 DEF Inv, Types
  <2>6. history[a.seq].digest = a.digest /\ history[a.seq].seq = a.seq
    BY <2>1, <2>2, <2>5 DEF Coherent, Inv, DiskInv, Numbered
  <2>7. history[a.seq] = a
    <3>1. history[a.seq] \in Submission
      BY <2>5 DEF Inv, Types
    <3> QED BY <3>1, <2>6 DEF Submission
  <2>8. Types'
    BY <1>3, <1>6, <2>2, <2>4 DEF Inv, Types, Replayed, Replies
  <2>9. RepliesTruthful'
    <3>1. \A d \in Clients : reply'[d] = IF d = c THEN Replayed(a, s.recs[i].result) ELSE reply[d]
      BY <1>6, <2>2 DEF Inv, Types
    <3> QED BY <3>1, <1>3, <2>5, <2>7 DEF Inv, RepliesTruthful, Replayed
  <2> QED BY <1>1, <1>2, <2>8, <2>9 DEF Inv
<1> QED BY <1>4, <1>5, <1>6

\* The history is as it was, or longer by one action that is the next one.
Grows ==
  \/ history' = history
  \/ \E a \in Submission : a.seq = disk.next /\ history' = Append(history, a)

\* A newer file leaves every snapshot behind, and what they say stays true.
LEMMA SnapshotsAge ==
  ASSUME Inv, Grows, disk'.rev \in Nat, disk'.rev > disk.rev, NEW c \in Clients
  PROVE  /\ Coherent(snap[c], history')
         /\ snap[c].rev < disk'.rev
<1>1. snap[c] \in State /\ Coherent(snap[c], history) /\ snap[c].rev <= disk.rev
  BY DEF Inv, Types, SnapInv
<1>2. snap[c].rev \in Nat /\ disk.rev \in Nat
  BY <1>1, StateShape DEF Inv, Types
<1>3. Coherent(snap[c], history')
  BY <1>1, CoherentGrows DEF Grows, Inv, Types
<1> QED BY <1>1, <1>2, <1>3

\* The accepted actions keep their places in a history that grows.
LEMMA HistoryStays ==
  ASSUME Inv, Grows
  PROVE  /\ history' \in Seq(Submission) /\ Numbered(history')
         /\ \A i \in DOMAIN history : i \in DOMAIN history' /\ history'[i] = history[i]
<1>1. history \in Seq(Submission) /\ Numbered(history) /\ Len(history) = disk.next - 1
  BY DEF Inv, Types, DiskInv
<1>2. CASE history' = history
  BY <1>1, <1>2
<1>3. ASSUME NEW a \in Submission, a.seq = disk.next, history' = Append(history, a)
      PROVE  /\ history' \in Seq(Submission) /\ Numbered(history')
             /\ \A i \in DOMAIN history : i \in DOMAIN history' /\ history'[i] = history[i]
  <2>1. a.seq = Len(history) + 1
    BY <1>1, <1>3, StateShape DEF Inv, Types
  <2> QED BY <1>1, <1>3, <2>1, NumberedGrows
<1> QED BY <1>2, <1>3 DEF Grows

\* Nobody drives a turn while the lease is free, nor beside the client that holds it.
LEMMA OneDriver ==
  ASSUME Inv
  PROVE  /\ Free => \A c \in Clients : turn[c] = NoTurn
         /\ \A c, d \in Clients : turn[c] # NoTurn /\ d # c => turn[d] = NoTurn
  BY LedgerAssumption DEF Inv, TurnInv, Free

\* The state that an acceptance saves.
LEMMA Accepted ==
  ASSUME Inv, NEW c \in Clients, NEW a \in Submission, NEW expected,
         Acceptable(snap[c], a, expected), SwapOk(snap[c])
  PROVE  LET d == AppendRecord(snap[c], a) IN
         /\ snap[c] = disk /\ a.seq = disk.next
         /\ d \in State /\ d.rev = disk.rev + 1 /\ d.next = disk.next + 1
         /\ Coherent(d, Append(history, a)) /\ CanFinalize(d, a)
         /\ Append(history, a) \in Seq(Submission) /\ Numbered(Append(history, a))
         /\ Len(Append(history, a)) = d.next - 1 /\ Append(history, a)[a.seq] = a
<1> USE DEF Inv
<1>1. snap[c] = disk /\ a.seq = disk.next
  BY DEF Acceptable, SwapOk, SnapInv
<1>2. disk \in State /\ history \in Seq(Submission) /\ disk.next \in Nat
  BY StateShape DEF Types
<1>3. Coherent(disk, history) /\ Numbered(history) /\ Len(history) = disk.next - 1
  BY DEF DiskInv
<1>4. a.seq = Len(history) + 1
  BY <1>1, <1>2, <1>3
<1>5. /\ AppendRecord(disk, a) \in State /\ AppendRecord(disk, a).rev = disk.rev + 1
      /\ AppendRecord(disk, a).next = disk.next + 1
      /\ Coherent(AppendRecord(disk, a), Append(history, a))
      /\ CanFinalize(AppendRecord(disk, a), a)
  BY <1>1, <1>2, <1>3, AppendKeeps
<1>6. /\ Append(history, a) \in Seq(Submission) /\ Numbered(Append(history, a))
      /\ Len(Append(history, a)) = Len(history) + 1 /\ Append(history, a)[a.seq] = a
  BY <1>2, <1>3, <1>4, NumberedGrows
<1> QED BY <1>1, <1>2, <1>3, <1>5, <1>6

\* An acceptance that goes on as a turn.
LEMMA AcceptKeeps ==
  ASSUME Inv, NEW c \in Clients, NEW a \in Submission, NEW expected, Accept(c, a, expected)
  PROVE  Inv'
<1> DEFINE d == AppendRecord(snap[c], a)
<1>1. /\ disk' = d /\ history' = Append(history, a) /\ lease' = c /\ Free
      /\ turn' = [turn EXCEPT ![c] = Driving("drive", a, d)] /\ UNCHANGED <<snap, reply>>
      /\ Acceptable(snap[c], a, expected) /\ SwapOk(snap[c])
  BY DEF Accept
<1>2. /\ a.seq = disk.next /\ d \in State /\ d.rev = disk.rev + 1 /\ d.next = disk.next + 1
      /\ Coherent(d, history') /\ CanFinalize(d, a)
      /\ history' \in Seq(Submission) /\ Numbered(history')
      /\ Len(history') = d.next - 1 /\ history'[a.seq] = a
  BY <1>1, Accepted
<1> HIDE DEF d
<1>3. Grows
  BY <1>1, <1>2 DEF Grows
<1>4. disk \in State /\ disk.rev \in Nat /\ disk.next \in Nat
  BY StateShape DEF Inv, Types
<1>5. Types'
  BY <1>1, <1>2 DEF Inv, Types, Turns, Driving
<1>6. DiskInv'
  BY <1>1, <1>2 DEF DiskInv
<1>7. SnapInv'
  <2>1. disk'.rev \in Nat /\ disk'.rev > disk.rev
    BY <1>1, <1>2, <1>4
  <2> SUFFICES ASSUME NEW e \in Clients
               PROVE  /\ Coherent(snap[e], history') /\ snap[e].rev <= disk'.rev
                      /\ snap[e].rev # disk'.rev
    BY <1>1 DEF SnapInv
  <2>2. Coherent(snap[e], history') /\ snap[e].rev < disk'.rev
    BY <2>1, <1>3, SnapshotsAge
  <2>3. snap[e].rev \in Nat
    BY StateShape DEF Inv, Types
  <2> QED BY <2>1, <2>2, <2>3
<1>8. TurnInv'
  <2>1. \A e \in Clients : turn'[e] = IF e = c THEN Driving("drive", a, d) ELSE NoTurn
    BY <1>1, OneDriver DEF Inv, Types
  <2> QED BY <2>1, <1>1, <1>2, <1>4 DEF TurnInv, Driving
<1>9. RepliesTruthful'
  BY <1>1, <1>3, HistoryStays DEF Inv, RepliesTruthful
<1> QED BY <1>5, <1>6, <1>7, <1>8, <1>9 DEF Inv

\* An acceptance that is decided at once, and one whose save fails: nobody drives.
LEMMA AcceptAndFinishKeeps ==
  ASSUME Inv, NEW c \in Clients, NEW a \in Submission, NEW expected,
         AcceptAndFinish(c, a, expected)
  PROVE  Inv'
<1> DEFINE d == AppendRecord(snap[c], a)
           f == Finalized(d, a, "ok")
<1>1. /\ disk' = f /\ history' = Append(history, a) /\ Free
      /\ snap' = [snap EXCEPT ![c] = f] /\ UNCHANGED <<lease, turn>>
      /\ Acceptable(snap[c], a, expected) /\ SwapOk(snap[c])
      /\ \E kind \in {"ok", "failed"} : reply' = [reply EXCEPT ![c] = Told(kind, a)]
  BY DEF AcceptAndFinish
<1>2. /\ a.seq = disk.next /\ d \in State /\ d.rev = disk.rev + 1 /\ d.next = disk.next + 1
      /\ Coherent(d, history') /\ CanFinalize(d, a)
      /\ history' \in Seq(Submission) /\ Numbered(history')
      /\ Len(history') = d.next - 1 /\ history'[a.seq] = a
  BY <1>1, Accepted
<1> HIDE DEF d
<1>3. /\ f \in State /\ f.rev = d.rev + 1 /\ f.next = d.next /\ Coherent(f, history')
  BY <1>2, FinalizedKeeps DEF CanFinalize, Results
<1> HIDE DEF f
<1>4. Grows
  BY <1>1, <1>2 DEF Grows
<1>5. disk.rev \in Nat /\ disk.next \in Nat /\ disk'.rev \in Nat /\ disk'.rev > disk.rev
  <2>1. disk.rev \in Nat /\ disk.next \in Nat
    BY StateShape DEF Inv, Types
  <2> QED BY <2>1, <1>1, <1>2, <1>3
<1>6. Types'
  BY <1>1, <1>2, <1>3 DEF Inv, Types, Replies, Told
<1>7. DiskInv'
  BY <1>1, <1>2, <1>3 DEF DiskInv
<1>8. SnapInv'
  <2> SUFFICES ASSUME NEW e \in Clients, e # c
               PROVE  Coherent(snap[e], history') /\ snap[e].rev < disk'.rev /\ snap[e].rev \in Nat
    BY <1>1, <1>3, <1>5 DEF SnapInv, Inv, Types
  <2> QED BY <1>4, <1>5, SnapshotsAge, StateShape DEF Inv, Types
<1>9. TurnInv'
  BY <1>1, OneDriver DEF TurnInv
<1>10. RepliesTruthful'
  <2>1. a.seq \in DOMAIN history'
    <3>1. a.seq \in Nat /\ a.seq >= 1 /\ Len(history') = a.seq
      BY <1>2, <1>5 DEF Submission, Seqs
    <3> QED BY <3>1, <1>2
  <2>2. PICK kind : \A e \in Clients : reply'[e] = IF e = c THEN Told(kind, a) ELSE reply[e]
    BY <1>1 DEF Inv, Types
  <2> QED BY <2>1, <2>2, <1>2, <1>4, HistoryStays DEF Inv, RepliesTruthful, Told
<1> QED BY <1>6, <1>7, <1>8, <1>9, <1>10 DEF Inv

LEMMA AcceptSaveFailsKeeps ==
  ASSUME Inv, NEW c \in Clients, NEW a \in Submission, NEW expected,
         AcceptSaveFails(c, a, expected)
  PROVE  Inv'
<1> DEFINE d == AppendRecord(snap[c], a)
<1>1. /\ Free /\ UNCHANGED <<lease, snap, turn>>
      /\ Acceptable(snap[c], a, expected) /\ SwapOk(snap[c])
      /\ UNCHANGED <<disk, history>> \/ (disk' = d /\ history' = Append(history, a))
      /\ reply' = [reply EXCEPT ![c] = Told("failed", a)]
  BY DEF AcceptSaveFails
<1>2. /\ a.seq = disk.next /\ d \in State /\ d.rev = disk.rev + 1 /\ d.next = disk.next + 1
      /\ Coherent(d, Append(history, a))
      /\ Append(history, a) \in Seq(Submission) /\ Numbered(Append(history, a))
      /\ Len(Append(history, a)) = d.next - 1
  BY <1>1, Accepted
<1> HIDE DEF d
<1>3. Grows
  BY <1>1, <1>2 DEF Grows
<1>4. Types'
  BY <1>1, <1>2 DEF Inv, Types, Replies, Told
<1>5. DiskInv'
  BY <1>1, <1>2 DEF Inv, DiskInv
<1>6. SnapInv'
  <2>1. CASE UNCHANGED <<disk, history>>
    BY <2>1, <1>1 DEF Inv, SnapInv
  <2>2. CASE disk' = d /\ history' = Append(history, a)
    <3>1. disk.rev \in Nat /\ disk'.rev \in Nat /\ disk'.rev > disk.rev
      BY <2>2, <1>2, StateShape DEF Inv, Types
    <3> SUFFICES ASSUME NEW e \in Clients
                 PROVE  Coherent(snap[e], history') /\ snap[e].rev < disk'.rev /\ snap[e].rev \in Nat
      BY <1>1, <3>1 DEF SnapInv
    <3> QED BY <3>1, <1>3, SnapshotsAge, StateShape DEF Inv, Types
  <2> QED BY <1>1, <2>1, <2>2
<1>7. TurnInv'
  BY <1>1, OneDriver DEF TurnInv
<1>8. RepliesTruthful'
  <2>1. \A e \in Clients : reply'[e] = IF e = c THEN Told("failed", a) ELSE reply[e]
    BY <1>1 DEF Inv, Types
  <2> QED BY <2>1, <1>3, HistoryStays DEF Inv, RepliesTruthful, Told
<1> QED BY <1>4, <1>5, <1>6, <1>7, <1>8 DEF Inv

\* What the client that drives a turn knows.
LEMMA Driver ==
  ASSUME Inv, NEW c \in Clients, turn[c] # NoTurn
  PROVE  /\ turn[c].pc \in {"drive", "finish"} /\ turn[c].action \in Submission
         /\ turn[c].cur = disk /\ disk \in State /\ lease = c
         /\ turn[c].action.seq = disk.next - 1
         /\ CanFinalize(disk, turn[c].action) /\ Known(disk, turn[c].action.seq)
         /\ turn[c].action.seq \in DOMAIN history
         /\ turn[c].action = history[turn[c].action.seq]
<1>1. /\ turn[c].pc \in {"drive", "finish"} /\ turn[c].action \in Submission
      /\ turn[c].cur = disk /\ disk \in State /\ lease = c
      /\ turn[c].action.seq = disk.next - 1
      /\ CanFinalize(disk, turn[c].action)
      /\ turn[c].action = history[turn[c].action.seq]
  BY DEF Inv, Types, Turns, TurnInv
<1>2. turn[c].action.seq \in DOMAIN history
  <2>1. turn[c].action.seq \in Nat /\ turn[c].action.seq >= 1
    BY <1>1 DEF Submission, Seqs
  <2> QED BY <2>1, <1>1 DEF Inv, DiskInv, Types
<1> QED BY <1>1, <1>2 DEF CanFinalize

\* The file after a save of a turn: one revision on, and what it says is true.
Saved(d) == d \in State /\ d.rev = disk.rev + 1 /\ d.next = disk.next /\ Coherent(d, history)

LEMMA SavesKeep ==
  ASSUME Inv, NEW c \in Clients, turn[c] # NoTurn
  PROVE  /\ Saved([disk EXCEPT !.rev = @ + 1])
         /\ CanFinalize([disk EXCEPT !.rev = @ + 1], turn[c].action)
         /\ \A result \in Results : Saved(Finalized(disk, turn[c].action, result))
<1>1. /\ disk \in State /\ Coherent(disk, history) /\ history \in Seq(Submission)
      /\ CanFinalize(disk, turn[c].action) /\ Known(disk, turn[c].action.seq)
      /\ turn[c].action \in Submission
  BY Driver DEF Inv, DiskInv, Types
<1> DEFINE t == [disk EXCEPT !.rev = @ + 1]
<1>2. t \in State /\ t.rev = disk.rev + 1 /\ t.next = disk.next /\ t.recs = disk.recs
  BY <1>1 DEF State
<1> HIDE DEF t
<1>3. Saved(t)
  BY <1>1, <1>2 DEF Saved, Coherent
<1>4. CanFinalize(t, turn[c].action)
  BY <1>1, <1>2 DEF CanFinalize, Known, RecordOf, IndexOf
<1>5. \A result \in Results : Saved(Finalized(disk, turn[c].action, result))
  BY <1>1, FinalizedKeeps DEF Saved
<1> QED BY <1>3, <1>4, <1>5 DEF t

LEMMA AfterSave ==
  ASSUME Inv, Saved(disk'), history' = history
  PROVE  /\ DiskInv' /\ disk'.rev \in Nat
         /\ \A c \in Clients : /\ Coherent(snap[c], history')
                               /\ snap[c].rev < disk'.rev /\ snap[c].rev \in Nat
<1>1. disk.rev \in Nat /\ disk'.rev \in Nat /\ disk'.rev > disk.rev
  BY StateShape DEF Saved, Inv, Types
<1>2. DiskInv'
  BY DEF Inv, DiskInv, Saved
<1>3. Grows
  BY DEF Grows
<1> QED BY <1>1, <1>2, <1>3, SnapshotsAge, StateShape DEF Inv, Types

\* A save in the middle of a turn.
LEMMA DriveSaveKeeps ==
  ASSUME Inv, NEW c \in Clients, DriveSave(c)
  PROVE  Inv'
<1> DEFINE d == [disk EXCEPT !.rev = @ + 1]
           a == turn[c].action
<1>1. turn[c] # NoTurn
  BY DEF DriveSave, NoTurn
<1>2. /\ turn[c].cur = disk /\ lease = c /\ a \in Submission /\ a.seq = disk.next - 1
      /\ a = history[a.seq]
  BY <1>1, Driver
<1>3. Saved(d) /\ CanFinalize(d, a)
  BY <1>1, SavesKeep
<1>4. /\ disk' = d /\ turn' = [turn EXCEPT ![c].pc = "finish", ![c].cur = d]
      /\ UNCHANGED <<lease, snap, reply, history>>
  BY <1>2 DEF DriveSave
<1> HIDE DEF d
<1> DEFINE y == [turn[c] EXCEPT !.pc = "finish", !.cur = d]
<1>5. y \in Turns /\ y.cur = d /\ y.action = a
  <2>1. turn[c] \in [pc : {"drive", "finish"}, action : Submission, cur : State]
    BY <1>1 DEF Inv, Types, Turns
  <2> QED BY <2>1, <1>3 DEF Saved, Turns
<1>6. turn' = [turn EXCEPT ![c] = y] /\ turn' \in [Clients -> Turns]
  BY <1>4, <1>5 DEF Inv, Types
<1> HIDE DEF y
<1>7. Types'
  BY <1>3, <1>4, <1>6 DEF Inv, Types, Saved
<1>8. DiskInv' /\ SnapInv'
  BY <1>3, <1>4, AfterSave DEF SnapInv
<1>9. TurnInv'
  <2>1. turn'[c] = y /\ \A e \in Clients : e # c => turn'[e] = NoTurn
    BY <1>1, <1>6, OneDriver DEF Inv, Types
  <2> SUFFICES /\ lease' = c /\ y.cur = disk' /\ y.action.seq = disk'.next - 1
               /\ CanFinalize(disk', y.action) /\ y.action = history'[y.action.seq]
    BY <2>1 DEF TurnInv
  <2> QED BY <1>2, <1>3, <1>4, <1>5 DEF Saved
<1> QED BY <1>4, <1>7, <1>8, <1>9 DEF Inv, RepliesTruthful

\* The turn ends: its record is closed, and its client is told.
LEMMA FinishKeeps ==
  ASSUME Inv, NEW c \in Clients, Finish(c)
  PROVE  Inv'
<1> DEFINE a == turn[c].action
<1>1. turn[c] # NoTurn
  BY DEF Finish, NoTurn
<1>2. /\ turn[c].cur = disk /\ lease = c /\ a \in Submission
      /\ a.seq \in DOMAIN history /\ a = history[a.seq]
  BY <1>1, Driver
<1>3. PICK result \in Results :
        /\ disk' = Finalized(disk, a, result)
        /\ reply' = [reply EXCEPT ![c] = Told(result, a)]
  BY <1>2 DEF Finish
<1>4. Saved(disk')
  BY <1>1, <1>3, SavesKeep
<1>5. /\ lease' = NoClient /\ snap' = [snap EXCEPT ![c] = disk']
      /\ turn' = [turn EXCEPT ![c] = NoTurn] /\ history' = history
  BY DEF Finish, Released
<1>6. Types'
  BY <1>2, <1>3, <1>4, <1>5 DEF Inv, Types, Saved, Turns, Replies, Told, Results
<1>7. DiskInv'
  BY <1>4, <1>5, AfterSave
<1>8. SnapInv'
  <2>1. disk'.rev \in Nat /\ Coherent(disk', history')
    BY <1>4, <1>5, AfterSave DEF Saved
  <2> QED BY <2>1, <1>4, <1>5, AfterSave DEF SnapInv, Inv, Types
<1>9. TurnInv'
  BY <1>1, <1>5, OneDriver DEF TurnInv, Inv, Types
<1>10. RepliesTruthful'
  <2>1. \A e \in Clients : reply'[e] = IF e = c THEN Told(result, a) ELSE reply[e]
    BY <1>3 DEF Inv, Types
  <2> QED BY <2>1, <1>2, <1>5 DEF Inv, RepliesTruthful, Told
<1> QED BY <1>6, <1>7, <1>8, <1>9, <1>10 DEF Inv

\* A save of the turn fails, with or without having replaced the file.
LEMMA TurnSaveFailsKeeps ==
  ASSUME Inv, NEW c \in Clients, TurnSaveFails(c)
  PROVE  Inv'
<1> DEFINE a == turn[c].action
<1>1. turn[c] # NoTurn
  BY DEF TurnSaveFails, NoTurn
<1>2. turn[c].cur = disk /\ lease = c /\ a \in Submission
  BY <1>1, Driver
<1>3. /\ \/ disk' = disk
         \/ disk' = [disk EXCEPT !.rev = @ + 1]
         \/ \E result \in Results : disk' = Finalized(disk, a, result)
      /\ reply' = [reply EXCEPT ![c] = Told("failed", a)]
      /\ lease' = NoClient /\ turn' = [turn EXCEPT ![c] = NoTurn]
      /\ UNCHANGED <<snap, history>>
  BY <1>2 DEF TurnSaveFails, Released, Results
<1>4. disk' = disk \/ Saved(disk')
  BY <1>1, <1>3, SavesKeep
<1>5. Types'
  BY <1>2, <1>3, <1>4 DEF Inv, Types, Saved, Turns, Replies, Told
<1>6. DiskInv' /\ SnapInv'
  <2>1. CASE disk' = disk
    BY <2>1, <1>3 DEF Inv, DiskInv, SnapInv
  <2>2. CASE Saved(disk')
    BY <2>2, <1>3, AfterSave DEF SnapInv
  <2> QED BY <1>4, <2>1, <2>2
<1>7. TurnInv'
  BY <1>1, <1>3, OneDriver DEF TurnInv, Inv, Types
<1>8. RepliesTruthful'
  <2>1. \A e \in Clients : reply'[e] = IF e = c THEN Told("failed", a) ELSE reply[e]
    BY <1>3 DEF Inv, Types
  <2> QED BY <2>1, <1>3 DEF Inv, RepliesTruthful, Told
<1> QED BY <1>5, <1>6, <1>7, <1>8 DEF Inv

\* A death takes the turn and its lease away, and leaves the file.
LEMMA CrashKeeps ==
  ASSUME Inv, NEW c \in Clients, Crash(c)
  PROVE  Inv'
<1>1. /\ turn[c] # NoTurn /\ lease' = NoClient /\ turn' = [turn EXCEPT ![c] = NoTurn]
      /\ reply' = [reply EXCEPT ![c] = NoReply] /\ UNCHANGED <<disk, snap, history>>
  BY DEF Crash, Idle
<1>2. Types'
  BY <1>1 DEF Inv, Types, Turns, Replies
<1>3. DiskInv' /\ SnapInv'
  BY <1>1 DEF Inv, DiskInv, SnapInv
<1>4. TurnInv'
  BY <1>1, OneDriver DEF TurnInv, Inv, Types
<1>5. RepliesTruthful'
  <2>1. \A e \in Clients : reply'[e] = IF e = c THEN NoReply ELSE reply[e]
    BY <1>1 DEF Inv, Types
  <2> QED BY <2>1, <1>1 DEF Inv, RepliesTruthful, NoReply
<1> QED BY <1>2, <1>3, <1>4, <1>5 DEF Inv

-----------------------------------------------------------------------------
(* The theorems                                                            *)

LEMMA LedgerInvariant == Spec => []Inv
<1>1. Inv /\ [Next]_vars => Inv'
  <2> SUFFICES ASSUME Inv, [Next]_vars PROVE Inv'
    OBVIOUS
  <2>1. CASE UNCHANGED vars
    BY <2>1 DEF vars, Inv, Types, DiskInv, SnapInv, TurnInv, RepliesTruthful
  <2>2. ASSUME NEW c \in Clients, Load(c) \/ Submit(c) \/ Drive(c) \/ Crash(c) PROVE Inv'
    <3>1. CASE Load(c)
      BY <3>1, LoadKeeps
    <3>2. CASE Submit(c)
      <4>1. PICK a \in Submission, expected \in {snap[c].rev, 0} :
              \/ Busy(c, a) \/ Answer(c, a, expected) \/ AcceptConflicts(c, a, expected)
              \/ AcceptAndFinish(c, a, expected) \/ Accept(c, a, expected)
              \/ AcceptSaveFails(c, a, expected)
        BY <3>2 DEF Submit
      <4> QED BY <4>1, AnswerKeeps, AcceptAndFinishKeeps, AcceptKeeps, AcceptSaveFailsKeeps
    <3>3. CASE Drive(c)
      BY <3>3, DriveSaveKeeps, FinishKeeps, TurnSaveFailsKeeps DEF Drive
    <3>4. CASE Crash(c)
      BY <3>4, CrashKeeps
    <3> QED BY <2>2, <3>1, <3>2, <3>3, <3>4
  <2> QED BY <2>1, <2>2 DEF Next
<1> QED BY InitInv, <1>1, PTL DEF Spec

\* The shape of the file, of the snapshots and of the turns (contracts.py).
THEOREM LedgerTypes == Spec => []TypeOK
<1>1. Inv => TypeOK
  BY DEF Inv, Types, Turns, TypeOK, Idle, NoTurn
<1> QED BY LedgerInvariant, <1>1, PTL

\* Whoever races with whatever snapshot, each sequence number is accepted once
\* and in order (accept_action and compare_and_swap).
THEOREM AcceptedInOrder == Spec => []AcceptedOnce
<1>1. Inv => AcceptedOnce
  BY DEF Inv, DiskInv, Numbered, AcceptedOnce
<1> QED BY LedgerInvariant, <1>1, PTL

\* What a client was told of an action is true of the file: also after stale
\* snapshots, failed saves and deaths (the replay branch of accept_action).
THEOREM AnswersAreTrue == Spec => []RepliesTruthful
<1>1. Inv => RepliesTruthful
  BY DEF Inv
<1> QED BY LedgerInvariant, <1>1, PTL

\* Nobody gets in between the saves of a turn (the lease, and CAS beneath it).
THEOREM TurnsOwnTheFile == Spec => []TurnOwnsDisk
<1>1. Inv => TurnOwnsDisk
  BY DEF Inv, TurnInv, TurnOwnsDisk, Idle
<1> QED BY LedgerInvariant, <1>1, PTL
=============================================================================

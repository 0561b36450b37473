---------------------------- MODULE ReconcileProofs ----------------------------
(***************************************************************************)
(* Theorems about Reconcile, for any automations, wakes and bounds.        *)
(*                                                                         *)
(* The inductive invariant for wakes that overlap as well as for wakes     *)
(* that do not is Inv, with HistInv for the order of the history.  The     *)
(* parts of Inv, in the order of the argument: what a record looks like    *)
(* (RecordInv), that one claim at most is open (Unique), where wakes and   *)
(* runners can be (PlaceInv), what the checkpoint of an occurrence says of *)
(* its turns (TurnInv), and that whoever is about to run an occurrence     *)
(* finds it durably RUNNING or over (DurableInv).  When wakes do not       *)
(* overlap, SoloInv is inductive too: it says what the wake at work may    *)
(* rely on, and no such thing holds of two wakes (see the second half).    *)
(***************************************************************************)
EXTENDS Reconcile, FiniteSetTheorems, TLAPS

-----------------------------------------------------------------------------
(* The inductive invariant                                                 *)

Claims == {NoClaim} \cup [rev : 1..MaxRev, idx : 0..MaxOcc - 1]
Outcomes == [rev : 1..MaxRev, idx : 0..MaxOcc - 1, out : SafeOutcomes]
Purges == [todo : SUBSET Objects, busy : SUBSET Objects, stuck : BOOLEAN]
Records ==
  [status : Status, rev : 0..MaxRev, draft : 0..MaxRev, next : 0..MaxOcc,
   count : 0..MaxOcc, human : BOOLEAN, claim : Claims, phase : Phases,
   proc : Wakes \cup {"none"}, hist : Seq(Outcomes), purge : Purges]

Approved == {"ACTIVE", "PAUSED", "CANCEL_PENDING", "CANCELED"}
Open == {"ACTIVE", "PAUSED", "CANCEL_PENDING"}
Gone == {"PURGE_PENDING", "PURGED"}

\* The cursor and the count follow the claim, also across an update; a draft is
\* newer than what is approved.
CursorShape(r) ==
  /\ r.count <= r.next
  /\ r.draft # 0 => r.rev < r.draft
  /\ r.claim # NoClaim =>
       /\ r.count <= r.claim.idx
       /\ r.claim.rev <= r.rev
       /\ r.claim.rev = r.rev => r.claim.idx = r.next
       /\ r.claim.rev < r.rev => r.next = 0

StatusShape(r) ==
  /\ r.status \in Approved => r.rev # 0
  /\ r.status = "absent" => r.rev = 0
  /\ r.status \in Gone => r.draft = 0 /\ r.rev = 0 /\ r.hist = <<>>
  /\ r.claim # NoClaim <=> r.phase # "none"
  /\ r.claim # NoClaim => r.status \in Open
  /\ r.human => r.status = "PAUSED" /\ r.claim # NoClaim
  /\ Len(r.hist) <= HistoryCap

GoodRecord(r) == r \in Records /\ CursorShape(r) /\ StatusShape(r)
RecordInv == rec \in [Autos -> Records] /\ \A a \in Autos : GoodRecord(rec[a])

Unique == \A a, b \in Autos : Claimed(a) /\ Claimed(b) => a = b

Working == {"claim", "prepare", "initialize", "admit", "spawn", "permit",
            "execute", "wait", "recover", "rerun", "clean", "record"}
Places == Working \cup {"idle", "confirm"}
Notes == SafeOutcomes \cup {"none", "ok", "UNRESOLVED"}
Deletions ==
  [auto : Autos, rev : 0..MaxRev, idx : 0..MaxOcc - 1,
   kind : {"source", "workspace", "checkpoint"}]
Files == {"none", "fresh", "begun", "COMPLETED", "FAILED", "UNRESOLVED"}

RepoInv ==
  /\ now \in Nat
  /\ repo \in [src : [Autos -> {"none", "live", "cleaned"}],
               ws : [Occurrences -> {"none", "live", "captured", "cleaned"}],
               meta : [Occurrences -> {"none", "live", "cleaned"}]]

WakePlaces ==
  [pc : Places, occ : Occurrences \cup {NoOcc} \cup Deletions, out : Notes]
RunPlaces ==
  [pc : {"none", "start", "turn", "end"}, occ : Occurrences \cup {NoOcc}, out : Notes]
PlaceInv ==
  /\ wake \in [Wakes -> WakePlaces]
  /\ run \in [Wakes -> RunPlaces]
  /\ \A w \in Wakes :
       /\ wake[w].pc \in Working => Occ(w) \in Occurrences
       /\ run[w].pc # "none" => run[w].occ \in Occurrences

TurnInv ==
  /\ file \in [Occurrences -> Files]
  /\ turns \in [Occurrences -> Nat]
  /\ \A o \in Occurrences : turns[o] = IF file[o] \in {"none", "fresh"} THEN 0 ELSE 1
  /\ \A w \in Wakes : run[w].pc = "turn" => file[run[w].occ] \notin {"none", "fresh"}

\* An occurrence that cannot be claimed any more.
Spent(o) ==
  LET r == rec[o.auto]
  IN \/ r.status \in Gone
     \/ o.rev < r.rev
     \/ o.rev = r.rev /\ o.idx < r.next

Durable(o) ==
  IF Holds(o) THEN rec[o.auto].phase \in {"RUNNING", "UNRESOLVED"} ELSE Spent(o)

\* o is about to be run by w, or its runner is at work.
AtWork(w, o) ==
  \/ wake[w].pc \in {"execute", "recover"} /\ wake[w].occ = o
  \/ run[w].pc # "none" /\ run[w].occ = o
DurableInv == \A w \in Wakes, o \in Occurrences : AtWork(w, o) => Durable(o)

Inv == RecordInv /\ Unique /\ RepoInv /\ PlaceInv /\ TurnInv /\ DurableInv

-----------------------------------------------------------------------------
(* What a mutation may do to the record it works on                        *)

Ran == {"RUNNING", "UNRESOLVED"}

\* The history stays, goes with a purge, or is continued by a claim that is settled.
Entry(claim, out) == [rev |-> claim.rev, idx |-> claim.idx, out |-> out]
Continues(r, s) ==
  \/ s.hist \in {r.hist, <<>>}
  \/ /\ r.claim # NoClaim /\ s.claim = NoClaim
     /\ \E out \in SafeOutcomes : s.hist = Append(r.hist, Entry(r.claim, out))

\* A purge is not taken back, the cursor of a revision does not go back, and
\* the claim stays, is settled behind the cursor, or is made at the cursor when
\* there is no other.
Moves(r, s) ==
  /\ Continues(r, s)
  /\ r.status \in Gone => s.status \in Gone
  /\ s.status \in Gone \/ r.rev < s.rev \/ (r.rev = s.rev /\ r.next <= s.next)
  /\ \/ s.claim = r.claim /\ (r.phase \in Ran => s.phase \in Ran)
     \/ /\ s.claim = NoClaim
        /\ r.claim.rev < s.rev \/ (r.claim.rev = s.rev /\ r.claim.idx < s.next)
     \/ /\ NoClaims /\ r.claim = NoClaim /\ r.status = "ACTIVE"
        /\ s.claim = [rev |-> r.rev, idx |-> r.next]

Progress(a) ==
  \E s \in Records :
    /\ CursorShape(s) /\ StatusShape(s) /\ Moves(rec[a], s)
    /\ rec' = [rec EXCEPT ![a] = s]

\* Every mutation that makes such a move keeps the records in shape, and what is
\* durable stays so.
LEMMA ProgressKeeps ==
  ASSUME RecordInv, NEW a \in Autos, Progress(a)
  PROVE  /\ RecordInv'
         /\ Unique => Unique'
         /\ \A o \in Occurrences : Durable(o) => Durable(o)'
<1>1. PICK s \in Records : /\ CursorShape(s) /\ StatusShape(s) /\ Moves(rec[a], s)
                           /\ rec' = [rec EXCEPT ![a] = s]
  BY DEF Progress
<1>2. rec'[a] = s /\ \A b \in Autos : b # a => rec'[b] = rec[b]
  BY <1>1 DEF RecordInv
<1>3. RecordInv'
  BY <1>1, <1>2 DEF RecordInv, GoodRecord
<1>4. ASSUME NEW o \in Occurrences, Durable(o) PROVE Durable(o)'
  <2>1. CASE o.auto # a
    <3>1. o.auto \in Autos
      BY DEF Occurrences
    <3>2. rec'[o.auto] = rec[o.auto]
      BY <1>2, <2>1, <3>1
    <3> QED BY <1>4, <3>2 DEF Durable, Holds, Spent
  <2>2. CASE o.auto = a
    <3> DEFINE r == rec[a]
    <3>1. r \in Records /\ CursorShape(r) /\ StatusShape(r)
      BY DEF RecordInv, GoodRecord
    <3>2. o.rev \in Nat \ {0} /\ o.idx \in Nat
      BY DEF Occurrences
    <3>3. /\ Durable(o) <=> IF r.claim = [rev |-> o.rev, idx |-> o.idx]
                             THEN r.phase \in Ran
                             ELSE \/ r.status \in Gone
                                  \/ o.rev < r.rev
                                  \/ o.rev = r.rev /\ o.idx < r.next
      BY <2>2 DEF Durable, Holds, Spent, Ran
    <3>4. /\ Durable(o)' <=> IF s.claim = [rev |-> o.rev, idx |-> o.idx]
                             THEN s.phase \in Ran
                             ELSE \/ s.status \in Gone
                                  \/ o.rev < s.rev
                                  \/ o.rev = s.rev /\ o.idx < s.next
      BY <2>2, <1>2 DEF Durable, Holds, Spent, Ran
    <3>5. Moves(r, s)
      BY <1>1
    <3> HIDE DEF r
    <3>6. r.rev \in Nat /\ r.next \in Nat /\ s.rev \in Nat /\ s.next \in Nat
      BY <1>1, <3>1 DEF Records
    <3>7. CASE s.claim = r.claim /\ (r.phase \in Ran => s.phase \in Ran)
      BY <1>4, <3>3, <3>4, <3>5, <3>6, <3>7, <3>2 DEF Moves
    <3>8. CASE /\ s.claim = NoClaim
               /\ r.claim.rev < s.rev \/ (r.claim.rev = s.rev /\ r.claim.idx < s.next)
      <4>1. s.claim # [rev |-> o.rev, idx |-> o.idx]
        BY <3>8, <3>2 DEF NoClaim
      <4>2. CASE r.claim = [rev |-> o.rev, idx |-> o.idx]
        BY <4>1, <4>2, <3>8, <3>4
      <4>3. CASE r.claim # [rev |-> o.rev, idx |-> o.idx]
        BY <4>1, <4>3, <1>4, <3>2, <3>3, <3>4, <3>5, <3>6 DEF Moves
      <4> QED BY <4>2, <4>3
    <3>9. CASE /\ NoClaims /\ r.claim = NoClaim /\ r.status = "ACTIVE"
               /\ s.claim = [rev |-> r.rev, idx |-> r.next]
      <4>1. r.claim # [rev |-> o.rev, idx |-> o.idx]
        BY <3>9, <3>2 DEF NoClaim
      <4>2. o.rev < r.rev \/ (o.rev = r.rev /\ o.idx < r.next)
        BY <4>1, <1>4, <3>3, <3>9 DEF Gone
      <4>3. s.claim # [rev |-> o.rev, idx |-> o.idx]
        BY <4>2, <3>9, <3>2, <3>6
      <4> QED BY <4>2, <4>3, <3>2, <3>4, <3>5, <3>6 DEF Moves
    <3> QED BY <3>5, <3>7, <3>8, <3>9 DEF Moves
  <2> QED BY <2>1, <2>2
<1>5. ASSUME Unique PROVE Unique'
  <2>1. Claimed(a)' => Claimed(a) \/ NoClaims
    BY <1>1, <1>2 DEF Moves, Claimed
  <2>2. \A b \in Autos : b # a => (Claimed(b)' <=> Claimed(b))
    BY <1>2 DEF Claimed
  <2> QED BY <1>5, <2>1, <2>2 DEF Unique, NoClaims
<1> QED BY <1>3, <1>4, <1>5

-----------------------------------------------------------------------------
(* What changing one or a few fields of a record keeps                     *)

SameCursor(r, s) ==
  /\ s.rev = r.rev /\ s.draft = r.draft /\ s.next = r.next /\ s.count = r.count
  /\ s.claim = r.claim /\ s.hist = r.hist

LEMMA Restatused ==
  ASSUME NEW r \in Records, NEW st \in Status, NEW s, s = [r EXCEPT !.status = st]
  PROVE  /\ s \in Records /\ SameCursor(r, s)
         /\ s.status = st /\ s.phase = r.phase /\ s.human = r.human
<1>1. s \in Records
  BY DEF Records
<1>2. SameCursor(r, s) /\ s.status = st /\ s.phase = r.phase /\ s.human = r.human
  BY DEF Records, SameCursor
<1> QED BY <1>1, <1>2

WithPhase(r, ph, pr) == [r EXCEPT !.phase = ph, !.proc = pr]

LEMMA Rephased ==
  ASSUME NEW r \in Records, NEW ph \in Phases, NEW pr \in Wakes \cup {"none"},
         NEW s, s = WithPhase(r, ph, pr)
  PROVE  /\ s \in Records /\ SameCursor(r, s)
         /\ s.phase = ph /\ s.status = r.status /\ s.human = r.human
<1>1. s \in Records
  BY DEF Records, WithPhase
<1>2. SameCursor(r, s) /\ s.phase = ph /\ s.status = r.status /\ s.human = r.human
  BY DEF Records, WithPhase, SameCursor
<1> QED BY <1>1, <1>2

LEMMA HeldCursor ==
  ASSUME NEW r \in Records, NEW s \in Records, SameCursor(r, s), CursorShape(r)
  PROVE  CursorShape(s)
BY DEF SameCursor, CursorShape

\* A new status of a record in a status a user can change it from.
LEMMA StatusMoves ==
  ASSUME NEW r \in Records, NEW st \in Approved, NEW s, CursorShape(r), StatusShape(r),
         s = [r EXCEPT !.status = st], r.status \in Approved,
         r.claim # NoClaim => st \in Open,
         r.human => st = "PAUSED"
  PROVE  s \in Records /\ CursorShape(s) /\ StatusShape(s) /\ Moves(r, s)
<1>1. st \in Status
  BY DEF Approved, Status
<1>2. /\ s \in Records /\ SameCursor(r, s)
      /\ s.status = st /\ s.phase = r.phase /\ s.human = r.human
  BY <1>1, Restatused
<1>3. CursorShape(s)
  BY <1>2, HeldCursor
<1>4. StatusShape(s)
  BY <1>2 DEF SameCursor, StatusShape, Approved, Gone
<1>5. r.rev \in Nat /\ r.next \in Nat
  BY DEF Records
<1>6. Moves(r, s)
  BY <1>2, <1>5 DEF SameCursor, Moves, Continues, Approved, Gone
<1> QED BY <1>2, <1>3, <1>4, <1>6

LEMMA PhaseMoves ==
  ASSUME NEW r \in Records, NEW ph \in Phases, NEW pr \in Wakes \cup {"none"}, NEW s,
         CursorShape(r), StatusShape(r), s = WithPhase(r, ph, pr),
         r.claim # NoClaim, ph # "none", r.phase \notin Ran
  PROVE  s \in Records /\ CursorShape(s) /\ StatusShape(s) /\ Moves(r, s)
<1>1. /\ s \in Records /\ SameCursor(r, s)
      /\ s.phase = ph /\ s.status = r.status /\ s.human = r.human
  BY Rephased
<1>2. CursorShape(s)
  BY <1>1, HeldCursor
<1>3. StatusShape(s)
  BY <1>1 DEF SameCursor, StatusShape
<1>4. r.rev \in Nat /\ r.next \in Nat
  BY DEF Records
<1>5. Moves(r, s)
  BY <1>1, <1>4 DEF SameCursor, Moves, Continues
<1> QED BY <1>1, <1>2, <1>3, <1>5

-----------------------------------------------------------------------------
(* Every mutation of a record is such a move                               *)

LEMMA AbsentShape == GoodRecord(Absent)
<1>1. 0 \in 0..MaxRev /\ 0 \in 0..MaxOcc
  BY AutomationAssumption
<1>2. NoPurge \in Purges
  BY DEF NoPurge, Purges
<1>3. <<>> \in Seq(Outcomes) /\ Len(<<>>) = 0
  OBVIOUS
<1>4. Absent \in Records
  BY <1>1, <1>2, <1>3 DEF Absent, Records, Claims, Status, Phases
<1>5. CursorShape(Absent) /\ StatusShape(Absent)
  BY <1>3, AutomationAssumption DEF Absent, CursorShape, StatusShape, Approved, Open, Gone
<1> QED BY <1>4, <1>5 DEF GoodRecord

LEMMA UserMoves ==
  ASSUME RecordInv, NEW a \in Autos, UserMutation(a)
  PROVE  Progress(a)
<1> USE AutomationAssumption
<1> DEFINE r == rec[a]
<1>1. r \in Records /\ CursorShape(r) /\ StatusShape(r)
  BY DEF RecordInv, GoodRecord
<1>2. rec \in [Autos -> Records]
  BY DEF RecordInv
<1>3. CASE CreateProposal(a)
  <2> DEFINE s == [r EXCEPT !.status = "PROPOSAL", !.draft = 1]
  <2>1. rec' = [rec EXCEPT ![a] = s]
    BY <1>2, <1>3 DEF CreateProposal
  <2>2. 1 \in 0..MaxRev
    OBVIOUS
  <2>3. s \in Records
    BY <1>1, <2>2 DEF Records, Status
  <2>4. /\ s.draft = 1 /\ s.rev = r.rev /\ s.next = r.next /\ s.count = r.count
        /\ s.claim = r.claim /\ s.phase = r.phase /\ s.status = "PROPOSAL"
        /\ s.human = r.human /\ s.hist = r.hist
    BY <1>1 DEF Records
  <2>5. r.status = "absent"
    BY <1>3 DEF CreateProposal
  <2>6. r.rev = 0 /\ r.claim = NoClaim /\ ~r.human /\ r.next \in Nat
    BY <1>1, <2>5 DEF StatusShape, Open, Records
  <2> HIDE DEF s
  <2>7. CursorShape(s)
    BY <1>1, <2>4, <2>6 DEF CursorShape
  <2>8. StatusShape(s)
    BY <1>1, <2>4, <2>6 DEF StatusShape, Approved, Gone
  <2>9. Moves(r, s)
    BY <2>4, <2>5, <2>6 DEF Moves, Continues, Gone
  <2> QED BY <2>1, <2>3, <2>7, <2>8, <2>9 DEF Progress
<1>4. CASE StageRevision(a)
  <2> DEFINE newest == IF r.draft > r.rev THEN r.draft ELSE r.rev
             s == [r EXCEPT !.draft = newest + 1]
  <2>1. rec' = [rec EXCEPT ![a] = s]
    BY <1>2, <1>4 DEF StageRevision
  <2>2. newest \in Nat /\ r.rev <= newest /\ newest + 1 \in 0..MaxRev
    <3>1. r.draft \in Nat /\ r.rev \in Nat
      BY <1>1 DEF Records
    <3>2. newest < MaxRev
      BY <1>4 DEF StageRevision
    <3> QED BY <3>1, <3>2
  <2> HIDE DEF newest
  <2>3. s \in Records
    BY <1>1, <2>2 DEF Records
  <2>4. /\ s.draft = newest + 1 /\ s.rev = r.rev /\ s.next = r.next /\ s.count = r.count
        /\ s.claim = r.claim /\ s.phase = r.phase /\ s.status = r.status
        /\ s.human = r.human /\ s.hist = r.hist
    BY <1>1 DEF Records
  <2>5. r.rev # 0 /\ r.status \notin Gone /\ r.rev \in Nat /\ r.next \in Nat
    BY <1>1, <1>4 DEF StageRevision, Gone, Records
  <2> HIDE DEF s
  <2>6. CursorShape(s)
    BY <1>1, <2>2, <2>4, <2>5 DEF CursorShape
  <2>7. StatusShape(s)
    BY <1>1, <2>4, <2>5 DEF StatusShape, Approved
  <2>8. Moves(r, s)
    BY <2>4, <2>5 DEF Moves, Continues
  <2> QED BY <2>1, <2>3, <2>6, <2>7, <2>8 DEF Progress
<1>5. CASE ApproveRevision(a)
  <2> DEFINE s == [r EXCEPT !.rev = r.draft, !.draft = 0, !.next = 0, !.count = 0,
                      !.status = IF r.status \in {"PAUSED", "CANCEL_PENDING"}
                                   THEN r.status ELSE "ACTIVE"]
  <2>1. rec' = [rec EXCEPT ![a] = s]
    BY <1>2, <1>5 DEF ApproveRevision
  <2>2. s \in Records
    <3>1. 0 \in 0..MaxRev /\ 0 \in 0..MaxOcc
      OBVIOUS
    <3>2. (IF r.status \in {"PAUSED", "CANCEL_PENDING"} THEN r.status ELSE "ACTIVE") \in Status
      BY DEF Status
    <3> QED BY <1>1, <3>1, <3>2 DEF Records
  <2> DEFINE st == IF r.status \in {"PAUSED", "CANCEL_PENDING"} THEN r.status ELSE "ACTIVE"
  <2>3. /\ s.draft = 0 /\ s.rev = r.draft /\ s.next = 0 /\ s.count = 0
        /\ s.claim = r.claim /\ s.phase = r.phase /\ s.status = st
        /\ s.human = r.human /\ s.hist = r.hist
    BY <1>1 DEF Records
  <2>4. r.draft # 0
    BY <1>5 DEF ApproveRevision
  <2>5. r.rev \in Nat /\ r.draft \in Nat /\ r.rev < r.draft
    BY <1>1, <2>4 DEF Records, CursorShape
  <2>6. r.claim # NoClaim => r.claim.idx \in Nat /\ r.claim.rev \in Nat /\ r.claim.rev <= r.rev
    BY <1>1 DEF Records, Claims, CursorShape
  <2>7. st \in Open /\ (r.human => st = "PAUSED") /\ r.status \notin Gone
    BY <1>1, <2>4 DEF StatusShape, Open, Gone
  <2> HIDE DEF s, st
  <2>8. CursorShape(s)
    BY <2>3, <2>5, <2>6 DEF CursorShape
  <2>9. StatusShape(s)
    BY <1>1, <2>3, <2>4, <2>7 DEF StatusShape, Approved, Gone, Open
  <2>10. Moves(r, s)
    BY <2>3, <2>5, <2>7 DEF Moves, Continues
  <2> QED BY <2>1, <2>2, <2>8, <2>9, <2>10 DEF Progress
<1>6. CASE PauseAutomation(a)
  <2> DEFINE s == [r EXCEPT !.status = "PAUSED"]
  <2>1. rec' = [rec EXCEPT ![a] = s]
    BY <1>2, <1>6 DEF PauseAutomation
  <2>2. r.status = "ACTIVE" /\ "PAUSED" \in Approved /\ "PAUSED" \in Open
    BY <1>6 DEF PauseAutomation, Approved, Open
  <2> HIDE DEF s
  <2>3. s = [r EXCEPT !.status = "PAUSED"]
    BY DEF s
  <2>4. s \in Records /\ CursorShape(s) /\ StatusShape(s) /\ Moves(r, s)
    BY <1>1, <2>2, <2>3, StatusMoves DEF Approved
  <2> QED BY <2>1, <2>4 DEF Progress
<1>7. CASE ResumeAutomation(a)
  <2> DEFINE s == [r EXCEPT !.status = "ACTIVE"]
  <2>1. rec' = [rec EXCEPT ![a] = s]
    BY <1>2, <1>7 DEF ResumeAutomation
  <2>2. r.status = "PAUSED" /\ r.claim = NoClaim /\ ~r.human
    BY <1>7 DEF ResumeAutomation, Claimed
  <2>3. r.status \in Approved /\ "ACTIVE" \in Approved
    BY <2>2 DEF Approved
  <2> HIDE DEF s
  <2>4. s = [r EXCEPT !.status = "ACTIVE"]
    BY DEF s
  <2>5. s \in Records /\ CursorShape(s) /\ StatusShape(s) /\ Moves(r, s)
    BY <1>1, <2>2, <2>3, <2>4, StatusMoves
  <2> QED BY <2>1, <2>5 DEF Progress
<1>8. CASE CancelAutomation(a)
  <2> DEFINE s == [r EXCEPT !.status = IF Claimed(a) THEN "CANCEL_PENDING" ELSE "CANCELED"]
  <2>1. rec' = [rec EXCEPT ![a] = s]
    BY <1>2, <1>8 DEF CancelAutomation
  <2> DEFINE st == IF Claimed(a) THEN "CANCEL_PENDING" ELSE "CANCELED"
  <2>2. r.status \in {"ACTIVE", "PAUSED", "CANCEL_PENDING"} /\ ~r.human
    BY <1>8 DEF CancelAutomation
  <2>3. r.status \in Approved
    BY <2>2 DEF Approved
  <2>4. st \in Approved
    BY DEF Approved
  <2>5. r.claim # NoClaim => st \in Open
    BY DEF Claimed, Open
  <2>6. s = [r EXCEPT !.status = st]
    OBVIOUS
  <2> HIDE DEF s, st
  <2>7. s \in Records /\ CursorShape(s) /\ StatusShape(s) /\ Moves(r, s)
    BY <1>1, <2>2, <2>3, <2>4, <2>5, <2>6, StatusMoves
  <2> QED BY <2>1, <2>7 DEF Progress
<1>9. CASE BeginPurge(a)
  <2> DEFINE s == [Absent EXCEPT !.status = "PURGE_PENDING", !.next = r.next,
                                 !.count = r.count, !.purge.todo = Owned(a)]
  <2>1. rec' = [rec EXCEPT ![a] = s]
    BY <1>9 DEF BeginPurge
  <2>2. Owned(a) \in SUBSET Objects
    BY DEF Owned
  <2>3. s \in Records
    BY <1>1, <2>2, AbsentShape DEF GoodRecord, Records, Status, Purges
  <2>4. /\ s.status = "PURGE_PENDING" /\ s.rev = 0 /\ s.draft = 0 /\ s.claim = NoClaim
        /\ s.next = r.next /\ s.count = r.count /\ s.phase = "none" /\ s.human = FALSE
        /\ s.hist = <<>>
    BY AbsentShape DEF GoodRecord, Records, Absent
  <2> HIDE DEF s
  <2>5. CursorShape(s) /\ StatusShape(s)
    BY <2>4, <1>1 DEF Records, CursorShape, StatusShape, Gone, Approved
  <2>6. Moves(r, s)
    BY <2>4, <1>1, <1>9 DEF BeginPurge, Claimed, Moves, Continues, Gone, StatusShape, Ran
  <2> QED BY <2>1, <2>3, <2>5, <2>6 DEF Progress
<1> QED BY <1>3, <1>4, <1>5, <1>6, <1>7, <1>8, <1>9 DEF UserMutation

LEMMA ClaimMoves ==
  ASSUME RecordInv, NEW o \in Occurrences, MayClaim(o), ClaimIt(o)
  PROVE  Progress(o.auto)
<1> DEFINE r == rec[o.auto]
           s == [r EXCEPT !.claim = [rev |-> o.rev, idx |-> o.idx], !.phase = "CLAIMED"]
<1>1. /\ o.auto \in Autos /\ o.rev \in 1..MaxRev /\ o.idx \in 0..MaxOcc - 1
  BY DEF Occurrences
<1>2. r \in Records /\ CursorShape(r) /\ StatusShape(r) /\ rec \in [Autos -> Records]
  BY <1>1 DEF RecordInv, GoodRecord
<1>3. r.status = "ACTIVE" /\ r.claim = NoClaim /\ o.rev = r.rev /\ o.idx = r.next
  BY <1>1 DEF MayClaim, Forbid, Claimed, AtCursor
<1>4. rec' = [rec EXCEPT ![o.auto] = s] /\ NoClaims
  BY <1>2 DEF ClaimIt, MayClaim, Forbid, NoClaims
<1>5. [rev |-> o.rev, idx |-> o.idx] \in Claims /\ [rev |-> o.rev, idx |-> o.idx] # NoClaim
  BY <1>1 DEF Claims, NoClaim
<1>6. s \in Records
  BY <1>2, <1>5 DEF Records, Phases
<1>7. /\ s.claim = [rev |-> o.rev, idx |-> o.idx] /\ s.phase = "CLAIMED"
      /\ s.rev = r.rev /\ s.draft = r.draft /\ s.next = r.next /\ s.count = r.count
      /\ s.status = r.status /\ s.human = r.human /\ s.hist = r.hist
  BY <1>2 DEF Records
<1>8. r.rev \in Nat /\ r.next \in Nat /\ r.count \in Nat
  BY <1>2 DEF Records
<1> HIDE DEF s
<1>9. CursorShape(s)
  BY <1>2, <1>3, <1>7, <1>8 DEF CursorShape
<1>10. ~r.human
  BY <1>2, <1>3 DEF StatusShape
<1>11. StatusShape(s)
  BY <1>2, <1>3, <1>5, <1>7, <1>10 DEF StatusShape, Open
<1>12. Moves(r, s)
  BY <1>3, <1>4, <1>7, <1>8 DEF Moves, Continues, Gone
<1> QED BY <1>4, <1>6, <1>9, <1>11, <1>12 DEF Progress

LEMMA StartMoves ==
  ASSUME RecordInv, NEW o \in Occurrences, NEW w \in Wakes,
         (MayDispatch(o) /\ DispatchIt(o, w)) \/ (MayRun(o, w) /\ RunIt(o))
  PROVE  Progress(o.auto)
<1> DEFINE r == rec[o.auto]
<1>1. /\ o.auto \in Autos /\ o.rev \in 1..MaxRev
  BY DEF Occurrences
<1>2. r \in Records /\ CursorShape(r) /\ StatusShape(r) /\ rec \in [Autos -> Records]
  BY <1>1 DEF RecordInv, GoodRecord
<1>3. r.claim # NoClaim
  BY <1>1 DEF MayDispatch, MayRun, Holds, NoClaim
<1>4. CASE MayDispatch(o) /\ DispatchIt(o, w)
  <2> DEFINE s == [r EXCEPT !.phase = "DISPATCHED", !.proc = w]
  <2>1. rec' = [rec EXCEPT ![o.auto] = s]
    BY <1>2, <1>4 DEF DispatchIt
  <2>2. r.phase \notin Ran /\ "DISPATCHED" \in Phases
    BY <1>4 DEF MayDispatch, Ran, Phases
  <2> HIDE DEF s
  <2>3. s = WithPhase(r, "DISPATCHED", w)
    BY DEF s, WithPhase
  <2>4. s \in Records /\ CursorShape(s) /\ StatusShape(s) /\ Moves(r, s)
    BY <1>2, <1>3, <2>2, <2>3, PhaseMoves
  <2> QED BY <2>1, <2>4 DEF Progress
<1>5. CASE MayRun(o, w) /\ RunIt(o)
  <2> DEFINE s == [r EXCEPT !.phase = "RUNNING"]
  <2>1. rec' = [rec EXCEPT ![o.auto] = s]
    BY <1>2, <1>5 DEF RunIt
  <2>2. r.phase \notin Ran /\ "RUNNING" \in Phases /\ r.proc \in Wakes \cup {"none"}
    BY <1>2, <1>5 DEF MayRun, Ran, Phases, Records
  <2>3. s = WithPhase(r, "RUNNING", r.proc)
    BY <1>2 DEF Records, WithPhase
  <2> HIDE DEF s
  <2>4. s \in Records /\ CursorShape(s) /\ StatusShape(s) /\ Moves(r, s)
    BY <1>2, <1>3, <2>2, <2>3, PhaseMoves
  <2> QED BY <2>1, <2>4 DEF Progress
<1> QED BY <1>4, <1>5

LEMMA RecordMoves ==
  ASSUME RecordInv, NEW o \in Occurrences, NEW out, MayRecord(o, out), RecordIt(o, out)
  PROVE  Progress(o.auto) /\ (out # "UNRESOLVED" => rec'[o.auto].claim = NoClaim)
<1> DEFINE r == rec[o.auto]
           s == Recorded(r, out)
<1>1. /\ o.auto \in Autos /\ o.rev \in 1..MaxRev /\ o.idx \in 0..MaxOcc - 1
  BY DEF Occurrences
<1>2. r \in Records /\ CursorShape(r) /\ StatusShape(r) /\ rec \in [Autos -> Records]
  BY <1>1 DEF RecordInv, GoodRecord
<1>3. r.claim = [rev |-> o.rev, idx |-> o.idx] /\ r.claim # NoClaim
  BY <1>1 DEF MayRecord, Holds, NoClaim
<1>4. r.status \in Open
  BY <1>2, <1>3 DEF StatusShape
<1>5. rec' = [rec EXCEPT ![o.auto] = s]
  BY <1>2 DEF RecordIt
<1>6. CASE out = "UNRESOLVED"
  <2>1. s = [r EXCEPT !.status = "PAUSED", !.human = TRUE, !.phase = "UNRESOLVED"]
    BY <1>6 DEF Recorded
  <2> HIDE DEF s
  <2>2. "UNRESOLVED" \in Phases /\ "UNRESOLVED" \in Ran /\ "PAUSED" \in Status
    BY DEF Phases, Ran, Status
  <2>3. s \in Records
    BY <1>2, <2>1, <2>2 DEF Records
  <2>4. SameCursor(r, s) /\ s.status = "PAUSED" /\ s.human = TRUE /\ s.phase = "UNRESOLVED"
    BY <1>2, <2>1 DEF Records, SameCursor
  <2>5. CursorShape(s)
    BY <1>2, <2>3, <2>4, HeldCursor
  <2>6. r.status \in Approved /\ r.status \notin Gone
    BY <1>4 DEF Open, Approved, Gone
  <2>7. StatusShape(s)
    BY <1>2, <1>3, <2>4, <2>6 DEF SameCursor, StatusShape, Open, Gone, Approved
  <2>8. r.rev \in Nat /\ r.next \in Nat
    BY <1>2 DEF Records
  <2>9. Moves(r, s)
    BY <2>2, <2>4, <2>6, <2>8 DEF SameCursor, Moves, Continues
  <2> QED BY <1>5, <1>6, <2>3, <2>5, <2>7, <2>9 DEF Progress
<1>7. CASE out # "UNRESOLVED"
  <2> DEFINE st == CASE r.status = "CANCEL_PENDING" -> "CANCELED"
                     [] r.status = "PAUSED" -> "PAUSED"
                     [] OTHER -> "ACTIVE"
             entry == [rev |-> r.claim.rev, idx |-> r.claim.idx, out |-> out]
             t == Settled(r)
  <2>1. t = [r EXCEPT !.claim = NoClaim, !.phase = "none", !.proc = "none"]
    BY DEF Settled
  <2>2. st \in {"CANCELED", "PAUSED", "ACTIVE"}
    OBVIOUS
  <2>3. out \in SafeOutcomes /\ Len(r.hist) < HistoryCap
    BY <1>7 DEF MayRecord, SafeFrom, SafeOutcomes
  <2>4. entry \in Outcomes
    BY <1>1, <1>3, <2>3 DEF Outcomes
  <2>5. t \in Records /\ t.hist = r.hist /\ t.count = r.count
    <3>1. NoClaim \in Claims /\ "none" \in Phases
      BY DEF Claims, Phases
    <3> HIDE DEF t
    <3>2. t \in Records
      BY <1>2, <2>1, <3>1 DEF Records
    <3>3. t.hist = r.hist /\ t.count = r.count
      BY <1>2, <2>1 DEF Records
    <3> QED BY <3>2, <3>3
  <2>6. s = [t EXCEPT !.status = st, !.next = r.claim.idx + 1, !.count = r.count + 1,
                      !.human = FALSE, !.hist = Append(r.hist, entry)]
    BY <1>7, <2>5 DEF Recorded, NextSlot
  <2> HIDE DEF s, t, st, entry
  <2>7. /\ r.hist \in Seq(Outcomes) /\ Append(r.hist, entry) \in Seq(Outcomes)
        /\ Len(Append(r.hist, entry)) = Len(r.hist) + 1 /\ Len(r.hist) \in Nat
    BY <1>2, <2>4 DEF Records
  <2>8. r.claim.idx + 1 \in 0..MaxOcc /\ r.count + 1 \in 0..MaxOcc
    <3>1. r.claim.idx \in 0..MaxOcc - 1 /\ r.count \in Nat
      BY <1>1, <1>2, <1>3 DEF Records
    <3>2. r.count <= r.claim.idx
      BY <1>2, <1>3 DEF CursorShape
    <3> QED BY <3>1, <3>2, AutomationAssumption
  <2>9. s \in Records
    BY <2>2, <2>5, <2>6, <2>7, <2>8 DEF Records, Status
  <2>10. /\ s.status = st /\ s.next = r.claim.idx + 1 /\ s.count = r.count + 1
         /\ s.human = FALSE /\ s.hist = Append(r.hist, entry) /\ s.claim = NoClaim
         /\ s.phase = "none" /\ s.rev = r.rev /\ s.draft = r.draft
    <3>1. t.claim = NoClaim /\ t.phase = "none" /\ t.rev = r.rev /\ t.draft = r.draft
      BY <1>2, <2>1 DEF Records
    <3>2. /\ s.status = st /\ s.next = r.claim.idx + 1 /\ s.count = r.count + 1
          /\ s.human = FALSE /\ s.hist = Append(r.hist, entry)
      BY <2>5, <2>6 DEF Records
    <3>3. s.claim = t.claim /\ s.phase = t.phase /\ s.rev = t.rev /\ s.draft = t.draft
      BY <2>5, <2>6 DEF Records
    <3> QED BY <3>1, <3>2, <3>3
  <2> DEFINE c == r.claim
  <2>11. c.idx \in Nat /\ r.rev \in Nat /\ r.next \in Nat /\ r.count \in Nat /\ c.rev \in Nat
    BY <1>1, <1>2, <1>3 DEF Records
  <2>12. /\ r.count <= c.idx /\ c.rev <= r.rev
         /\ c.rev = r.rev => c.idx = r.next
         /\ c.rev < r.rev => r.next = 0
    BY <1>2, <1>3 DEF CursorShape
  <2>13. CursorShape(s)
    <3>1. s.draft # 0 => s.rev < s.draft
      BY <1>2, <2>10 DEF CursorShape
    <3>2. s.count <= s.next
      <4> HIDE DEF c, r
      <4> QED BY <2>10, <2>11, <2>12 DEF c
    <3> QED BY <2>10, <3>1, <3>2 DEF CursorShape
  <2>14. r.status \in Approved /\ r.status \notin Gone /\ st \in Approved /\ st \notin Gone
    BY <1>4, <2>2 DEF Open, Approved, Gone
  <2>15. StatusShape(s)
    <3>1. r.rev # 0
      BY <1>2, <2>14 DEF StatusShape
    <3>2. Len(s.hist) <= HistoryCap
      <4> HIDE DEF r
      <4> QED BY <2>3, <2>7, <2>10, AutomationAssumption
    <3> HIDE DEF r
    <3> QED BY <2>10, <2>14, <3>1, <3>2 DEF StatusShape, Approved
  <2>16. /\ s.claim = NoClaim
         /\ r.claim.rev < s.rev \/ (r.claim.rev = s.rev /\ r.claim.idx < s.next)
         /\ s.rev = r.rev /\ r.next <= s.next
    <3> HIDE DEF c
    <3>1. c.rev < s.rev \/ (c.rev = s.rev /\ c.idx < s.next)
      BY <2>10, <2>11, <2>12 DEF c
    <3>2. r.next <= s.next
      BY <2>10, <2>11, <2>12 DEF c
    <3> QED BY <2>10, <3>1, <3>2 DEF c
  <2>17. Moves(r, s)
    <3>1. s.hist = Append(r.hist, Entry(r.claim, out))
      BY <2>10 DEF Entry, entry
    <3> HIDE DEF c, r
    <3>2. Continues(r, s)
      BY <1>3, <2>3, <2>16, <3>1 DEF Continues
    <3> QED BY <2>14, <2>16, <3>2 DEF Moves
  <2>18. Progress(o.auto)
    BY <1>5, <2>9, <2>13, <2>15, <2>17 DEF Progress
  <2>19. rec'[o.auto].claim = NoClaim
    BY <1>1, <1>2, <1>5, <2>16
  <2> QED BY <2>18, <2>19
<1> QED BY <1>6, <1>7

LEMMA PurgeMoves ==
  ASSUME RecordInv, NEW a \in Autos, NEW x, NEW cleaned \in BOOLEAN,
         \/ MayStartPurge(a, x) /\ StartPurgeIt(a, x)
         \/ MayProgress(a, x) /\ ProgressIt(a, x, cleaned)
         \/ MayFinishPurge(a) /\ FinishPurgeIt(a)
  PROVE  Progress(a)
<1> DEFINE r == rec[a]
<1>1. r \in Records /\ CursorShape(r) /\ StatusShape(r) /\ rec \in [Autos -> Records]
  BY DEF RecordInv, GoodRecord
<1>2. r.status = "PURGE_PENDING"
  BY DEF MayStartPurge, MayProgress, MayFinishPurge
<1>3. CASE MayFinishPurge(a) /\ FinishPurgeIt(a)
  <2> DEFINE s == [Absent EXCEPT !.status = "PURGED"]
  <2>1. rec' = [rec EXCEPT ![a] = s]
    BY <1>3 DEF FinishPurgeIt
  <2>2. s \in Records
    BY AbsentShape DEF GoodRecord, Records, Status
  <2>3. /\ s.status = "PURGED" /\ s.rev = 0 /\ s.draft = 0 /\ s.claim = NoClaim
        /\ s.next = 0 /\ s.count = 0 /\ s.phase = "none" /\ s.human = FALSE
        /\ s.hist = <<>>
    BY AbsentShape DEF GoodRecord, Records, Absent
  <2> HIDE DEF s
  <2>4. CursorShape(s) /\ StatusShape(s)
    BY <2>3, AutomationAssumption DEF CursorShape, StatusShape, Gone, Approved
  <2>5. Moves(r, s)
    BY <1>1, <1>2, <2>3 DEF Moves, Continues, StatusShape, Gone, Open, Ran
  <2> QED BY <2>1, <2>2, <2>4, <2>5 DEF Progress
<1>4. ASSUME NEW p \in Purges, rec' = [rec EXCEPT ![a] = [r EXCEPT !.purge = p]]
      PROVE  Progress(a)
  <2> DEFINE s == [r EXCEPT !.purge = p]
  <2>1. s \in Records
    BY <1>1 DEF Records
  <2>2. CursorShape(s) /\ StatusShape(s) /\ Moves(r, s)
    BY <1>1 DEF Records, CursorShape, StatusShape, Moves, Continues
  <2> QED BY <1>4, <2>1, <2>2 DEF Progress
<1>5. CASE MayStartPurge(a, x) /\ StartPurgeIt(a, x)
  <2> DEFINE p == [r.purge EXCEPT !.busy = {x}]
  <2>1. p \in Purges
    BY <1>1, <1>5 DEF MayStartPurge, Records, Purges
  <2>2. rec' = [rec EXCEPT ![a] = [r EXCEPT !.purge = p]]
    BY <1>5 DEF StartPurgeIt
  <2> QED BY <1>4, <2>1, <2>2
<1>6. CASE MayProgress(a, x) /\ ProgressIt(a, x, cleaned)
  <2>1. CASE cleaned
    <3> DEFINE p == [r.purge EXCEPT !.todo = @ \ {x}, !.busy = {}]
    <3>1. p \in Purges
      BY <1>1 DEF Records, Purges
    <3>2. rec' = [rec EXCEPT ![a] = [r EXCEPT !.purge = p]]
      BY <1>1, <1>6, <2>1 DEF ProgressIt, Records
    <3> QED BY <1>4, <3>1, <3>2
  <2>2. CASE ~cleaned
    <3> DEFINE p == [r.purge EXCEPT !.stuck = TRUE]
    <3>1. p \in Purges
      BY <1>1 DEF Records, Purges
    <3>2. rec' = [rec EXCEPT ![a] = [r EXCEPT !.purge = p]]
      BY <1>6, <2>2 DEF ProgressIt
    <3> QED BY <1>4, <3>1, <3>2
  <2> QED BY <2>1, <2>2
<1> QED BY <1>3, <1>5, <1>6

-----------------------------------------------------------------------------
(* The records in a step of the system                                     *)

LEMMA WorkingOcc ==
  ASSUME PlaceInv, NEW w \in Wakes, wake[w].pc \in Working
  PROVE  Occ(w) \in Occurrences
BY DEF PlaceInv

\* No step works on more than one record.
LEMMA OneRecord ==
  ASSUME RecordInv, PlaceInv, [Next]_vars
  PROVE  UNCHANGED rec \/ \E a \in Autos : Progress(a)
<1>3. \A o \in Occurrences : o.auto \in Autos
  BY DEF Occurrences
<1>4. CASE UserStep
  BY <1>4, UserMoves DEF UserStep
<1>5. ASSUME NEW w \in Wakes, Begin(w) \/ Go(w) \/ Runner(w) \/ Crash(w)
      PROVE  \/ UNCHANGED rec
             \/ \E a \in Autos : Progress(a)
  <2>1. CASE Claim(w)
    <3>1. Occ(w) \in Occurrences
      BY <2>1, WorkingOcc DEF Claim, At, Working
    <3> QED BY <2>1, <3>1, <1>3, ClaimMoves DEF Claim
  <2>2. CASE Dispatch(w)
    <3>1. Occ(w) \in Occurrences
      BY <2>2, WorkingOcc DEF Dispatch, At, Working
    <3> QED BY <2>2, <3>1, <1>3, StartMoves DEF Dispatch
  <2>3. CASE Started(w)
    <3>1. Occ(w) \in Occurrences
      BY <2>3, WorkingOcc DEF Started, At, Working
    <3> QED BY <2>3, <3>1, <1>3, StartMoves DEF Started, RunningFirst
  <2>4. CASE RecordOutcome(w)
    <3>1. Occ(w) \in Occurrences
      BY <2>4, WorkingOcc DEF RecordOutcome, At, Working
    <3> QED BY <2>4, <3>1, <1>3, RecordMoves DEF RecordOutcome
  <2>5. CASE StartPurge(w)
    <3>1. PICK a \in Autos : \E x \in rec[a].purge.todo :
            MayStartPurge(a, x) /\ StartPurgeIt(a, x)
      BY <2>5 DEF StartPurge
    <3>2. Progress(a)
      BY <3>1, PurgeMoves
    <3> QED BY <3>2
  <2>6. CASE ConfirmPurge(w)
    <3> DEFINE o == Occ(w)
               x == [kind |-> o.kind, rev |-> o.rev, idx |-> o.idx]
               cleaned == wake[w].out = "ok"
    <3>1. MayProgress(o.auto, x) /\ ProgressIt(o.auto, x, cleaned)
      BY <2>6 DEF ConfirmPurge
    <3>2. CASE o.auto \in Autos
      <4>1. cleaned \in BOOLEAN
        OBVIOUS
      <4> HIDE DEF cleaned, x
      <4> QED BY <3>1, <3>2, <4>1, PurgeMoves
    <3>3. CASE o.auto \notin Autos
      BY <3>1, <3>3 DEF ProgressIt, RecordInv
    <3> QED BY <3>2, <3>3
  <2>7. CASE FinishPurge(w)
    <3>1. PICK a \in Autos : MayFinishPurge(a) /\ FinishPurgeIt(a)
      BY <2>7 DEF FinishPurge
    <3>2. Progress(a)
      BY <3>1, PurgeMoves
    <3> QED BY <3>2
  <2>8. CASE ObserveClaim(w) \/ Decide(w) \/ DeletePurge(w)
    BY <2>8 DEF ObserveClaim, Decide, DeletePurge
  <2>9. CASE \/ Materialize(w) \/ Initialize(w) \/ Admit(w) \/ Execute(w)
             \/ HandshakeFails(w) \/ Result(w) \/ NoResult(w) \/ Recover(w)
             \/ Recovered(w) \/ CaptureAndCleanup(w) \/ Raise(w)
    BY <2>9 DEF Materialize, Initialize, Admit, Execute, HandshakeFails, Result, NoResult,
                Recover, Recovered, CaptureAndCleanup, Raise
  <2>10. CASE RunTurn(w) \/ EndTurn(w) \/ OrphanEnds(w) \/ Crash(w)
    BY <2>10 DEF RunTurn, EndTurn, OrphanEnds, Crash
  <2> QED BY <1>5, <2>1, <2>2, <2>3, <2>4, <2>5, <2>6, <2>7, <2>8, <2>9, <2>10
          DEF Begin, Go, Runner
<1>6. CASE Time \/ UNCHANGED vars
  BY <1>6 DEF Time, Tick, vars
<1> QED BY <1>4, <1>5, <1>6 DEF Next

LEMMA RecordStep ==
  ASSUME RecordInv, Unique, PlaceInv, [Next]_vars
  PROVE  /\ RecordInv' /\ Unique'
         /\ \A o \in Occurrences : Durable(o) => Durable(o)'
<1>1. ASSUME NEW a \in Autos, Progress(a)
      PROVE  /\ RecordInv' /\ Unique'
             /\ \A o \in Occurrences : Durable(o) => Durable(o)'
  BY <1>1, ProgressKeeps
<1>2. ASSUME UNCHANGED rec
      PROVE  /\ RecordInv' /\ Unique'
             /\ \A o \in Occurrences : Durable(o) => Durable(o)'
  BY <1>2 DEF RecordInv, Unique, Claimed, Durable, Holds, Spent
<1> QED BY <1>1, <1>2, OneRecord

-----------------------------------------------------------------------------
(* Where wakes and runners can be                                          *)

\* A slot that the schedule selects is an occurrence.
LEMMA DecisionOccurs ==
  ASSUME RecordInv, RepoInv, NEW a \in Autos, NEW d \in Decision(a, now)
  PROVE  d.occ \in Occurrences /\ d.due \in BOOLEAN
<1> USE AutomationAssumption
<1> DEFINE r == rec[a]
           q == now \div Interval
           latest == IF q < MaxOcc THEN q ELSE MaxOcc - 1
           i == IF CatchUp = "NONE" THEN r.next ELSE latest
<1>1. /\ r.status = "ACTIVE" /\ r.next < MaxOcc
      /\ d = [occ |-> [auto |-> a, rev |-> r.rev, idx |-> i],
              due |-> now <= i * Interval + Grace]
  BY DEF Decision
<1>2. r.rev \in 1..MaxRev /\ r.next \in 0..MaxOcc - 1
  BY <1>1 DEF RecordInv, GoodRecord, Records, StatusShape, Approved
<1>3. q \in Nat
  BY DEF RepoInv
<1> HIDE DEF q
<1>4. i \in 0..MaxOcc - 1
  BY <1>2, <1>3
<1> HIDE DEF i
<1> QED BY <1>1, <1>2, <1>4 DEF Occurrences

\* A claim is on an occurrence.
LEMMA ClaimOccurs ==
  ASSUME RecordInv, NEW a \in Autos, Claimed(a)
  PROVE  OccurrenceOf(a) \in Occurrences
<1>1. rec[a].claim \in [rev : 1..MaxRev, idx : 0..MaxOcc - 1]
  BY DEF RecordInv, Records, Claims, Claimed
<1> QED BY <1>1 DEF OccurrenceOf, Occurrences

\* One wake goes to a place p and its runner to q.
LEMMA PlaceKept ==
  ASSUME PlaceInv, NEW w \in Wakes, NEW p \in WakePlaces, NEW q \in RunPlaces,
         p.pc \in Working => p.occ \in Occurrences,
         q.pc # "none" => q.occ \in Occurrences,
         wake' = [wake EXCEPT ![w] = p], run' = [run EXCEPT ![w] = q]
  PROVE  PlaceInv'
<1>1. wake' \in [Wakes -> WakePlaces] /\ run' \in [Wakes -> RunPlaces]
  BY DEF PlaceInv
<1>2. ASSUME NEW v \in Wakes
      PROVE  /\ wake'[v].pc \in Working => wake'[v].occ \in Occurrences
             /\ run'[v].pc # "none" => run'[v].occ \in Occurrences
  BY <1>2 DEF PlaceInv, Occ
<1> QED BY <1>1, <1>2 DEF PlaceInv, Occ

LEMMA PlaceStep ==
  ASSUME RecordInv, RepoInv, PlaceInv, [Next]_vars
  PROVE  PlaceInv'
<1> USE DEF Places, Working, Notes
<1>1. CASE UNCHANGED <<wake, run>>
  BY <1>1 DEF PlaceInv, Occ
<1>2. ASSUME NEW w \in Wakes,
             \/ Claim(w) \/ Materialize(w) \/ Initialize(w) \/ Admit(w)
             \/ Dispatch(w) \/ Started(w) \/ HandshakeFails(w)
             \/ CaptureAndCleanup(w)
      PROVE  PlaceInv'
  <2>1. /\ UNCHANGED run /\ wake[w].pc \in Working
        /\ \/ \E pc \in Working : Goto(w, pc)
           \/ ToRecord(w, "UNRESOLVED")
    BY <1>2 DEF Claim, Materialize, Initialize, Admit, Dispatch, Started, HandshakeFails,
                CaptureAndCleanup, At
  <2>2. wake[w] \in WakePlaces /\ run[w] \in RunPlaces /\ Occ(w) \in Occurrences
    BY <2>1 DEF PlaceInv
  <2>3. ASSUME NEW pc \in Working, Goto(w, pc)
        PROVE  PlaceInv'
    <3> DEFINE p == [wake[w] EXCEPT !.pc = pc]
    <3>1. p \in WakePlaces /\ p.occ \in Occurrences
      BY <2>2 DEF WakePlaces, Occ
    <3>2. wake' = [wake EXCEPT ![w] = p] /\ run' = [run EXCEPT ![w] = run[w]]
      BY <2>1, <2>3 DEF Goto, PlaceInv
    <3> QED BY <2>2, <3>1, <3>2, PlaceKept DEF PlaceInv
  <2>4. CASE ToRecord(w, "UNRESOLVED")
    <3> DEFINE p == [wake[w] EXCEPT !.pc = "record", !.out = "UNRESOLVED"]
    <3>1. p \in WakePlaces /\ p.occ \in Occurrences
      BY <2>2 DEF WakePlaces, Occ
    <3>2. wake' = [wake EXCEPT ![w] = p] /\ run' = [run EXCEPT ![w] = run[w]]
      BY <2>1, <2>4 DEF ToRecord, PlaceInv
    <3> QED BY <2>2, <3>1, <3>2, PlaceKept DEF PlaceInv
  <2> QED BY <2>1, <2>3, <2>4
<1>3. Idle \in WakePlaces /\ NoRun \in RunPlaces /\ Idle.pc = "idle" /\ NoRun.pc = "none"
  BY DEF Idle, NoRun, WakePlaces, RunPlaces
<1>4. ASSUME NEW w \in Wakes,
             RecordOutcome(w) \/ ConfirmPurge(w) \/ Raise(w) \/ Crash(w) \/ OrphanEnds(w)
      PROVE  PlaceInv'
  <2>1. PICK p \in {wake[w], Idle}, q \in {run[w], NoRun} :
          wake' = [wake EXCEPT ![w] = p] /\ run' = [run EXCEPT ![w] = q]
    <3>1. wake = [wake EXCEPT ![w] = wake[w]] /\ run = [run EXCEPT ![w] = run[w]]
      BY DEF PlaceInv
    <3> QED BY <1>4, <3>1 DEF RecordOutcome, ConfirmPurge, Raise, Crash, OrphanEnds, Leave, Ended
  <2> QED BY <1>3, <2>1, PlaceKept DEF PlaceInv, Occ
<1>5. ASSUME NEW w \in Wakes, Execute(w) \/ Recover(w)
      PROVE  PlaceInv'
  <2>1. wake[w] \in WakePlaces /\ Occ(w) \in Occurrences
    BY <1>5 DEF PlaceInv, Execute, Recover, At
  <2>2. run' = [run EXCEPT ![w] = run[w]] \/
        run' = [run EXCEPT ![w] = [pc |-> "start", occ |-> Occ(w), out |-> "none"]]
    BY <1>5 DEF Execute, Recover, PlaceInv
  <2>3. PICK q \in RunPlaces : /\ run' = [run EXCEPT ![w] = q]
                               /\ q.pc # "none" => q.occ \in Occurrences
    BY <2>1, <2>2 DEF PlaceInv, RunPlaces
  <2>4. \E pc \in {"wait", "rerun"} : Goto(w, pc) \/ ToRecord(w, "UNRESOLVED")
    BY <1>5 DEF Execute, Recover, Unseen
  <2>5. PICK p \in WakePlaces : /\ wake' = [wake EXCEPT ![w] = p]
                                /\ p.occ = Occ(w)
    <3>1. ASSUME NEW pc \in {"wait", "rerun", "record"}, NEW out \in {wake[w].out, "UNRESOLVED"}
          PROVE  /\ [wake[w] EXCEPT !.pc = pc, !.out = out] \in WakePlaces
                 /\ [wake[w] EXCEPT !.pc = pc, !.out = out].occ = Occ(w)
                 /\ [wake[w] EXCEPT !.pc = pc] \in WakePlaces
                 /\ [wake[w] EXCEPT !.pc = pc].occ = Occ(w)
      BY <2>1 DEF WakePlaces, Occ
    <3>2. CASE ToRecord(w, "UNRESOLVED")
      <4> DEFINE p == [wake[w] EXCEPT !.pc = "record", !.out = "UNRESOLVED"]
      <4>1. wake' = [wake EXCEPT ![w] = p]
        BY <3>2 DEF ToRecord
      <4> QED BY <4>1, <3>1
    <3>3. ASSUME NEW pc \in {"wait", "rerun"}, Goto(w, pc)
          PROVE  \E p \in WakePlaces : wake' = [wake EXCEPT ![w] = p] /\ p.occ = Occ(w)
      <4> DEFINE p == [wake[w] EXCEPT !.pc = pc]
      <4>1. wake' = [wake EXCEPT ![w] = p]
        BY <3>3 DEF Goto
      <4> QED BY <4>1, <3>1
    <3> QED BY <2>4, <3>2, <3>3
  <2> QED BY <2>1, <2>3, <2>5, PlaceKept
<1>6. ASSUME NEW w \in Wakes, Result(w) \/ Recovered(w) \/ NoResult(w)
      PROVE  PlaceInv'
  <2>1. wake[w] \in WakePlaces /\ run[w] \in RunPlaces /\ Occ(w) \in Occurrences
    BY <1>6 DEF PlaceInv, Result, Recovered, NoResult, At
  <2>2. PICK q \in {run[w], NoRun} : run' = [run EXCEPT ![w] = q]
    <3>1. run = [run EXCEPT ![w] = run[w]]
      BY DEF PlaceInv
    <3> QED BY <1>6, <3>1 DEF Result, Recovered, NoResult
  <2>3. q \in RunPlaces /\ (q.pc # "none" => q.occ \in Occurrences)
    BY <1>3 DEF PlaceInv
  <2>4. PICK pc \in {"record", "clean"}, out \in Notes :
          wake' = [wake EXCEPT ![w].pc = pc, ![w].out = out]
    <3>1. Told(w) \in Notes
      BY <2>1 DEF Told, RunPlaces, Notes, SafeOutcomes
    <3>2. \A out \in Notes : (IF out = "UNRESOLVED" THEN "record" ELSE "clean") \in {"record", "clean"}
      OBVIOUS
    <3>3. CASE Result(w)
      BY <3>1, <3>2, <3>3 DEF Result
    <3>4. CASE Recovered(w)
      <4>1. PICK out \in {Told(w), "UNRESOLVED"} :
              wake' = [wake EXCEPT ![w].pc = IF out = "UNRESOLVED" THEN "record" ELSE "clean",
                                   ![w].out = out]
        BY <3>4 DEF Recovered
      <4>2. out \in Notes
        BY <3>1, <4>1 DEF Notes
      <4> QED BY <3>2, <4>1, <4>2
    <3>5. CASE NoResult(w)
      BY <3>5 DEF NoResult, ToRecord, Notes
    <3> QED BY <1>6, <3>3, <3>4, <3>5
  <2> DEFINE p == [wake[w] EXCEPT !.pc = pc, !.out = out]
  <2>5. p \in WakePlaces /\ p.occ = Occ(w)
    BY <2>1 DEF WakePlaces, Occ
  <2>6. wake' = [wake EXCEPT ![w] = p]
    BY <2>4
  <2> HIDE DEF p
  <2> QED BY <2>1, <2>2, <2>3, <2>5, <2>6, PlaceKept
<1>7. ASSUME NEW w \in Wakes, RunTurn(w) \/ EndTurn(w)
      PROVE  PlaceInv'
  <2>1. wake[w] \in WakePlaces /\ run[w] \in RunPlaces /\ run[w].occ \in Occurrences
    BY <1>7 DEF PlaceInv, RunTurn, EndTurn
  <2>2. wake' = [wake EXCEPT ![w] = wake[w]]
        /\ (wake[w].pc \in Working => wake[w].occ \in Occurrences)
    BY <1>7 DEF RunTurn, EndTurn, PlaceInv, Occ
  <2>3. \/ run' = [run EXCEPT ![w].pc = "turn"]
        \/ \E out \in Notes : run' = [run EXCEPT ![w].pc = "end", ![w].out = out]
    BY <1>7 DEF RunTurn, EndTurn, SafeOutcomes
  <2>4. CASE run' = [run EXCEPT ![w].pc = "turn"]
    <3> DEFINE q == [run[w] EXCEPT !.pc = "turn"]
    <3>1. q \in RunPlaces /\ q.occ \in Occurrences /\ run' = [run EXCEPT ![w] = q]
      BY <2>1, <2>4 DEF RunPlaces
    <3> HIDE DEF q
    <3> QED BY <2>1, <2>2, <3>1, PlaceKept
  <2>5. ASSUME NEW out \in Notes, run' = [run EXCEPT ![w].pc = "end", ![w].out = out]
        PROVE  PlaceInv'
    <3> DEFINE q == [run[w] EXCEPT !.pc = "end", !.out = out]
    <3>1. q \in RunPlaces /\ q.occ \in Occurrences /\ run' = [run EXCEPT ![w] = q]
      BY <2>1, <2>5 DEF RunPlaces
    <3> HIDE DEF q
    <3> QED BY <2>1, <2>2, <3>1, PlaceKept
  <2> QED BY <2>3, <2>4, <2>5
<1>8. ASSUME NEW w \in Wakes, NEW p \in WakePlaces, UNCHANGED run,
             p.pc \in Working => p.occ \in Occurrences, wake' = [wake EXCEPT ![w] = p]
      PROVE  PlaceInv'
  BY <1>8, PlaceKept DEF PlaceInv
<1>9. ASSUME NEW w \in Wakes, ObserveClaim(w)
      PROVE  PlaceInv'
  <2>1. PICK a \in Autos : Claimed(a) /\
          \E pc \in {"record", "clean", "prepare", "recover"},
             out \in {"CANCELED", "UNRESOLVED", "none"} :
               wake' = [wake EXCEPT ![w] = [pc |-> pc, occ |-> OccurrenceOf(a), out |-> out]]
    BY <1>9 DEF ObserveClaim, Unseen
  <2>2. PICK pc \in {"record", "clean", "prepare", "recover"},
             out \in {"CANCELED", "UNRESOLVED", "none"} :
          wake' = [wake EXCEPT ![w] = [pc |-> pc, occ |-> OccurrenceOf(a), out |-> out]]
    BY <2>1
  <2> DEFINE p == [pc |-> pc, occ |-> OccurrenceOf(a), out |-> out]
  <2>3. OccurrenceOf(a) \in Occurrences
    BY <2>1, ClaimOccurs
  <2>4. p \in WakePlaces /\ p.occ \in Occurrences
    BY <2>3 DEF WakePlaces, SafeOutcomes
  <2>5. UNCHANGED run /\ wake' = [wake EXCEPT ![w] = p]
    BY <1>9, <2>2 DEF ObserveClaim
  <2> HIDE DEF p
  <2> QED BY <1>8, <2>4, <2>5
<1>10. ASSUME NEW w \in Wakes, Decide(w)
       PROVE  PlaceInv'
  <2>1. PICK a \in Autos : \E d \in Decision(a, now) :
          wake' = [wake EXCEPT ![w] = [pc |-> "claim", occ |-> d.occ,
                     out |-> IF d.due THEN "none" ELSE "MISFIRE_SKIPPED"]]
    BY <1>10 DEF Decide
  <2>2. PICK d \in Decision(a, now) :
          wake' = [wake EXCEPT ![w] = [pc |-> "claim", occ |-> d.occ,
                     out |-> IF d.due THEN "none" ELSE "MISFIRE_SKIPPED"]]
    BY <2>1
  <2> DEFINE p == [pc |-> "claim", occ |-> d.occ,
                   out |-> IF d.due THEN "none" ELSE "MISFIRE_SKIPPED"]
  <2>3. d.occ \in Occurrences
    BY DecisionOccurs
  <2>4. p \in WakePlaces /\ p.occ \in Occurrences
    BY <2>3 DEF WakePlaces, SafeOutcomes
  <2>5. UNCHANGED run /\ wake' = [wake EXCEPT ![w] = p]
    BY <1>10, <2>2 DEF Decide
  <2> HIDE DEF p
  <2> QED BY <1>8, <2>4, <2>5
<1>11. ASSUME NEW w \in Wakes, DeletePurge(w)
       PROVE  PlaceInv'
  <2>1. PICK a \in Autos : \E x \in rec[a].purge.busy :
          Confirm(w, a, x, TRUE) \/ Confirm(w, a, x, FALSE)
    BY <1>11 DEF DeletePurge
  <2>2. PICK x \in rec[a].purge.busy : Confirm(w, a, x, TRUE) \/ Confirm(w, a, x, FALSE)
    BY <2>1
  <2>3. rec[a].purge.busy \in SUBSET Objects
    BY DEF RecordInv, Records, Purges
  <2>4. /\ x.kind \in {"source", "workspace", "checkpoint"} /\ x.rev \in 0..MaxRev
        /\ x.idx \in 0..MaxOcc - 1
    BY <2>3, AutomationAssumption DEF Objects
  <2> DEFINE p(out) == [pc |-> "confirm", out |-> out,
                        occ |-> [auto |-> a, rev |-> x.rev, idx |-> x.idx, kind |-> x.kind]]
  <2>5. \A out \in {"ok", "UNRESOLVED"} : p(out) \in WakePlaces /\ p(out).pc = "confirm"
    BY <2>4 DEF WakePlaces, Deletions
  <2>6. UNCHANGED run /\ \E out \in {"ok", "UNRESOLVED"} : wake' = [wake EXCEPT ![w] = p(out)]
    BY <1>11, <2>2 DEF DeletePurge, Confirm
  <2> HIDE DEF p
  <2> QED BY <1>8, <2>5, <2>6
<1>12. ASSUME NEW w \in Wakes, StartPurge(w) \/ FinishPurge(w)
       PROVE  PlaceInv'
  BY <1>1, <1>12 DEF StartPurge, FinishPurge
<1>13. CASE UserStep \/ Time \/ UNCHANGED vars
  BY <1>1, <1>13 DEF UserStep, Time, vars
<1> QED
  BY <1>2, <1>4, <1>5, <1>6, <1>7, <1>9, <1>10, <1>11, <1>12, <1>13
     DEF Next, Begin, Go, Runner

LEMMA RepoStep ==
  ASSUME RecordInv, RepoInv, PlaceInv, [Next]_vars
  PROVE  RepoInv'
<1>1. CASE UNCHANGED <<now, repo>>
  BY <1>1 DEF RepoInv
<1>2. ASSUME NEW a \in Autos, UserMutation(a)
      PROVE  RepoInv'
  <2>1. CASE ApproveRevision(a)
    BY <2>1 DEF ApproveRevision, RepoInv
  <2>2. CASE ~ApproveRevision(a)
    BY <1>1, <1>2, <2>2 DEF UserMutation, CreateProposal, StageRevision, PauseAutomation,
                            ResumeAutomation, CancelAutomation, BeginPurge
  <2> QED BY <2>1, <2>2
<1>3. CASE Time
  BY <1>3 DEF Time, Tick, RepoInv
<1>4. ASSUME NEW w \in Wakes, Materialize(w) \/ Admit(w) \/ CaptureAndCleanup(w)
      PROVE  RepoInv'
  <2>1. Occ(w) \in Occurrences
    BY <1>4, WorkingOcc DEF Materialize, Admit, CaptureAndCleanup, At, Working
  <2>2. CASE Materialize(w)
    BY <2>1, <2>2 DEF Materialize, RepoInv, world
  <2>3. CASE Admit(w)
    BY <2>1, <2>3 DEF Admit, RepoInv, world
  <2>4. CASE CaptureAndCleanup(w)
    BY <2>1, <2>4 DEF CaptureAndCleanup, RepoInv, world
  <2> QED BY <1>4, <2>2, <2>3, <2>4
<1>5. ASSUME NEW w \in Wakes, DeletePurge(w)
      PROVE  RepoInv'
  <2>1. UNCHANGED now
    BY <1>5 DEF DeletePurge
  <2>2. PICK a \in Autos : \E x \in rec[a].purge.busy : UNCHANGED repo \/ repo' = Deleted(a, x)
    BY <1>5 DEF DeletePurge
  <2>3. PICK x \in rec[a].purge.busy : UNCHANGED repo \/ repo' = Deleted(a, x)
    BY <2>2
  <2>4. x \in Objects
    BY DEF RecordInv, Records, Purges
  <2>5. x.kind # "source" => Slot(a, x) \in Occurrences
    BY <2>4 DEF Objects, Slot, Occurrences
  <2>6. x.kind \in {"source", "workspace", "checkpoint"}
    BY <2>4 DEF Objects
  <2>7. CASE x.kind = "source" /\ repo' = Deleted(a, x)
    BY <2>1, <2>7 DEF Deleted, RepoInv
  <2>8. CASE x.kind = "workspace" /\ repo' = Deleted(a, x)
    BY <2>1, <2>5, <2>8 DEF Deleted, RepoInv
  <2>9. CASE x.kind = "checkpoint" /\ repo' = Deleted(a, x)
    BY <2>1, <2>5, <2>9 DEF Deleted, RepoInv
  <2> QED BY <1>1, <2>1, <2>3, <2>6, <2>7, <2>8, <2>9
<1>6. ASSUME NEW w \in Wakes,
             \/ ObserveClaim(w) \/ Decide(w) \/ StartPurge(w) \/ FinishPurge(w)
             \/ Claim(w) \/ Initialize(w) \/ Dispatch(w) \/ Started(w) \/ Execute(w)
             \/ HandshakeFails(w) \/ Result(w) \/ NoResult(w) \/ Recover(w)
             \/ Recovered(w) \/ RecordOutcome(w) \/ ConfirmPurge(w) \/ Raise(w)
             \/ Runner(w) \/ Crash(w)
      PROVE  RepoInv'
  BY <1>1, <1>6
     DEF ObserveClaim, Decide, StartPurge, FinishPurge, Claim, Initialize, Dispatch, Started,
         Execute, HandshakeFails, Result, NoResult, Recover, Recovered, RecordOutcome,
         ConfirmPurge, Raise, Runner, RunTurn, EndTurn, OrphanEnds, Crash
<1>7. CASE UNCHANGED vars
  BY <1>1, <1>7 DEF vars
<1> QED
  BY <1>2, <1>3, <1>4, <1>5, <1>6, <1>7 DEF Next, UserStep, Begin, Go

-----------------------------------------------------------------------------
(* The checkpoint of an occurrence and its turns                           *)

LEMMA TurnKept ==
  ASSUME TurnInv, UNCHANGED <<file, turns>>,
         \A v \in Wakes : run'[v].pc = "turn" => run'[v] = run[v]
  PROVE  TurnInv'
BY DEF TurnInv

LEMMA TurnStep ==
  ASSUME PlaceInv, TurnInv, [Next]_vars
  PROVE  TurnInv'
<1>1. CASE UNCHANGED <<file, turns, run>>
  BY <1>1, TurnKept
<1>2. ASSUME NEW w \in Wakes, Initialize(w)
      PROVE  TurnInv'
  <2>1. Occ(w) \in Occurrences
    BY <1>2, WorkingOcc DEF Initialize, At, Working
  <2>2. /\ file' = [file EXCEPT ![Occ(w)] = IF file[Occ(w)] = "none" THEN "fresh"
                                                                 ELSE file[Occ(w)]]
        /\ UNCHANGED <<turns, run>>
    BY <1>2 DEF Initialize
  <2> QED BY <2>1, <2>2 DEF TurnInv, PlaceInv, Files
<1>3. ASSUME NEW w \in Wakes, RunTurn(w)
      PROVE  TurnInv'
  <2> DEFINE o == run[w].occ
  <2>1. o \in Occurrences /\ run[w] \in RunPlaces
    BY <1>3 DEF RunTurn, PlaceInv
  <2>2. CASE UNCHANGED <<file, turns>> /\ \E out : run' = [run EXCEPT ![w].pc = "end", ![w].out = out]
    <3>1. run'[w].pc = "end" /\ \A v \in Wakes : v # w => run'[v] = run[v]
      BY <2>2 DEF PlaceInv, RunPlaces
    <3> QED BY <2>2, <3>1, TurnKept
  <2>3. CASE UNCHANGED <<file, turns>> /\ file[o] = "begun" /\ run' = [run EXCEPT ![w].pc = "turn"]
    <3>1. run'[w].occ = o /\ \A v \in Wakes : v # w => run'[v] = run[v]
      BY <2>3 DEF PlaceInv, RunPlaces
    <3> QED BY <2>1, <2>3, <3>1 DEF TurnInv
  <2>4. CASE FirstTurn(o) /\ file' = [file EXCEPT ![o] = "begun"]
             /\ turns' = [turns EXCEPT ![o] = @ + 1] /\ run' = [run EXCEPT ![w].pc = "turn"]
    <3>1. run'[w].occ = o /\ \A v \in Wakes : v # w => run'[v] = run[v]
      BY <2>4 DEF PlaceInv, RunPlaces
    <3>2. turns[o] = 0 /\ file[o] = "fresh"
      BY <2>1, <2>4 DEF TurnInv, FirstTurn
    <3>3. \A v \in Wakes : run'[v].pc = "turn" => file'[run'[v].occ] \notin {"none", "fresh"}
      BY <2>1, <2>4, <3>1 DEF TurnInv, PlaceInv
    <3>4. \A b \in Occurrences : turns'[b] = IF file'[b] \in {"none", "fresh"} THEN 0 ELSE 1
      BY <2>1, <2>4, <3>2 DEF TurnInv
    <3> QED BY <2>1, <2>4, <3>3, <3>4 DEF TurnInv, Files
  <2> QED BY <1>3, <2>2, <2>3, <2>4 DEF RunTurn
<1>4. ASSUME NEW w \in Wakes, EndTurn(w)
      PROVE  TurnInv'
  <2> DEFINE o == run[w].occ
  <2>1. o \in Occurrences /\ file[o] \notin {"none", "fresh"} /\ UNCHANGED turns
    BY <1>4 DEF EndTurn, PlaceInv, TurnInv
  <2>2. PICK out, f :
          /\ f \in Files \ {"none", "fresh"} /\ file' = [file EXCEPT ![o] = f]
          /\ run' = [run EXCEPT ![w].pc = "end", ![w].out = out]
    <3>1. file = [file EXCEPT ![o] = file[o]] /\ file[o] \in Files \ {"none", "fresh"}
      BY <2>1 DEF TurnInv
    <3> QED BY <1>4, <3>1 DEF EndTurn, Files
  <2>3. run'[w].pc = "end" /\ \A v \in Wakes : v # w => run'[v] = run[v]
    BY <2>2 DEF PlaceInv, RunPlaces
  <2>4. \A v \in Wakes : run'[v].pc = "turn" => file'[run'[v].occ] \notin {"none", "fresh"}
    BY <2>1, <2>2, <2>3 DEF TurnInv, PlaceInv
  <2>5. \A b \in Occurrences : turns'[b] = IF file'[b] \in {"none", "fresh"} THEN 0 ELSE 1
    BY <2>1, <2>2 DEF TurnInv
  <2> QED BY <2>1, <2>2, <2>4, <2>5 DEF TurnInv, Files
<1>5. ASSUME NEW w \in Wakes,
             \/ Execute(w) \/ Result(w) \/ NoResult(w) \/ Recover(w) \/ Recovered(w)
             \/ Raise(w) \/ Crash(w) \/ OrphanEnds(w)
      PROVE  TurnInv'
  <2>1. UNCHANGED <<file, turns>>
    BY <1>5 DEF Execute, Result, NoResult, Recover, Recovered, Raise, Crash, OrphanEnds, world
  <2>2. \/ run' = run \/ run' = [run EXCEPT ![w] = NoRun]
        \/ run' = [run EXCEPT ![w] = [pc |-> "start", occ |-> Occ(w), out |-> "none"]]
    BY <1>5 DEF Execute, Result, NoResult, Recover, Recovered, Raise, Crash, OrphanEnds, Ended
  <2>3. \A v \in Wakes : run'[v].pc = "turn" => run'[v] = run[v]
    BY <2>2 DEF PlaceInv, NoRun
  <2> QED BY <2>1, <2>3, TurnKept
<1>6. ASSUME NEW w \in Wakes,
             \/ Begin(w) \/ Claim(w) \/ Materialize(w) \/ Admit(w) \/ Dispatch(w)
             \/ Started(w) \/ HandshakeFails(w) \/ CaptureAndCleanup(w)
             \/ RecordOutcome(w) \/ ConfirmPurge(w)
      PROVE  TurnInv'
  BY <1>1, <1>6
     DEF Begin, ObserveClaim, Decide, StartPurge, DeletePurge, FinishPurge, Claim, Materialize,
         Admit, Dispatch, Started, HandshakeFails, CaptureAndCleanup, RecordOutcome,
         ConfirmPurge, world
<1>7. CASE UserStep \/ Time \/ UNCHANGED vars
  BY <1>1, <1>7 DEF UserStep, Time, vars, world
<1> QED BY <1>2, <1>3, <1>4, <1>5, <1>6, <1>7 DEF Next, Go, Runner

-----------------------------------------------------------------------------
(* Whoever is about to run an occurrence finds it RUNNING or over          *)

\* Only a permit and the look at a running claim put somebody to work.
LEMMA NewWorker ==
  ASSUME PlaceInv, [Next]_vars, NEW v \in Wakes, NEW o \in Occurrences,
         AtWork(v, o)', ~AtWork(v, o)
  PROVE  \/ Started(v) /\ Occ(v) = o
         \/ /\ ObserveClaim(v) /\ UNCHANGED rec
            /\ \E a \in Autos : OccurrenceOf(a) = o /\ rec[a].phase = "RUNNING"
<1> DEFINE Begins ==
      \/ Started(v) /\ Occ(v) = o
      \/ /\ ObserveClaim(v) /\ UNCHANGED rec
         /\ \E a \in Autos : OccurrenceOf(a) = o /\ rec[a].phase = "RUNNING"
<1>1. AtWork(v, o)' /\ ~AtWork(v, o)
  OBVIOUS
<1>2. ~(wake' = wake /\ run' = run)
  BY <1>1 DEF AtWork
<1>3. Started(v) /\ wake'[v].occ = o => Begins
  BY DEF Started, Goto, Occ, PlaceInv, WakePlaces
<1>4. ObserveClaim(v) /\ wake'[v].pc = "recover" /\ wake'[v].occ = o => Begins
  BY DEF ObserveClaim, PlaceInv
<1> HIDE DEF Begins
<1>5. AtWork(v, o)' <=> \/ wake'[v].pc \in {"execute", "recover"} /\ wake'[v].occ = o
                        \/ run'[v].pc # "none" /\ run'[v].occ = o
  BY DEF AtWork
<1>6. ASSUME NEW w \in Wakes, Begin(w)
      PROVE  Begins
  <2>1. UNCHANGED run
    BY <1>6 DEF Begin, ObserveClaim, Decide, StartPurge, DeletePurge, FinishPurge
  <2>2. CASE ObserveClaim(w)
    <3>1. v # w => wake'[v] = wake[v]
      BY <2>2 DEF ObserveClaim, PlaceInv
    <3>2. wake'[w].pc # "execute"
      BY <2>2 DEF ObserveClaim, PlaceInv, Unseen
    <3> QED BY <1>1, <1>4, <1>5, <2>1, <2>2, <3>1, <3>2 DEF AtWork
  <2>3. CASE Decide(w) \/ DeletePurge(w)
    <3>1. (v # w => wake'[v] = wake[v]) /\ wake'[w].pc \in {"claim", "confirm"}
      BY <2>3 DEF Decide, DeletePurge, Confirm, PlaceInv
    <3> QED BY <1>1, <1>5, <2>1, <3>1 DEF AtWork
  <2>4. CASE StartPurge(w) \/ FinishPurge(w)
    BY <1>2, <2>4 DEF StartPurge, FinishPurge
  <2> QED BY <1>6, <2>2, <2>3, <2>4 DEF Begin
<1>7. ASSUME NEW w \in Wakes, Started(w)
      PROVE  Begins
  <2>1. UNCHANGED run /\ (v # w => wake'[v] = wake[v])
    BY <1>7 DEF Started, Goto, PlaceInv
  <2> QED BY <1>1, <1>3, <1>5, <1>7, <2>1 DEF AtWork
<1>8. ASSUME NEW w \in Wakes,
             \/ Claim(w) \/ Materialize(w) \/ Initialize(w) \/ Admit(w) \/ Dispatch(w)
             \/ HandshakeFails(w) \/ CaptureAndCleanup(w)
             \/ RecordOutcome(w) \/ ConfirmPurge(w)
      PROVE  Begins
  <2>1. UNCHANGED run
    BY <1>8 DEF Claim, Materialize, Initialize, Admit, Dispatch, HandshakeFails,
                CaptureAndCleanup, RecordOutcome, ConfirmPurge
  <2>2. (v # w => wake'[v] = wake[v]) /\ wake'[w].pc \notin {"execute", "recover"}
    BY <1>8 DEF Claim, Materialize, Initialize, Admit, Dispatch, HandshakeFails,
                CaptureAndCleanup, RecordOutcome, ConfirmPurge, Goto, ToRecord, Leave, Idle,
                PlaceInv, WakePlaces
  <2> QED BY <1>1, <1>5, <2>1, <2>2 DEF AtWork
<1>9. ASSUME NEW w \in Wakes, Execute(w) \/ Recover(w)
       PROVE  Begins
  <2>1. /\ v # w => wake'[v] = wake[v] /\ run'[v] = run[v]
        /\ wake'[w].pc \notin {"execute", "recover"}
        /\ run'[w] = run[w] \/ run'[w].occ = wake[w].occ
        /\ wake[w].pc \in {"execute", "recover"}
    BY <1>9 DEF Execute, Recover, Goto, ToRecord, Occ, At, PlaceInv, WakePlaces, RunPlaces
  <2> QED BY <1>1, <1>5, <2>1 DEF AtWork
<1>10. ASSUME NEW w \in Wakes,
              \/ Result(w) \/ NoResult(w) \/ Recovered(w) \/ Raise(w) \/ Crash(w)
              \/ OrphanEnds(w)
       PROVE  Begins
  <2>1. run' = run \/ run' = [run EXCEPT ![w] = NoRun]
    BY <1>10 DEF Result, NoResult, Recovered, Raise, Crash, OrphanEnds, Ended
  <2>2. run'[v] = run[v] \/ run'[v].pc = "none"
    BY <2>1 DEF PlaceInv, NoRun
  <2>3. wake'[v] = wake[v] \/ wake'[v].pc \notin {"execute", "recover"}
    BY <1>10 DEF Result, NoResult, Recovered, Raise, Crash, OrphanEnds, ToRecord, Leave, Idle,
                 PlaceInv, WakePlaces
  <2> QED BY <1>1, <1>5, <2>2, <2>3 DEF AtWork
<1>11. ASSUME NEW w \in Wakes, RunTurn(w) \/ EndTurn(w)
       PROVE  Begins
  <2>1. UNCHANGED wake /\ run[w].pc # "none" /\ run'[v].occ = run[v].occ
        /\ (v # w => run'[v] = run[v])
    BY <1>11 DEF RunTurn, EndTurn, PlaceInv, RunPlaces
  <2> QED BY <1>1, <1>5, <2>1 DEF AtWork
<1>12. CASE UserStep \/ Time \/ UNCHANGED vars
  BY <1>2, <1>12 DEF UserStep, Time, vars
<1> QED
  BY <1>6, <1>7, <1>8, <1>9, <1>10, <1>11, <1>12 DEF Next, Go, Runner, Begins

LEMMA DurableKept ==
  ASSUME DurableInv, \A o \in Occurrences : Durable(o) => Durable(o)',
         \A v \in Wakes, o \in Occurrences : AtWork(v, o)' => AtWork(v, o) \/ Durable(o)'
  PROVE  DurableInv'
BY DEF DurableInv

LEMMA DurableStep ==
  ASSUME Inv, [Next]_vars
  PROVE  DurableInv'
<1> USE DEF Inv
<1>1. \A o \in Occurrences : Durable(o) => Durable(o)'
  BY RecordStep
<1>2. SUFFICES ASSUME NEW v \in Wakes, NEW o \in Occurrences, AtWork(v, o)', ~AtWork(v, o)
               PROVE  Durable(o)'
  BY <1>1, DurableKept
<1>3. CASE Started(v) /\ Occ(v) = o
  <2>1. Holds(o) /\ RunIt(o)
    BY <1>3 DEF Started, RunningFirst, MayRun
  <2>2. o.auto \in Autos /\ rec[o.auto] \in Records /\ rec \in [Autos -> Records]
    BY DEF Occurrences, RecordInv
  <2>3. rec'[o.auto].claim = rec[o.auto].claim /\ rec'[o.auto].phase = "RUNNING"
    BY <2>1, <2>2 DEF RunIt, Records
  <2> QED BY <2>1, <2>3 DEF Durable, Holds
<1>4. CASE /\ UNCHANGED rec
           /\ \E a \in Autos : OccurrenceOf(a) = o /\ rec[a].phase = "RUNNING"
  <2>1. UNCHANGED rec
    BY <1>4
  <2>2. PICK a \in Autos : OccurrenceOf(a) = o /\ rec[a].phase = "RUNNING"
    BY <1>4
  <2>3. o.auto = a /\ o.rev = rec[a].claim.rev /\ o.idx = rec[a].claim.idx
    BY <2>2 DEF OccurrenceOf
  <2>4. rec[a].claim \in [rev : 1..MaxRev, idx : 0..MaxOcc - 1]
    BY <2>2 DEF RecordInv, GoodRecord, Records, Claims, StatusShape
  <2>5. Holds(o)
    BY <2>3, <2>4 DEF Holds
  <2> QED BY <2>1, <2>2, <2>3, <2>5 DEF Durable, Holds
<1> QED BY <1>2, <1>3, <1>4, NewWorker

-----------------------------------------------------------------------------
(* The theorems                                                            *)

LEMMA InitInv == Init => Inv
<1> SUFFICES ASSUME Init PROVE Inv
  OBVIOUS
<1>1. \A a \in Autos : rec[a] = Absent
  BY DEF Init, RecordInit
<1>2. RecordInv
  BY <1>1, AbsentShape DEF Init, RecordInit, RecordInv, GoodRecord
<1>3. Unique
  BY <1>1 DEF Unique, Claimed, Absent
<1>4. RepoInv
  BY DEF Init, RecordInit, RepoInv
<1>5. \A w \in Wakes : wake[w] = Idle /\ run[w] = NoRun
  BY DEF Init
<1>6. Idle \in WakePlaces /\ NoRun \in RunPlaces
  BY DEF Idle, NoRun, WakePlaces, RunPlaces, Places, Notes
<1>7. PlaceInv
  BY <1>5, <1>6 DEF Init, PlaceInv, Idle, NoRun, Working
<1>8. TurnInv
  BY <1>5 DEF Init, TurnInv, Files, NoRun
<1>9. DurableInv
  BY <1>5 DEF DurableInv, AtWork, Idle, NoRun
<1> QED BY <1>2, <1>3, <1>4, <1>7, <1>8, <1>9 DEF Inv

\* The inductive invariant holds in every reachable state, whatever users, wakes,
\* children and crashes do and in whatever order.
THEOREM RecordsAndWakes == Spec => []Inv
<1>1. Inv /\ [Next]_vars => Inv'
  <2> SUFFICES ASSUME Inv, [Next]_vars PROVE Inv'
    OBVIOUS
  <2>1. RecordInv' /\ Unique'
    BY RecordStep DEF Inv
  <2>2. RepoInv' /\ PlaceInv' /\ TurnInv'
    BY RepoStep, PlaceStep, TurnStep DEF Inv
  <2>3. DurableInv'
    BY DurableStep
  <2> QED BY <2>1, <2>2, <2>3 DEF Inv
<1> QED BY InitInv, <1>1, PTL DEF Spec

\* Every record is one that AutomationRecordV1 accepts, and every object of the
\* workspaces and every checkpoint is in a state of its life cycle.
THEOREM RecordTypes == Spec => []TypeOK
<1>1. Inv => TypeOK
  <2> SUFFICES ASSUME Inv PROVE TypeOK
    OBVIOUS
  <2>1. Claims \subseteq ClaimSet
    BY AutomationAssumption DEF Claims, ClaimSet, NoClaim
  <2> DEFINE Typed == [status : Status, rev : 0..MaxRev, draft : 0..MaxRev, next : 0..MaxOcc,
        count : 0..MaxOcc, human : BOOLEAN, claim : ClaimSet, phase : Phases,
        proc : Wakes \cup {"none"},
        hist : Seq([rev : 1..MaxRev, idx : 0..MaxOcc - 1, out : SafeOutcomes]),
        purge : [todo : SUBSET Objects, busy : SUBSET Objects, stuck : BOOLEAN]]
  <2>2. Records \subseteq Typed
    BY <2>1 DEF Records, Outcomes, Purges
  <2>3. rec \in [Autos -> Typed]
    BY <2>2 DEF Inv, RecordInv
  <2>4. \A a \in Autos :
          /\ rec[a].human => rec[a].status = "PAUSED" /\ Claimed(a)
          /\ Claimed(a) <=> rec[a].phase # "none"
          /\ Len(rec[a].hist) <= HistoryCap
    BY DEF Inv, RecordInv, GoodRecord, StatusShape, Claimed
  <2> HIDE DEF Typed
  <2> QED BY <2>3, <2>4 DEF TypeOK, Typed, Inv, RepoInv, TurnInv, Files
<1> QED BY RecordsAndWakes, <1>1, PTL

\* At most one occurrence of all automations is claimed at any time, although
\* wakes and users work on the records without a common lock (_claim).
THEOREM AtMostOneClaim == Spec => []OneClaim
<1>1. Inv => OneClaim
  <2> SUFFICES ASSUME Unique PROVE OneClaim
    BY DEF Inv
  <2> DEFINE S == {a \in Autos : Claimed(a)}
  <2>1. CASE S = {}
    BY <2>1, FS_EmptySet DEF OneClaim
  <2>2. CASE S # {}
    <3>1. PICK a \in Autos : Claimed(a)
      BY <2>2
    <3>2. S = {a}
      BY <3>1 DEF Unique
    <3>3. Cardinality({a}) = 1
      BY FS_Singleton
    <3> QED BY <3>2, <3>3 DEF OneClaim
  <2> QED BY <2>1, <2>2
<1> QED BY RecordsAndWakes, <1>1, PTL

\* The task of an occurrence is started at most once, although wakes overlap,
\* die and recover, and children outlive them (accept_action on sequence 1).
THEOREM TurnsStartOnce == Spec => []TurnOnce
<1>1. Inv => TurnOnce
  BY DEF Inv, TurnInv, TurnOnce
<1> QED BY RecordsAndWakes, <1>1, PTL

\* Only a turn that starts under a claim that is running adds to the turns.
LEMMA TurnBegins ==
  ASSUME Inv, [Next]_vars, NEW o \in Occurrences, turns'[o] # turns[o]
  PROVE  Holds(o) /\ rec[o.auto].phase \in {"RUNNING", "UNRESOLVED"}
<1>1. PICK w \in Wakes : RunTurn(w)
  BY DEF Next, vars, world, UserStep, Time, Begin, Go, Runner, ObserveClaim, Decide,
         StartPurge, DeletePurge, FinishPurge, Claim, Materialize, Initialize, Admit,
         Dispatch, Started, Execute, HandshakeFails, Result, NoResult, Recover, Recovered,
         CaptureAndCleanup, RecordOutcome, ConfirmPurge, Raise, EndTurn, OrphanEnds, Crash
<1>2. run[w].occ = o /\ run[w].pc = "start" /\ Holds(o)
  BY <1>1 DEF RunTurn, Composes, Inv, TurnInv
<1>3. Durable(o)
  BY <1>2 DEF Inv, DurableInv, AtWork
<1> QED BY <1>2, <1>3 DEF Durable

\* A task is started only under a claim that is durably RUNNING, or that has been
\* given to the human since (on_started before the execute frame).
THEOREM TurnsStartDurably == Spec => StartedDurably
<1> DEFINE Fresh == \A o \in Occurrences : turns'[o] # turns[o] =>
                      Holds(o) /\ rec[o.auto].phase \in {"RUNNING", "UNRESOLVED"}
<1>1. Inv /\ [Next]_vars => [Fresh]_vars
  BY TurnBegins
<1>2. Spec => [][Fresh]_vars
  BY RecordsAndWakes, <1>1, PTL DEF Spec
<1> QED BY <1>2 DEF StartedDurably

-----------------------------------------------------------------------------
(***************************************************************************)
(* The history, and what an occurrence owns                                *)
(*                                                                         *)
(* The order of the history needs no more than the shape of the records.   *)
(* What it says of the runs, and what is deleted when, holds when wakes do *)
(* not overlap: then nobody but the wake at work settles a claim           *)
(* (StepInv), and what is still running is never settled at all            *)
(* (FileInv).                                                              *)
(***************************************************************************)

Before(x, y) == x.rev < y.rev \/ (x.rev = y.rev /\ x.idx < y.idx)

\* The history of a record is in order, behind its cursor and before its claim.
HistShape(r) ==
  /\ \A i, j \in DOMAIN r.hist : i < j => Before(r.hist[i], r.hist[j])
  /\ \A i \in DOMAIN r.hist :
       /\ Before(r.hist[i], [rev |-> r.rev, idx |-> r.next])
       /\ r.claim # NoClaim => Before(r.hist[i], r.claim)
HistInv == \A a \in Autos : HistShape(rec[a])

\* What appending an entry behind all others keeps.
LEMMA ContinuedHistory ==
  ASSUME NEW r \in Records, NEW s \in Records, HistShape(r), Moves(r, s),
         StatusShape(s), CursorShape(r)
  PROVE  HistShape(s)
<1>1. /\ r.rev \in Nat /\ r.next \in Nat /\ s.rev \in Nat /\ s.next \in Nat
      /\ r.hist \in Seq(Outcomes) /\ s.hist \in Seq(Outcomes)
      /\ r.claim \in Claims
  BY DEF Records
<1>2. \A c \in Claims : c.rev \in Nat /\ c.idx \in Nat
  BY DEF Claims, NoClaim
<1>3. \A i \in DOMAIN r.hist : r.hist[i].rev \in Nat /\ r.hist[i].idx \in Nat
  <2>1. \A e \in Outcomes : e.rev \in Nat /\ e.idx \in Nat
    BY DEF Outcomes
  <2> HIDE DEF Outcomes
  <2>2. \A i \in DOMAIN r.hist : r.hist[i] \in Outcomes
    BY <1>1
  <2> QED BY <2>1, <2>2
<1>4. CASE s.hist = <<>>
  <2>1. DOMAIN s.hist = {}
    BY <1>4
  <2> QED BY <2>1 DEF HistShape
<1>5. CASE s.hist = r.hist /\ s.hist # <<>>
  <2>1. s.status \notin Gone
    BY <1>5 DEF StatusShape
  <2>2. r.rev < s.rev \/ (r.rev = s.rev /\ r.next <= s.next)
    BY <2>1 DEF Moves
  <2>3. \A i \in DOMAIN s.hist : Before(s.hist[i], [rev |-> s.rev, idx |-> s.next])
    BY <1>1, <1>3, <1>5, <2>2 DEF HistShape, Before
  <2>4. s.claim = r.claim \/ s.claim = NoClaim \/ s.claim = [rev |-> r.rev, idx |-> r.next]
    BY DEF Moves
  <2>5. \A i \in DOMAIN s.hist : s.claim # NoClaim => Before(s.hist[i], s.claim)
    BY <1>5, <2>4 DEF HistShape
  <2> QED BY <1>5, <2>3, <2>5 DEF HistShape
<1>6. CASE /\ r.claim # NoClaim /\ s.claim = NoClaim
           /\ \E out \in SafeOutcomes : s.hist = Append(r.hist, Entry(r.claim, out))
  <2>1. PICK out \in SafeOutcomes : s.hist = Append(r.hist, Entry(r.claim, out))
    BY <1>6
  <2> DEFINE e == Entry(r.claim, out)
             n == Len(r.hist)
  <2>2. /\ n \in Nat /\ DOMAIN r.hist = 1..n /\ DOMAIN s.hist = 1..(n + 1)
        /\ \A i \in 1..n : s.hist[i] = r.hist[i]
        /\ s.hist[n + 1] = e
    <3>1. r.claim \in [rev : 1..MaxRev, idx : 0..MaxOcc - 1]
      BY <1>1, <1>6 DEF Claims
    <3>2. e \in Outcomes
      BY <3>1 DEF Entry, Outcomes
    <3> DEFINE h == r.hist
    <3>3. h \in Seq(Outcomes) /\ s.hist = Append(h, e) /\ n = Len(h)
      BY <1>1, <2>1
    <3> HIDE DEF e, h, n
    <3>4. /\ n \in Nat /\ DOMAIN h = 1..n /\ DOMAIN s.hist = 1..(n + 1)
          /\ \A i \in 1..n : s.hist[i] = h[i]
          /\ s.hist[n + 1] = e
      BY <3>2, <3>3
    <3> QED BY <3>4 DEF h
  <2>3. e.rev = r.claim.rev /\ e.idx = r.claim.idx /\ e.rev \in Nat /\ e.idx \in Nat
    BY <1>1, <1>2 DEF Entry
  <2> HIDE DEF e, n
  <2>4. \A i \in 1..n : Before(r.hist[i], e)
    BY <1>6, <2>2, <2>3 DEF HistShape, Before
  <2>5. \A i, j \in DOMAIN s.hist : i < j => Before(s.hist[i], s.hist[j])
    <3> SUFFICES ASSUME NEW i \in 1..(n + 1), NEW j \in 1..(n + 1), i < j
                 PROVE  Before(s.hist[i], s.hist[j])
      BY <2>2
    <3>1. i \in 1..n
      BY <2>2
    <3>2. CASE j \in 1..n
      BY <2>2, <3>1, <3>2 DEF HistShape
    <3>3. CASE j = n + 1
      BY <2>2, <2>4, <3>1, <3>3
    <3> QED BY <2>2, <3>2, <3>3
  <2>6. s.status \notin Gone
    <3>1. s.hist # <<>>
      BY <2>2
    <3> QED BY <3>1 DEF StatusShape
  <2>7. /\ r.claim.rev < s.rev \/ (r.claim.rev = s.rev /\ r.claim.idx < s.next)
        /\ r.rev < s.rev \/ (r.rev = s.rev /\ r.next <= s.next)
    BY <1>6, <2>6 DEF Moves
  <2>8. \A i \in DOMAIN s.hist : Before(s.hist[i], [rev |-> s.rev, idx |-> s.next])
    <3> SUFFICES ASSUME NEW i \in 1..(n + 1)
                 PROVE  Before(s.hist[i], [rev |-> s.rev, idx |-> s.next])
      BY <2>2
    <3>1. CASE i \in 1..n
      <4> DEFINE h == r.hist[i]
                 c == r.claim
      <4>1. h.rev \in Nat /\ h.idx \in Nat /\ s.hist[i] = h
        BY <1>3, <2>2, <3>1
      <4>2. c.rev \in Nat /\ c.idx \in Nat
        BY <1>1, <1>2
      <4>3. h.rev < c.rev \/ (h.rev = c.rev /\ h.idx < c.idx)
        BY <1>6, <2>2, <3>1 DEF HistShape, Before
      <4>4. c.rev < s.rev \/ (c.rev = s.rev /\ c.idx < s.next)
        BY <2>7
      <4> HIDE DEF h, c
      <4>5. h.rev < s.rev \/ (h.rev = s.rev /\ h.idx < s.next)
        BY <1>1, <4>1, <4>2, <4>3, <4>4
      <4> QED BY <4>1, <4>5 DEF Before
    <3>2. CASE i = n + 1
      BY <2>2, <2>3, <2>7, <3>2 DEF Before
    <3> QED BY <2>2, <3>1, <3>2
  <2> QED BY <1>6, <2>5, <2>8 DEF HistShape
<1> QED BY <1>4, <1>5, <1>6 DEF Moves, Continues

LEMMA HistoryStep ==
  ASSUME RecordInv, PlaceInv, HistInv, [Next]_vars
  PROVE  HistInv'
<1>1. CASE UNCHANGED rec
  BY <1>1 DEF HistInv, HistShape
<1>2. ASSUME NEW a \in Autos, Progress(a)
      PROVE  HistInv'
  <2>1. PICK s \in Records : /\ CursorShape(s) /\ StatusShape(s) /\ Moves(rec[a], s)
                             /\ rec' = [rec EXCEPT ![a] = s]
    BY <1>2 DEF Progress
  <2>2. HistShape(s)
    BY <2>1, ContinuedHistory DEF HistInv, RecordInv, GoodRecord
  <2>3. \A b \in Autos : rec'[b] = IF b = a THEN s ELSE rec[b]
    BY <2>1 DEF RecordInv
  <2> QED BY <2>2, <2>3 DEF HistInv, HistShape
<1> QED BY <1>1, <1>2, OneRecord

\* The history of an automation is in the order of the revisions and of their
\* slots, each occurrence once, whatever is skipped, cancelled, updated or
\* settled late (_record_occurrence_outcome).
THEOREM HistoryOrdered == Spec => []HistoryInOrder
<1>1. Init => HistInv
  <2> SUFFICES ASSUME Init, NEW a \in Autos PROVE HistShape(rec[a])
    BY DEF HistInv
  <2>1. rec[a].hist = <<>>
    BY DEF Init, RecordInit, Absent
  <2>2. DOMAIN rec[a].hist = {}
    BY <2>1
  <2> QED BY <2>2 DEF HistShape
<1>2. Inv /\ HistInv /\ [Next]_vars => HistInv'
  BY HistoryStep DEF Inv
<1>3. HistInv => HistoryInOrder
  BY DEF HistInv, HistShape, Before, HistoryInOrder, Entries
<1> QED BY RecordsAndWakes, <1>1, <1>2, <1>3, PTL DEF Spec

-----------------------------------------------------------------------------
(* Wakes that do not overlap                                               *)

\* One wake is at work at a time.
Alone == \A v, w \in Wakes : ~At(v, "idle") /\ ~At(w, "idle") => v = w

Ends == {"COMPLETED", "FAILED"}
Phase(o) == rec[o.auto].phase

\* No runner works on the checkpoint of o; nobody runs o at all.
Quiet(o) == \A v \in Wakes : run[v].occ = o => run[v].pc \notin {"start", "turn"}
Free(o) == \A v \in Wakes : run[v].occ = o => run[v].pc = "none"

\* Nobody but the wake w settles the claim of o while it is at work on it at pc,
\* with the outcome out in its hands.
Sound(w, pc, o, out) ==
  /\ pc = "claim" => out \in {"none", "MISFIRE_SKIPPED"}
  /\ pc \in {"prepare", "initialize", "admit", "spawn"} =>
       Holds(o) /\ Phase(o) = "CLAIMED" /\ repo.ws[o] # "cleaned"
  /\ pc = "permit" => Holds(o) /\ Phase(o) = "DISPATCHED"
  /\ pc \in {"execute", "wait", "recover", "rerun"} => Holds(o) /\ Phase(o) = "RUNNING"
  /\ pc = "execute" => Free(o) /\ file[o] \in {"none", "fresh"}
  /\ pc \in {"wait", "rerun"} => run[w].pc # "none" /\ run[w].occ = o
  /\ pc \in {"clean", "record"} =>
       /\ Holds(o)
       /\ out \in Ends =>
            /\ Phase(o) = "RUNNING" /\ Quiet(o)
            /\ out = "COMPLETED" <=> file[o] = "COMPLETED"
       /\ out \in {"CANCELED", "MISFIRE_SKIPPED"} => Phase(o) = "CLAIMED"
  /\ pc = "clean" =>
       /\ out \in Ends \cup {"CANCELED"}
       /\ out = "CANCELED" => rec[o.auto].status = "CANCEL_PENDING"
  /\ pc = "confirm" =>
       /\ o.auto \in Autos /\ rec[o.auto].status \in Gone
       /\ out = "ok" => ~IsLive(o.auto, [kind |-> o.kind, rev |-> o.rev, idx |-> o.idx])
StepOk(w) == Sound(w, wake[w].pc, Occ(w), wake[w].out)
StepInv == \A w \in Wakes : StepOk(w)

\* A runner that is at work, or that has a result, agrees with the checkpoint.
RunnerInv ==
  /\ \A w \in Wakes : run[w].pc = "turn" => file[run[w].occ] = "begun"
  /\ \A w \in Wakes : run[w].pc = "end" =>
       /\ run[w].out \in Ends \cup {"UNRESOLVED"}
       /\ run[w].out = "COMPLETED" => file[run[w].occ] = "COMPLETED"
  /\ \A v, w \in Wakes :
       run[v].pc = "turn" /\ run[w].pc = "turn" /\ run[v].occ = run[w].occ => v = w

\* A checkpoint that has begun is taken up by a recovery only, a new one is begun by
\* one child; a wake that is told an end is told by the last of them.
StartInv ==
  /\ \A w \in Wakes :
       run[w].pc = "start" /\ file[run[w].occ] \notin {"none", "fresh"} => At(w, "rerun")
  /\ \A v, w \in Wakes :
       run[v].pc = "start" /\ run[w].pc = "start" /\ run[v].occ = run[w].occ => v = w
  /\ \A w \in Wakes :
       wake[w].pc \in {"wait", "rerun"} /\ run[w].pc = "end" /\ run[w].out \in Ends
         => Quiet(run[w].occ)

\* A turn at work has its claim and its workspace.
TurnSafe ==
  \A w \in Wakes :
    run[w].pc = "turn" => Holds(run[w].occ) /\ repo.ws[run[w].occ] # "cleaned"

\* Settled, and never to be claimed again.
Over(o) == ~Holds(o) /\ Spent(o)

\* Claimed, but cancelled before it was dispatched.
Spoiled(o) == Holds(o) /\ Phase(o) = "CLAIMED" /\ rec[o.auto].status = "CANCEL_PENDING"

\* What a checkpoint and a workspace say of the claim of their occurrence.
FileOk(o) ==
  /\ file[o] \notin {"none", "fresh"} => Durable(o)
  /\ repo.ws[o] # "none" => Holds(o) \/ Spent(o)
  /\ repo.ws[o] = "cleaned" => Durable(o) \/ Spoiled(o)
FileInv == \A o \in Occurrences : FileOk(o)

\* The manifest of a purge names whatever is still there.
PurgeOk(a) ==
  /\ rec[a].purge.busy # {} => rec[a].status = "PURGE_PENDING"
  /\ rec[a].status = "PURGE_PENDING" => Owned(a) \subseteq rec[a].purge.todo
  /\ rec[a].status = "PURGED" => Owned(a) = {}
PurgeInv == \A a \in Autos : PurgeOk(a)

SoloInv ==
  /\ Alone /\ StepInv /\ RunnerInv /\ StartInv /\ TurnSafe
  /\ FileInv /\ PurgeInv /\ HistoryTrue

-----------------------------------------------------------------------------
(* What a step may do to the claims                                        *)

\* An occurrence that is claimed or cannot be claimed stays one or the other,
\* and what is over stays so.
LEMMA SeenKept ==
  ASSUME RecordInv, PlaceInv, [Next]_vars, NEW o \in Occurrences
  PROVE  /\ Holds(o) \/ Spent(o) => Holds(o)' \/ Spent(o)'
         /\ Over(o) => Over(o)'
<1>1. CASE UNCHANGED rec
  BY <1>1 DEF Over, Holds, Spent
<1>2. ASSUME NEW a \in Autos, Progress(a), o.auto # a
      PROVE  /\ Holds(o) \/ Spent(o) => Holds(o)' \/ Spent(o)'
             /\ Over(o) => Over(o)'
  <2>1. rec'[o.auto] = rec[o.auto]
    BY <1>2 DEF Progress, RecordInv, Occurrences
  <2> QED BY <2>1 DEF Over, Holds, Spent
<1>3. ASSUME NEW a \in Autos, Progress(a), o.auto = a
      PROVE  /\ Holds(o) \/ Spent(o) => Holds(o)' \/ Spent(o)'
             /\ Over(o) => Over(o)'
  <2>1. PICK s \in Records : /\ CursorShape(s) /\ StatusShape(s) /\ Moves(rec[a], s)
                             /\ rec' = [rec EXCEPT ![a] = s]
    BY <1>3 DEF Progress
  <2> DEFINE r == rec[a]
             c == [rev |-> o.rev, idx |-> o.idx]
             old == r.status \in Gone \/ o.rev < r.rev \/ (o.rev = r.rev /\ o.idx < r.next)
             new == s.status \in Gone \/ o.rev < s.rev \/ (o.rev = s.rev /\ o.idx < s.next)
  <2>2. rec'[a] = s
    BY <2>1 DEF RecordInv
  <2>3. /\ Holds(o) <=> r.claim = c
        /\ Holds(o)' <=> s.claim = c
        /\ Spent(o) <=> old
        /\ Spent(o)' <=> new
    BY <1>3, <2>2 DEF Holds, Spent
  <2>4. /\ r.rev \in Nat /\ r.next \in Nat /\ s.rev \in Nat /\ s.next \in Nat
        /\ o.rev \in Nat /\ o.idx \in Nat /\ c # NoClaim
        /\ c.rev = o.rev /\ c.idx = o.idx
    <3>1. r \in Records /\ s \in Records /\ o \in Occurrences
      BY <2>1 DEF RecordInv
    <3>2. r.rev \in 0..MaxRev /\ r.next \in 0..MaxOcc /\ s.rev \in 0..MaxRev /\ s.next \in 0..MaxOcc
      BY <3>1 DEF Records
    <3>3. o.rev \in 1..MaxRev /\ o.idx \in 0..MaxOcc - 1
      BY <3>1 DEF Occurrences
    <3>4. o.rev \in Nat /\ o.idx \in Nat /\ o.rev # 0
      BY <3>3
    <3>6. c # NoClaim
      <4>1. c.rev = o.rev /\ NoClaim.rev = 0
        BY DEF NoClaim
      <4> QED BY <4>1, <3>4
    <3> HIDE DEF r, c
    <3>5. r.rev \in Nat /\ r.next \in Nat /\ s.rev \in Nat /\ s.next \in Nat
      BY <3>2
    <3> QED BY <3>4, <3>5, <3>6 DEF c
  <2>5. Moves(r, s)
    BY <2>1
  <2> HIDE DEF r, c
  <2>6. old => new
    BY <2>4, <2>5 DEF Moves
  <2>7. CASE s.claim = r.claim
    BY <2>3, <2>6, <2>7 DEF Over
  <2>8. CASE s.claim = NoClaim /\ (r.claim.rev < s.rev \/ (r.claim.rev = s.rev /\ r.claim.idx < s.next))
    <3>1. r.claim = c => new
      BY <2>4, <2>8
    <3> QED BY <2>3, <2>4, <2>6, <2>8, <3>1 DEF Over
  <2>9. CASE r.claim = NoClaim /\ r.status = "ACTIVE" /\ s.claim = [rev |-> r.rev, idx |-> r.next]
    <3>1. old => s.claim # c
      <4>1. s.claim.rev = r.rev /\ s.claim.idx = r.next
        BY <2>9
      <4>2. ASSUME old, s.claim = c PROVE FALSE
        BY <2>4, <2>9, <4>1, <4>2 DEF Gone
      <4> QED BY <4>2
    <3> QED BY <2>3, <2>4, <2>6, <2>9, <3>1 DEF Over
  <2> QED BY <2>5, <2>7, <2>8, <2>9 DEF Moves
<1> QED BY <1>1, <1>2, <1>3, OneRecord

\* No claim is made, begun or settled.
SameClaims ==
  \A b \in Autos :
    /\ rec'[b].claim = rec[b].claim /\ rec'[b].phase = rec[b].phase
    /\ rec'[b].hist \in {rec[b].hist, <<>>}
    /\ rec[b].status \in Gone => rec'[b].status \in Gone
    /\ Claimed(b) /\ rec[b].status = "CANCEL_PENDING" => rec'[b].status = "CANCEL_PENDING"

\* Nothing but the claim of a and its phase.
OnlyClaim(a) ==
  /\ \A b \in Autos : /\ rec'[b].status = rec[b].status /\ rec'[b].purge = rec[b].purge
                      /\ rec'[b].hist = rec[b].hist
  /\ \A b \in Autos : b # a => rec'[b] = rec[b]

LEMMA ClaimFacts ==
  ASSUME RecordInv, NEW w \in Wakes, NEW o \in Occurrences, Occ(w) = o, Claim(w)
  PROVE  /\ NoClaims /\ rec[o.auto].status = "ACTIVE" /\ ~Holds(o) /\ ~Spent(o)
         /\ Holds(o)' /\ Phase(o)' = "CLAIMED" /\ OnlyClaim(o.auto)
<1> DEFINE r == rec[o.auto]
           s == [r EXCEPT !.claim = [rev |-> o.rev, idx |-> o.idx], !.phase = "CLAIMED"]
<1>1. o.auto \in Autos /\ o.rev \in Nat \ {0} /\ o.idx \in Nat /\ r \in Records
  BY DEF Occurrences, RecordInv
<1>2. rec' = [rec EXCEPT ![o.auto] = s] /\ NoClaims /\ MayClaim(o)
  BY <1>1 DEF Claim, ClaimIt, MayClaim, Forbid, NoClaims
<1>3. r.status = "ACTIVE" /\ o.rev = r.rev /\ o.idx = r.next /\ r.claim = NoClaim
  BY <1>1, <1>2 DEF MayClaim, AtCursor, NoClaims, Claimed
<1>4. /\ s.claim = [rev |-> o.rev, idx |-> o.idx] /\ s.phase = "CLAIMED"
      /\ s.status = r.status /\ s.purge = r.purge /\ s.hist = r.hist
  BY <1>1 DEF Records
<1> HIDE DEF s
<1>5. rec'[o.auto] = s /\ \A b \in Autos : b # o.auto => rec'[b] = rec[b]
  BY <1>1, <1>2 DEF RecordInv
<1>6. OnlyClaim(o.auto)
  BY <1>4, <1>5 DEF OnlyClaim
<1>7. ~Holds(o) /\ ~Spent(o)
  BY <1>1, <1>3 DEF Holds, Spent, NoClaim, Gone
<1>8. Holds(o)' /\ Phase(o)' = "CLAIMED"
  BY <1>4, <1>5 DEF Holds, Phase
<1> QED BY <1>2, <1>3, <1>6, <1>7, <1>8

LEMMA PhaseFacts ==
  ASSUME RecordInv, NEW w \in Wakes, NEW o \in Occurrences, Occ(w) = o,
         Dispatch(w) \/ Started(w)
  PROVE  /\ Holds(o) /\ \A b \in Autos : rec'[b].claim = rec[b].claim
         /\ OnlyClaim(o.auto)
         /\ Dispatch(w) => Phase(o) = "CLAIMED" /\ Phase(o)' = "DISPATCHED"
         /\ Started(w) => Phase(o) = "DISPATCHED" /\ Phase(o)' = "RUNNING"
<1> DEFINE r == rec[o.auto]
<1>1. o.auto \in Autos /\ r \in Records
  BY DEF Occurrences, RecordInv
<1>2. ASSUME NEW ph \in Phases, NEW pr \in Wakes \cup {"none"},
             rec' = [rec EXCEPT ![o.auto] = WithPhase(r, ph, pr)]
      PROVE  /\ \A b \in Autos : rec'[b].claim = rec[b].claim
             /\ OnlyClaim(o.auto) /\ Phase(o)' = ph
  <2> DEFINE s == WithPhase(r, ph, pr)
  <2>1. /\ s.claim = r.claim /\ s.phase = ph /\ s.status = r.status
        /\ s.purge = r.purge /\ s.hist = r.hist
    BY <1>1 DEF Records, WithPhase
  <2>2. rec'[o.auto] = s /\ \A b \in Autos : b # o.auto => rec'[b] = rec[b]
    BY <1>1, <1>2 DEF RecordInv
  <2> HIDE DEF s
  <2> QED BY <2>1, <2>2 DEF OnlyClaim, Phase
<1>3. CASE Dispatch(w)
  <2>1. MayDispatch(o) /\ rec' = [rec EXCEPT ![o.auto] = WithPhase(r, "DISPATCHED", w)]
    BY <1>1, <1>3 DEF Dispatch, DispatchIt, WithPhase, RecordInv
  <2>2. ~Started(w)
    BY <1>3 DEF Dispatch, Started, At
  <2> QED BY <1>2, <2>1, <2>2 DEF MayDispatch, Phase, Phases
<1>4. CASE Started(w)
  <2> DEFINE s == [r EXCEPT !.phase = "RUNNING"]
  <2>1. MayRun(o, w) /\ rec' = [rec EXCEPT ![o.auto] = s]
    BY <1>1, <1>4 DEF Started, RunningFirst, RunIt, RecordInv
  <2>2. s = WithPhase(r, "RUNNING", r.proc) /\ r.proc \in Wakes \cup {"none"}
    BY <1>1 DEF Records, WithPhase
  <2>3. ~Dispatch(w)
    BY <1>4 DEF Dispatch, Started, At
  <2> HIDE DEF s
  <2> QED BY <1>2, <2>1, <2>2, <2>3 DEF MayRun, Phase, Phases
<1> QED BY <1>3, <1>4

LEMMA OutcomeFacts ==
  ASSUME RecordInv, NEW w \in Wakes, NEW o \in Occurrences, Occ(w) = o, RecordOutcome(w)
  PROVE  /\ Holds(o) /\ rec[o.auto].status \in Open /\ rec'[o.auto].status \in Open \cup {"CANCELED"}
         /\ \A b \in Autos : rec'[b].purge = rec[b].purge /\ (b # o.auto => rec'[b] = rec[b])
         /\ wake[w].out = "UNRESOLVED" =>
              Holds(o)' /\ Phase(o)' = "UNRESOLVED" /\ rec'[o.auto].hist = rec[o.auto].hist
         /\ wake[w].out # "UNRESOLVED" =>
              /\ wake[w].out \in SafeOutcomes /\ ~Holds(o)'
              /\ rec'[o.auto].hist =
                   Append(rec[o.auto].hist, [rev |-> o.rev, idx |-> o.idx, out |-> wake[w].out])
<1> DEFINE r == rec[o.auto]
           out == wake[w].out
           s == Recorded(r, out)
<1>1. o.auto \in Autos /\ o.rev \in Nat \ {0} /\ r \in Records /\ StatusShape(r)
  BY DEF Occurrences, RecordInv, GoodRecord
<1>2. MayRecord(o, out) /\ rec' = [rec EXCEPT ![o.auto] = s]
  BY <1>1 DEF RecordOutcome, RecordIt, RecordInv
<1>3. r.claim = [rev |-> o.rev, idx |-> o.idx] /\ r.claim # NoClaim /\ Holds(o)
  BY <1>1, <1>2 DEF MayRecord, Holds, NoClaim
<1>4. r.status \in Open
  BY <1>1, <1>3 DEF StatusShape
<1>5. CASE out = "UNRESOLVED"
  <2>1. /\ s.status = "PAUSED" /\ s.phase = "UNRESOLVED" /\ s.claim = r.claim
        /\ s.purge = r.purge /\ s.hist = r.hist
    BY <1>1, <1>5 DEF Recorded, Records
  <2> HIDE DEF s, out
  <2>2. rec'[o.auto] = s /\ \A b \in Autos : b # o.auto => rec'[b] = rec[b]
    BY <1>1, <1>2 DEF RecordInv
  <2> QED BY <1>3, <1>4, <1>5, <2>1, <2>2 DEF Holds, Phase, Open, out
<1>6. CASE out # "UNRESOLVED"
  <2> DEFINE t == Settled(r)
             st == CASE r.status = "CANCEL_PENDING" -> "CANCELED"
                     [] r.status = "PAUSED" -> "PAUSED"
                     [] OTHER -> "ACTIVE"
             e == [rev |-> r.claim.rev, idx |-> r.claim.idx, out |-> out]
  <2>1. t \in Records /\ t.claim = NoClaim /\ t.purge = r.purge /\ t.hist = r.hist
    <3>1. NoClaim \in Claims /\ "none" \in Phases
      BY DEF Claims, Phases
    <3> QED BY <1>1, <3>1 DEF Records, Settled
  <2>2. s = [t EXCEPT !.status = st, !.next = NextSlot(r), !.count = @ + 1,
                      !.human = FALSE, !.hist = Append(@, e)]
    BY <1>6 DEF Recorded
  <2>3. st \in Open \cup {"CANCELED"}
    BY DEF Open
  <2>4. e = [rev |-> o.rev, idx |-> o.idx, out |-> out]
    BY <1>3
  <2>5. out \in SafeOutcomes
    BY <1>2, <1>6 DEF MayRecord, SafeFrom, SafeOutcomes
  <2> HIDE DEF s, t, st, e, out
  <2>6. /\ s.status = st /\ s.claim = NoClaim /\ s.purge = r.purge
        /\ s.hist = Append(r.hist, e)
    BY <2>1, <2>2 DEF Records
  <2>7. rec'[o.auto] = s /\ \A b \in Autos : b # o.auto => rec'[b] = rec[b]
    BY <1>1, <1>2 DEF RecordInv
  <2>8. ~Holds(o)'
    BY <1>3, <2>6, <2>7 DEF Holds
  <2> QED BY <1>3, <1>4, <1>6, <2>3, <2>4, <2>5, <2>6, <2>7, <2>8 DEF out
<1> QED BY <1>5, <1>6

\* One record is rewritten, without touching its claim.
LEMMA OneRewritten ==
  ASSUME RecordInv, NEW a \in Autos, NEW s, rec' = [rec EXCEPT ![a] = s],
         s.claim = rec[a].claim, s.phase = rec[a].phase, s.hist \in {rec[a].hist, <<>>},
         rec[a].status \in Gone => s.status \in Gone,
         rec[a].claim # NoClaim /\ rec[a].status = "CANCEL_PENDING" => s.status = "CANCEL_PENDING"
  PROVE  SameClaims
<1>1. rec'[a] = s /\ \A b \in Autos : b # a => rec'[b] = rec[b]
  BY DEF RecordInv
<1> QED BY <1>1 DEF SameClaims, Claimed

LEMMA UserFacts ==
  ASSUME RecordInv, RepoInv, NEW a \in Autos, UserMutation(a)
  PROVE  /\ SameClaims
         /\ repo'.ws = repo.ws /\ repo'.meta = repo.meta
         /\ \A b \in Autos : \/ repo'.src[b] = repo.src[b]
                             \/ rec[b].status \notin Gone /\ rec'[b].status \notin Gone
         /\ \A b \in Autos :
              \/ rec'[b] = rec[b]
              \/ rec'[b].status \notin Gone /\ rec[b].status \notin Gone /\ rec'[b].purge = rec[b].purge
              \/ /\ rec'[b].status = "PURGE_PENDING" /\ repo' = repo
                 /\ rec'[b].purge.todo = Owned(b) /\ rec'[b].purge.busy = {}
<1> DEFINE r == rec[a]
<1>1. r \in Records /\ CursorShape(r) /\ StatusShape(r) /\ rec \in [Autos -> Records]
  BY DEF RecordInv, GoodRecord
<1>2. \A b \in Autos : b # a => rec'[b] = rec[b]
  BY <1>1 DEF UserMutation, CreateProposal, StageRevision, ApproveRevision, PauseAutomation,
              ResumeAutomation, CancelAutomation, BeginPurge
<1>3. CASE BeginPurge(a)
  <2> DEFINE s == [Absent EXCEPT !.status = "PURGE_PENDING", !.next = r.next,
                                 !.count = r.count, !.purge.todo = Owned(a)]
  <2>1. rec' = [rec EXCEPT ![a] = s] /\ r.claim = NoClaim /\ r.status = "CANCELED" /\ repo' = repo
    BY <1>3 DEF BeginPurge, Claimed
  <2>2. /\ s.status = "PURGE_PENDING" /\ s.claim = NoClaim /\ s.phase = "none" /\ s.hist = <<>>
        /\ s.purge.todo = Owned(a) /\ s.purge.busy = {}
    BY DEF Absent, NoPurge
  <2> HIDE DEF s
  <2>3. r.phase = "none"
    BY <1>1, <2>1 DEF StatusShape
  <2>4. rec'[a] = s
    BY <1>1, <2>1
  <2>5. SameClaims
    BY <2>1, <2>2, <2>3, OneRewritten DEF Gone
  <2> QED BY <1>2, <2>1, <2>2, <2>4, <2>5
<1>4. CASE ~BeginPurge(a)
  <2> DEFINE Good(s) ==
               /\ rec' = [rec EXCEPT ![a] = s]
               /\ s.claim = r.claim /\ s.phase = r.phase /\ s.hist = r.hist /\ s.purge = r.purge
               /\ r.status \notin Gone /\ s.status \notin Gone
               /\ r.claim # NoClaim /\ r.status = "CANCEL_PENDING" => s.status = "CANCEL_PENDING"
  <2>1. PICK s : Good(s)
    <3>1. CASE CreateProposal(a)
      <4> DEFINE s == [r EXCEPT !.status = "PROPOSAL", !.draft = 1]
      <4>1. rec' = [rec EXCEPT ![a] = s]
        BY <1>1, <3>1 DEF CreateProposal
      <4> QED BY <1>1, <3>1, <4>1 DEF CreateProposal, Gone, Records
    <3>2. CASE StageRevision(a)
      <4> DEFINE newest == IF r.draft > r.rev THEN r.draft ELSE r.rev
                 s == [r EXCEPT !.draft = newest + 1]
      <4>1. rec' = [rec EXCEPT ![a] = s]
        BY <1>1, <3>2 DEF StageRevision
      <4> HIDE DEF newest
      <4>2. r.status \notin Gone
        BY <3>2 DEF StageRevision, Gone
      <4>3. /\ s.claim = r.claim /\ s.phase = r.phase /\ s.hist = r.hist /\ s.purge = r.purge
            /\ s.status = r.status
        BY <1>1 DEF Records
      <4> QED BY <4>1, <4>2, <4>3
    <3>3. CASE ApproveRevision(a)
      <4> DEFINE st == IF r.status \in {"PAUSED", "CANCEL_PENDING"} THEN r.status ELSE "ACTIVE"
                 s == [r EXCEPT !.rev = r.draft, !.draft = 0, !.next = 0, !.count = 0,
                                !.status = st]
      <4>1. rec' = [rec EXCEPT ![a] = s]
        BY <1>1, <3>3 DEF ApproveRevision
      <4>2. r.status \notin Gone
        BY <1>1, <3>3 DEF ApproveRevision, StatusShape
      <4>3. st \notin Gone /\ (r.status = "CANCEL_PENDING" => st = "CANCEL_PENDING")
        BY DEF Gone
      <4> HIDE DEF st
      <4>4. /\ s.claim = r.claim /\ s.phase = r.phase /\ s.hist = r.hist /\ s.purge = r.purge
            /\ s.status = st
        BY <1>1 DEF Records
      <4> QED BY <4>1, <4>2, <4>3, <4>4
    <3>4. CASE PauseAutomation(a)
      <4> DEFINE s == [r EXCEPT !.status = "PAUSED"]
      <4>1. rec' = [rec EXCEPT ![a] = s]
        BY <1>1, <3>4 DEF PauseAutomation
      <4> QED BY <1>1, <3>4, <4>1 DEF PauseAutomation, Gone, Records
    <3>5. CASE ResumeAutomation(a)
      <4> DEFINE s == [r EXCEPT !.status = "ACTIVE"]
      <4>1. rec' = [rec EXCEPT ![a] = s]
        BY <1>1, <3>5 DEF ResumeAutomation
      <4> QED BY <1>1, <3>5, <4>1 DEF ResumeAutomation, Gone, Records
    <3>6. CASE CancelAutomation(a)
      <4> DEFINE st == IF Claimed(a) THEN "CANCEL_PENDING" ELSE "CANCELED"
                 s == [r EXCEPT !.status = st]
      <4>1. rec' = [rec EXCEPT ![a] = s]
        BY <1>1, <3>6 DEF CancelAutomation
      <4>2. st \notin Gone /\ (r.claim # NoClaim => st = "CANCEL_PENDING")
        BY DEF Gone, Claimed
      <4> HIDE DEF st
      <4>3. /\ s.claim = r.claim /\ s.phase = r.phase /\ s.hist = r.hist /\ s.purge = r.purge
            /\ s.status = st
        BY <1>1 DEF Records
      <4>4. r.status \notin Gone
        BY <3>6 DEF CancelAutomation, Gone
      <4> QED BY <4>1, <4>2, <4>3, <4>4
    <3>7. \E s : Good(s)
      BY <1>4, <3>1, <3>2, <3>3, <3>4, <3>5, <3>6 DEF UserMutation
    <3> QED BY <3>7
  <2>2. /\ rec' = [rec EXCEPT ![a] = s]
        /\ s.claim = r.claim /\ s.phase = r.phase /\ s.hist = r.hist /\ s.purge = r.purge
        /\ r.status \notin Gone /\ s.status \notin Gone
        /\ r.claim # NoClaim /\ r.status = "CANCEL_PENDING" => s.status = "CANCEL_PENDING"
    BY <2>1
  <2> HIDE DEF Good
  <2>3. rec'[a] = s
    BY <1>1, <2>2
  <2>4. SameClaims
    BY <2>2, OneRewritten
  <2>5. \/ repo' = repo
        \/ repo' = [repo EXCEPT !.src[a] = "live"]
    BY <1>4 DEF UserMutation, CreateProposal, StageRevision, ApproveRevision, PauseAutomation,
              ResumeAutomation, CancelAutomation
  <2>6. /\ repo'.ws = repo.ws /\ repo'.meta = repo.meta
        /\ \A b \in Autos : b # a => repo'.src[b] = repo.src[b]
    BY <2>5 DEF RepoInv
  <2>7. \A b \in Autos : b # a => rec'[b] = rec[b] /\ repo'.src[b] = repo.src[b]
    BY <1>2, <2>6
  <2>8. r.status \notin Gone /\ rec'[a].status \notin Gone /\ rec'[a].purge = r.purge
    BY <2>2, <2>3
  <2> HIDE DEF r
  <2> QED BY <2>4, <2>6, <2>7, <2>8 DEF r
<1> QED BY <1>3, <1>4

LEMMA PurgeFacts ==
  ASSUME RecordInv, NEW w \in Wakes, StartPurge(w) \/ ConfirmPurge(w) \/ FinishPurge(w)
  PROVE  SameClaims
<1>1. ASSUME NEW a \in Autos, NEW s, rec[a].status = "PURGE_PENDING",
             rec' = [rec EXCEPT ![a] = s], s.status \in Gone, s.hist = <<>>,
             s.claim = NoClaim, s.phase = "none"
      PROVE  SameClaims
  <2>1. rec[a].claim = NoClaim /\ rec[a].phase = "none" /\ rec[a].hist = <<>>
    BY <1>1 DEF RecordInv, GoodRecord, StatusShape, Open, Gone
  <2> QED BY <1>1, <2>1, OneRewritten
<1>2. ASSUME NEW a \in Autos, NEW p, rec[a].status = "PURGE_PENDING",
             rec' = [rec EXCEPT ![a] = [rec[a] EXCEPT !.purge = p]]
      PROVE  SameClaims
  <2> DEFINE s == [rec[a] EXCEPT !.purge = p]
  <2>1. rec[a] \in Records
    BY DEF RecordInv
  <2>2. s.claim = rec[a].claim /\ s.phase = rec[a].phase /\ s.hist = rec[a].hist
        /\ s.status = rec[a].status
    BY <2>1 DEF Records
  <2>3. rec' = [rec EXCEPT ![a] = s]
    BY <1>2
  <2> HIDE DEF s
  <2> QED BY <2>2, <2>3, OneRewritten
<1>3. CASE StartPurge(w)
  <2>1. PICK a \in Autos : \E x \in rec[a].purge.todo : MayStartPurge(a, x) /\ StartPurgeIt(a, x)
    BY <1>3 DEF StartPurge
  <2>2. PICK x : MayStartPurge(a, x) /\ StartPurgeIt(a, x)
    BY <2>1
  <2> DEFINE p == [rec[a].purge EXCEPT !.busy = {x}]
  <2>3. rec' = [rec EXCEPT ![a] = [rec[a] EXCEPT !.purge = p]] /\ rec[a].status = "PURGE_PENDING"
    BY <2>2 DEF StartPurgeIt, MayStartPurge
  <2> HIDE DEF p
  <2> QED BY <1>2, <2>3
<1>4. CASE ConfirmPurge(w)
  <2> DEFINE o == Occ(w)
             a == o.auto
             x == [kind |-> o.kind, rev |-> o.rev, idx |-> o.idx]
             cleaned == wake[w].out = "ok"
  <2>1. MayProgress(a, x) /\ ProgressIt(a, x, cleaned)
    BY <1>4 DEF ConfirmPurge
  <2> HIDE DEF x, cleaned
  <2>2. CASE a \notin Autos
    <3>1. rec' = rec
      BY <2>1, <2>2 DEF ProgressIt, RecordInv
    <3> QED BY <3>1 DEF SameClaims
  <2>3. CASE a \in Autos
    <3> DEFINE p == IF cleaned THEN [rec[a].purge EXCEPT !.todo = @ \ {x}, !.busy = {}]
                               ELSE [rec[a].purge EXCEPT !.stuck = TRUE]
    <3>1. rec[a] \in Records
      BY <2>3 DEF RecordInv
    <3>2. rec' = [rec EXCEPT ![a] = [rec[a] EXCEPT !.purge = p]]
      BY <2>1, <2>3, <3>1 DEF ProgressIt, Records, Purges
    <3> HIDE DEF p
    <3> QED BY <1>2, <2>1, <2>3, <3>2 DEF MayProgress
  <2> QED BY <2>2, <2>3
<1>5. CASE FinishPurge(w)
  <2>1. PICK a \in Autos : MayFinishPurge(a) /\ FinishPurgeIt(a)
    BY <1>5 DEF FinishPurge
  <2> DEFINE s == [Absent EXCEPT !.status = "PURGED"]
  <2>2. rec' = [rec EXCEPT ![a] = s] /\ rec[a].status = "PURGE_PENDING"
    BY <2>1 DEF MayFinishPurge, FinishPurgeIt
  <2>3. s.status \in Gone /\ s.hist = <<>> /\ s.claim = NoClaim /\ s.phase = "none"
    BY DEF Absent, Gone
  <2> HIDE DEF s
  <2> QED BY <1>1, <2>2, <2>3
<1> QED BY <1>3, <1>4, <1>5

LEMMA RecordCases ==
  ASSUME RecordInv, RepoInv, [Next]_vars
  PROVE  \/ SameClaims
         \/ \E w \in Wakes : Claim(w) \/ Dispatch(w) \/ Started(w) \/ RecordOutcome(w)
<1>1. ASSUME UNCHANGED rec PROVE SameClaims
  BY <1>1 DEF SameClaims
<1>2. CASE UserStep
  BY <1>2, UserFacts DEF UserStep
<1>3. ASSUME NEW w \in Wakes, Begin(w)
      PROVE  SameClaims
  <2>1. CASE ObserveClaim(w) \/ Decide(w) \/ DeletePurge(w)
    <3>1. UNCHANGED rec
      BY <2>1 DEF ObserveClaim, Decide, DeletePurge
    <3> QED BY <1>1, <3>1
  <2> QED BY <1>3, <2>1, PurgeFacts DEF Begin
<1>4. ASSUME NEW w \in Wakes, Go(w), ~Claim(w), ~Dispatch(w), ~Started(w), ~RecordOutcome(w)
      PROVE  SameClaims
  <2>1. CASE \/ Materialize(w) \/ Initialize(w) \/ Admit(w) \/ Execute(w)
             \/ HandshakeFails(w) \/ Result(w) \/ NoResult(w) \/ Recover(w)
             \/ Recovered(w) \/ CaptureAndCleanup(w) \/ Raise(w)
    <3>1. UNCHANGED rec
      BY <2>1 DEF Materialize, Initialize, Admit, Execute, HandshakeFails, Result, NoResult,
                  Recover, Recovered, CaptureAndCleanup, Raise
    <3> QED BY <1>1, <3>1
  <2> QED BY <1>4, <2>1, PurgeFacts DEF Go
<1>5. ASSUME NEW w \in Wakes, Runner(w) \/ Crash(w)
      PROVE  SameClaims
  <2>1. UNCHANGED rec
    BY <1>5 DEF Runner, RunTurn, EndTurn, OrphanEnds, Crash
  <2> QED BY <1>1, <2>1
<1>6. CASE Time \/ UNCHANGED vars
  BY <1>1, <1>6 DEF Time, Tick, vars
<1> QED BY <1>2, <1>3, <1>4, <1>5, <1>6 DEF Next

LEMMA OneHolder ==
  ASSUME NEW o \in Occurrences, NEW p \in Occurrences, o.auto = p.auto, Holds(o), Holds(p)
  PROVE  o = p
<1>1. o.rev = p.rev /\ o.idx = p.idx
  BY DEF Holds
<1> QED BY <1>1 DEF Occurrences

\* Only an outcome takes a claim away.
LEMMA ClaimLost ==
  ASSUME RecordInv, RepoInv, PlaceInv, [Next]_vars, NEW o \in Occurrences, Holds(o)
  PROVE  Holds(o)' \/ \E w \in Wakes : /\ RecordOutcome(w) /\ Occ(w) = o
                                       /\ wake[w].out # "UNRESOLVED"
<1>1. o.auto \in Autos /\ rec[o.auto].claim = [rev |-> o.rev, idx |-> o.idx]
      /\ rec[o.auto].claim # NoClaim
  BY DEF Occurrences, Holds, NoClaim
<1>2. rec'[o.auto].claim = rec[o.auto].claim => Holds(o)'
  BY DEF Holds
<1>3. CASE SameClaims
  BY <1>1, <1>2, <1>3 DEF SameClaims
<1>4. ASSUME NEW w \in Wakes, Claim(w)
      PROVE  FALSE
  <2>1. Occ(w) \in Occurrences
    BY <1>4, WorkingOcc DEF Claim, At, Working
  <2>2. NoClaims
    BY <1>4, <2>1, ClaimFacts
  <2> QED BY <1>1, <2>2 DEF NoClaims, Claimed
<1>5. ASSUME NEW w \in Wakes, Dispatch(w) \/ Started(w)
      PROVE  Holds(o)'
  <2>1. Occ(w) \in Occurrences
    BY <1>5, WorkingOcc DEF Dispatch, Started, At, Working
  <2> QED BY <1>1, <1>2, <1>5, <2>1, PhaseFacts
<1>6. ASSUME NEW w \in Wakes, RecordOutcome(w), ~Holds(o)'
      PROVE  Occ(w) = o /\ wake[w].out # "UNRESOLVED"
  <2>1. Occ(w) \in Occurrences
    BY <1>6, WorkingOcc DEF RecordOutcome, At, Working
  <2>2. PICK p \in Occurrences : Occ(w) = p
    BY <2>1
  <2>3. /\ Holds(p) /\ (o.auto # p.auto => rec'[o.auto] = rec[o.auto])
        /\ wake[w].out = "UNRESOLVED" => Holds(p)'
    BY <1>1, <1>6, <2>2, OutcomeFacts
  <2>4. o.auto = p.auto
    BY <1>2, <1>6, <2>3
  <2>5. o = p
    BY <2>3, <2>4, OneHolder
  <2> QED BY <1>6, <2>2, <2>3, <2>5
<1> QED BY <1>3, <1>4, <1>5, <1>6, RecordCases

-----------------------------------------------------------------------------
(* One wake at a time                                                      *)

\* While a wake takes a step, the others are idle and stay so.
LEMMA OthersIdle ==
  ASSUME Overlap = {}, Alone, PlaceInv, NEW w \in Wakes, Begin(w) \/ Go(w) \/ Crash(w)
  PROVE  \A v \in Wakes : v # w => wake'[v] = wake[v] /\ At(v, "idle")
<1>1. \A v \in Wakes : v # w => wake'[v] = wake[v]
  <2>1. CASE Begin(w)
    BY <2>1 DEF Begin, ObserveClaim, Decide, StartPurge, DeletePurge, FinishPurge, Confirm, PlaceInv
  <2>2. CASE Crash(w)
    BY <2>2 DEF Crash, Leave, PlaceInv
  <2>3. CASE Go(w)
    BY <2>3 DEF Go, Claim, Materialize, Initialize, Admit, Dispatch, Started, Execute,
                HandshakeFails, Result, NoResult, Recover, Recovered, CaptureAndCleanup,
                RecordOutcome, ConfirmPurge, Raise, Goto, ToRecord, Leave, PlaceInv
  <2> QED BY <2>1, <2>2, <2>3
<1>2. CASE Begin(w)
  BY <1>1, <1>2 DEF Begin, ObserveClaim, Decide, StartPurge, DeletePurge, FinishPurge, Starts
<1>3. CASE Go(w) \/ Crash(w)
  <2>1. ~At(w, "idle")
    BY <1>3 DEF Go, Crash, Claim, Materialize, Initialize, Admit, Dispatch, Started, Execute,
                HandshakeFails, Result, NoResult, Recover, Recovered, CaptureAndCleanup,
                RecordOutcome, ConfirmPurge, Raise, Raises, At
  <2> QED BY <1>1, <2>1 DEF Alone
<1> QED BY <1>2, <1>3

LEMMA AloneStep ==
  ASSUME Overlap = {}, Alone, PlaceInv, [Next]_vars
  PROVE  Alone'
<1>1. ASSUME NEW w \in Wakes, Begin(w) \/ Go(w) \/ Crash(w)
      PROVE  Alone'
  BY <1>1, OthersIdle DEF Alone, At
<1>2. ASSUME UNCHANGED wake PROVE Alone'
  BY <1>2 DEF Alone, At
<1>3. ASSUME NEW w \in Wakes, Runner(w)
      PROVE  UNCHANGED wake
  BY <1>3 DEF Runner, RunTurn, EndTurn, OrphanEnds
<1>4. UserStep \/ Time \/ UNCHANGED vars => UNCHANGED wake
  BY DEF UserStep, Time, vars
<1> QED BY <1>1, <1>2, <1>3, <1>4 DEF Next

LEMMA RunnerKept ==
  ASSUME RunnerInv, UNCHANGED file,
         \A v \in Wakes : run'[v].pc \in {"turn", "end"} => run'[v] = run[v]
  PROVE  RunnerInv'
BY DEF RunnerInv

\* One runner ends; if it says that the turn is completed, the file says so.
LEMMA RunnerEnds ==
  ASSUME RunnerInv, NEW w \in Wakes, UNCHANGED file,
         \A v \in Wakes : v # w => run'[v] = run[v],
         run'[w].pc = "end", run'[w].out \in Ends \cup {"UNRESOLVED"},
         run'[w].out = "COMPLETED" => file[run'[w].occ] = "COMPLETED"
  PROVE  RunnerInv'
<1>1. \A v \in Wakes : run'[v].pc = "turn" => v # w /\ run'[v] = run[v]
  OBVIOUS
<1>2. \A v \in Wakes : run'[v].pc = "turn" => file'[run'[v].occ] = "begun"
  BY <1>1 DEF RunnerInv
<1>3. ASSUME NEW v \in Wakes, run'[v].pc = "end"
      PROVE  /\ run'[v].out \in Ends \cup {"UNRESOLVED"}
             /\ run'[v].out = "COMPLETED" => file'[run'[v].occ] = "COMPLETED"
  <2>1. CASE v = w
    BY <2>1
  <2>2. CASE v # w
    BY <1>3, <2>2 DEF RunnerInv
  <2> QED BY <2>1, <2>2
<1>4. \A u, v \in Wakes :
        run'[u].pc = "turn" /\ run'[v].pc = "turn" /\ run'[u].occ = run'[v].occ => u = v
  BY <1>1 DEF RunnerInv
<1> QED BY <1>2, <1>3, <1>4 DEF RunnerInv

\* What a start or the end of a turn does to the checkpoint and to its runner.
LEMMA TurnMoves ==
  ASSUME PlaceInv, TurnInv, RunnerInv, NEW w \in Wakes, NEW o, o = run[w].occ,
         RunTurn(w) \/ EndTurn(w)
  PROVE  /\ o \in Occurrences /\ \A v \in Wakes : v # w => run'[v] = run[v]
         /\ run'[w].occ = o /\ UNCHANGED <<rec, repo, wake>>
         /\ RunTurn(w) =>
              /\ run[w].pc = "start" /\ Composes(o)
              /\ \/ /\ UNCHANGED file /\ run'[w].pc = "end"
                    /\ run'[w].out \in Ends \cup {"UNRESOLVED"}
                    /\ run'[w].out = "COMPLETED" => file[o] = "COMPLETED"
                    /\ run'[w].out \in Ends => ~Busy(o)
                 \/ /\ ~Busy(o) /\ file[o] \in {"fresh", "begun"}
                    /\ file' = [file EXCEPT ![o] = "begun"]
                    /\ run'[w].pc = "turn"
         /\ EndTurn(w) =>
              /\ run[w].pc = "turn" /\ file[o] = "begun"
              /\ run'[w].pc = "end" /\ run'[w].out \in Ends \cup {"UNRESOLVED"}
              /\ \E f \in Files \ {"none", "fresh"} :
                   /\ file' = [file EXCEPT ![o] = f]
                   /\ run'[w].out = "COMPLETED" => f = "COMPLETED"
<1>1. o \in Occurrences /\ run[w] \in RunPlaces
  BY DEF RunTurn, EndTurn, PlaceInv
<1>2. CASE RunTurn(w)
  <2>1. run[w].pc = "start" /\ Composes(o) /\ UNCHANGED <<rec, repo, wake>>
    BY <1>2 DEF RunTurn
  <2>2. ASSUME NEW out, run' = [run EXCEPT ![w].pc = "end", ![w].out = out]
        PROVE  /\ run'[w].pc = "end" /\ run'[w].out = out /\ run'[w].occ = o
               /\ \A v \in Wakes : v # w => run'[v] = run[v]
    BY <1>1, <2>2 DEF PlaceInv, RunPlaces
  <2>3. ASSUME run' = [run EXCEPT ![w].pc = "turn"]
        PROVE  /\ run'[w].pc = "turn" /\ run'[w].occ = o
               /\ \A v \in Wakes : v # w => run'[v] = run[v]
    BY <1>1, <2>3 DEF PlaceInv, RunPlaces
  <2>4. file[o] = "begun" /\ UNCHANGED file => file' = [file EXCEPT ![o] = "begun"]
    BY DEF TurnInv
  <2>5. ~EndTurn(w)
    BY <2>1 DEF EndTurn
  <2>6. \/ \E out \in Ends \cup {"UNRESOLVED"} :
             /\ UNCHANGED file
             /\ run' = [run EXCEPT ![w].pc = "end", ![w].out = out]
             /\ out = "COMPLETED" => file[o] = "COMPLETED"
             /\ out \in Ends => ~Busy(o)
        \/ /\ ~Busy(o) /\ file[o] \in {"fresh", "begun"}
           /\ file' = [file EXCEPT ![o] = "begun"]
           /\ run' = [run EXCEPT ![w].pc = "turn"]
    BY <1>2, <2>4 DEF RunTurn, FirstTurn, Ends
  <2> HIDE DEF Ends
  <2> QED BY <1>1, <2>1, <2>2, <2>3, <2>5, <2>6
<1>3. CASE EndTurn(w)
  <2>1. run[w].pc = "turn" /\ file[o] = "begun" /\ UNCHANGED <<rec, repo, wake>>
    BY <1>3 DEF EndTurn, RunnerInv
  <2>2. file = [file EXCEPT ![o] = "begun"]
    BY <2>1 DEF TurnInv
  <2>3. PICK out \in Ends \cup {"UNRESOLVED"}, f \in Files \ {"none", "fresh"} :
          /\ file' = [file EXCEPT ![o] = f]
          /\ out = "COMPLETED" => f = "COMPLETED"
          /\ run' = [run EXCEPT ![w].pc = "end", ![w].out = out]
    BY <1>3, <2>2 DEF EndTurn, Files, Ends
  <2>4. /\ run'[w].pc = "end" /\ run'[w].out = out /\ run'[w].occ = o
        /\ \A v \in Wakes : v # w => run'[v] = run[v]
    BY <1>1, <2>3 DEF PlaceInv, RunPlaces
  <2>5. ~RunTurn(w)
    BY <2>1 DEF RunTurn
  <2> QED BY <1>1, <2>1, <2>3, <2>4, <2>5
<1> QED BY <1>2, <1>3

\* The runners know the file.
LEMMA RunnerStep ==
  ASSUME PlaceInv, TurnInv, RunnerInv, [Next]_vars
  PROVE  RunnerInv'
<1>1. CASE UNCHANGED <<file, run>>
  BY <1>1, RunnerKept
<1>2. ASSUME NEW w \in Wakes, Initialize(w)
      PROVE  RunnerInv'
  <2>1. Occ(w) \in Occurrences
    BY <1>2, WorkingOcc DEF Initialize, At, Working
  <2>2. /\ file' = [file EXCEPT ![Occ(w)] = IF file[Occ(w)] = "none" THEN "fresh"
                                                                 ELSE file[Occ(w)]]
        /\ UNCHANGED run
    BY <1>2 DEF Initialize
  <2>3. \A o \in Occurrences : file[o] # "none" => file'[o] = file[o]
    BY <2>1, <2>2 DEF TurnInv
  <2>4. \A v \in Wakes : run[v].pc # "none" => run[v].occ \in Occurrences
    BY DEF PlaceInv
  <2> QED BY <2>2, <2>3, <2>4 DEF RunnerInv, Ends
<1>3. ASSUME NEW w \in Wakes, RunTurn(w) \/ EndTurn(w)
      PROVE  RunnerInv'
  <2>1. PICK o : o = run[w].occ
    OBVIOUS
  <2>2. /\ o \in Occurrences /\ run'[w].occ = o
        /\ \A v \in Wakes : v # w => run'[v] = run[v]
    BY <1>3, <2>1, TurnMoves
  <2>3. \A v \in Wakes : run[v].pc # "none" => run[v].occ \in Occurrences
    BY DEF PlaceInv
  \* A turn begins or is taken up.
  <2>4. CASE /\ ~Busy(o) /\ file[o] \in {"fresh", "begun"}
             /\ file' = [file EXCEPT ![o] = "begun"]
             /\ run'[w].pc = "turn"
    <3>1. \A b \in Occurrences : file'[b] = IF b = o THEN "begun" ELSE file[b]
      BY <2>2, <2>4 DEF TurnInv
    <3>2. \A v \in Wakes : run[v].occ = o => run[v].pc # "turn"
      BY <2>4 DEF Busy
    <3>3. \A v \in Wakes : run'[v].pc = "turn" => file'[run'[v].occ] = "begun"
      BY <2>2, <2>3, <2>4, <3>1 DEF RunnerInv
    <3>4. ASSUME NEW v \in Wakes, run'[v].pc = "end"
          PROVE  /\ run'[v].out \in Ends \cup {"UNRESOLVED"}
                 /\ run'[v].out = "COMPLETED" => file'[run'[v].occ] = "COMPLETED"
      <4>1. v # w /\ run'[v] = run[v] /\ run[v].occ \in Occurrences
        BY <2>2, <2>3, <2>4, <3>4
      <4>2. run[v].out = "COMPLETED" => file[run[v].occ] = "COMPLETED" /\ run[v].occ # o
        BY <2>4, <3>4, <4>1 DEF RunnerInv
      <4> QED BY <3>1, <3>4, <4>1, <4>2 DEF RunnerInv
    <3>5. \A u, v \in Wakes :
            run'[u].pc = "turn" /\ run'[v].pc = "turn" /\ run'[u].occ = run'[v].occ => u = v
      BY <2>2, <3>2 DEF RunnerInv
    <3> QED BY <3>3, <3>4, <3>5 DEF RunnerInv
  \* A turn ends.
  <2>5. CASE EndTurn(w)
    <3>1. /\ run[w].pc = "turn" /\ file[o] = "begun"
          /\ run'[w].pc = "end" /\ run'[w].out \in Ends \cup {"UNRESOLVED"}
      BY <2>1, <2>5, TurnMoves
    <3>2. PICK f : /\ file' = [file EXCEPT ![o] = f]
                   /\ run'[w].out = "COMPLETED" => f = "COMPLETED"
      BY <2>1, <2>5, TurnMoves
    <3>3. \A b \in Occurrences : file'[b] = IF b = o THEN f ELSE file[b]
      BY <2>2, <3>2 DEF TurnInv
    <3>4. \A v \in Wakes : v # w /\ run[v].occ = o => run[v].pc # "turn"
      BY <2>1, <3>1 DEF RunnerInv
    <3>5. \A v \in Wakes : run'[v].pc = "turn" => file'[run'[v].occ] = "begun"
      BY <2>2, <2>3, <3>1, <3>3, <3>4 DEF RunnerInv
    <3>6. ASSUME NEW v \in Wakes, run'[v].pc = "end"
          PROVE  /\ run'[v].out \in Ends \cup {"UNRESOLVED"}
                 /\ run'[v].out = "COMPLETED" => file'[run'[v].occ] = "COMPLETED"
      <4>1. CASE v = w
        BY <2>2, <3>1, <3>2, <3>3, <4>1
      <4>2. CASE v # w
        <5>1. run'[v] = run[v] /\ run[v].occ \in Occurrences
          BY <2>2, <2>3, <3>6, <4>2
        <5>2. run[v].out = "COMPLETED" => file[run[v].occ] = "COMPLETED" /\ run[v].occ # o
          BY <3>1, <3>6, <5>1 DEF RunnerInv
        <5> QED BY <3>3, <3>6, <5>1, <5>2 DEF RunnerInv
      <4> QED BY <4>1, <4>2
    <3>7. \A u, v \in Wakes :
            run'[u].pc = "turn" /\ run'[v].pc = "turn" /\ run'[u].occ = run'[v].occ => u = v
      BY <2>2, <3>1 DEF RunnerInv
    <3> QED BY <3>5, <3>6, <3>7 DEF RunnerInv
  \* A run ends without a turn.
  <2>6. CASE /\ UNCHANGED file /\ run'[w].pc = "end"
             /\ run'[w].out \in Ends \cup {"UNRESOLVED"}
             /\ run'[w].out = "COMPLETED" => file[o] = "COMPLETED"
    BY <2>2, <2>6, RunnerEnds
  <2> QED BY <1>3, <2>1, <2>4, <2>5, <2>6, TurnMoves
<1>4. ASSUME NEW w \in Wakes,
             \/ Execute(w) \/ Result(w) \/ NoResult(w) \/ Recover(w) \/ Recovered(w)
             \/ Raise(w) \/ Crash(w) \/ OrphanEnds(w)
      PROVE  RunnerInv'
  <2>1. UNCHANGED file
    BY <1>4 DEF Execute, Result, NoResult, Recover, Recovered, Raise, Crash, OrphanEnds, world
  <2>2. \/ run' = run \/ run' = [run EXCEPT ![w] = NoRun]
        \/ run' = [run EXCEPT ![w] = [pc |-> "start", occ |-> Occ(w), out |-> "none"]]
    BY <1>4 DEF Execute, Result, NoResult, Recover, Recovered, Raise, Crash, OrphanEnds, Ended
  <2>3. \A v \in Wakes : run'[v].pc \in {"turn", "end"} => run'[v] = run[v]
    BY <2>2 DEF PlaceInv, NoRun
  <2> QED BY <2>1, <2>3, RunnerKept
<1>5. ASSUME NEW w \in Wakes,
             \/ Begin(w) \/ Claim(w) \/ Materialize(w) \/ Admit(w) \/ Dispatch(w)
             \/ Started(w) \/ HandshakeFails(w) \/ CaptureAndCleanup(w)
             \/ RecordOutcome(w) \/ ConfirmPurge(w)
      PROVE  RunnerInv'
  BY <1>1, <1>5
     DEF Begin, ObserveClaim, Decide, StartPurge, DeletePurge, FinishPurge, Claim, Materialize,
         Admit, Dispatch, Started, HandshakeFails, CaptureAndCleanup, RecordOutcome,
         ConfirmPurge, world
<1>6. CASE UserStep \/ Time \/ UNCHANGED vars
  BY <1>1, <1>6 DEF UserStep, Time, vars, world
<1> QED BY <1>2, <1>3, <1>4, <1>5, <1>6 DEF Next, Go, Runner

\* Runners go away, and no wake comes to wait for one or leaves a recovery behind.
LEMMA StartKept ==
  ASSUME StartInv, PlaceInv,
         \A o \in Occurrences : file'[o] \in {"none", "fresh"} <=> file[o] \in {"none", "fresh"},
         \A v \in Wakes : run'[v] \in {run[v], NoRun},
         \A v \in Wakes : At(v, "rerun") /\ run'[v].pc = "start" => At(v, "rerun")',
         \A v \in Wakes : wake'[v].pc \in {"wait", "rerun"} => wake[v].pc \in {"wait", "rerun"}
  PROVE  StartInv'
<1>1. \A v \in Wakes : run'[v].pc # "none" => run'[v] = run[v] /\ run[v].occ \in Occurrences
  BY DEF NoRun, PlaceInv
<1>2. \A o : Quiet(o) => Quiet(o)'
  BY <1>1 DEF Quiet
<1>3. \A w \in Wakes :
        run'[w].pc = "start" /\ file'[run'[w].occ] \notin {"none", "fresh"} => At(w, "rerun")'
  BY <1>1 DEF StartInv
<1>4. \A v, w \in Wakes :
        run'[v].pc = "start" /\ run'[w].pc = "start" /\ run'[v].occ = run'[w].occ => v = w
  BY <1>1 DEF StartInv
<1>5. ASSUME NEW w \in Wakes, wake'[w].pc \in {"wait", "rerun"}, run'[w].pc = "end",
             run'[w].out \in Ends, NEW o, o = run'[w].occ
      PROVE  Quiet(o)'
  <2>1. run'[w] = run[w] /\ Quiet(run[w].occ)
    BY <1>1, <1>5 DEF StartInv
  <2> QED BY <1>2, <1>5, <2>1
<1> QED BY <1>3, <1>4, <1>5 DEF StartInv

LEMMA StartStep ==
  ASSUME Overlap = {}, Alone, PlaceInv, TurnInv, StepInv, RunnerInv, StartInv, [Next]_vars
  PROVE  StartInv'
<1>1. ASSUME NEW w \in Wakes, Begin(w) \/ Go(w) \/ Crash(w), ~Execute(w), ~Recover(w)
      PROVE  StartInv'
  <2>1. \A v \in Wakes : v # w => wake'[v] = wake[v]
    BY <1>1, OthersIdle
  <2>2. \A o \in Occurrences : file'[o] \in {"none", "fresh"} <=> file[o] \in {"none", "fresh"}
    <3>1. CASE Initialize(w)
      <4>1. Occ(w) \in Occurrences
        BY <3>1, WorkingOcc DEF Initialize, At, Working
      <4> QED BY <3>1, <4>1 DEF Initialize, TurnInv
    <3>2. CASE UNCHANGED file
      BY <3>2
    <3> QED BY <1>1, <3>1, <3>2
         DEF Begin, Go, ObserveClaim, Decide, StartPurge, DeletePurge, FinishPurge, Claim,
             Materialize, Admit, Dispatch, Started, HandshakeFails, Result, NoResult,
             Recovered, CaptureAndCleanup, RecordOutcome, ConfirmPurge, Raise, Crash, world
  <2>3. /\ run' \in {run, [run EXCEPT ![w] = NoRun]}
        /\ At(w, "rerun") => run' = [run EXCEPT ![w] = NoRun]
    BY <1>1
       DEF Begin, Go, ObserveClaim, Decide, StartPurge, DeletePurge, FinishPurge, Claim,
           Materialize, Initialize, Admit, Dispatch, Started, HandshakeFails, Result,
           NoResult, Recovered, CaptureAndCleanup, RecordOutcome, ConfirmPurge, Raise,
           Raises, Crash, Ended, Starts, At
  <2>4. wake'[w].pc \notin {"wait", "rerun"}
    <3>1. CASE Begin(w)
      BY <3>1 DEF Begin, ObserveClaim, Decide, StartPurge, DeletePurge, FinishPurge,
                  Confirm, Starts, At, PlaceInv
    <3>2. CASE Crash(w)
      BY <3>2 DEF Crash, Leave, Idle, PlaceInv
    <3>3. CASE Go(w)
      <4>1. wake[w] \in WakePlaces
        BY DEF PlaceInv
      <4> QED BY <1>1, <3>3, <4>1
           DEF Go, Claim, Materialize, Initialize, Admit, Dispatch, Started, HandshakeFails,
               Result, NoResult, Recovered, CaptureAndCleanup, RecordOutcome, ConfirmPurge,
               Raise, Goto, ToRecord, Leave, Idle, PlaceInv, WakePlaces
    <3> QED BY <1>1, <3>1, <3>2, <3>3
  <2>5. \A v \in Wakes : run'[v] \in {run[v], NoRun}
    BY <2>3 DEF PlaceInv
  <2>6. \A v \in Wakes : At(v, "rerun") /\ run'[v].pc = "start" => At(v, "rerun")'
    BY <2>1, <2>3 DEF At, NoRun, PlaceInv
  <2> QED BY <2>1, <2>2, <2>4, <2>5, <2>6, StartKept
<1>2. ASSUME UNCHANGED <<file, wake>>, \A v \in Wakes : run'[v] \in {run[v], NoRun}
      PROVE  StartInv'
  BY <1>2, StartKept DEF At
<1>3. ASSUME NEW w \in Wakes, Execute(w) \/ Recover(w), run' # run
      PROVE  StartInv'
  <2>1. PICK o : o = Occ(w)
    OBVIOUS
  <2>2. /\ UNCHANGED file /\ wake'[w].pc \in {"wait", "rerun"}
        /\ run' = [run EXCEPT ![w] = [pc |-> "start", occ |-> o, out |-> "none"]]
        /\ wake'[w].pc = "wait" => At(w, "execute") /\ wake[w].occ = o
    BY <1>3, <2>1 DEF Execute, Recover, Goto, ToRecord, PlaceInv, WakePlaces, world, At, Occ
  <2>3. /\ run'[w].pc = "start" /\ run'[w].occ = o
        /\ \A v \in Wakes : v # w => run'[v] = run[v] /\ wake'[v] = wake[v] /\ At(v, "idle")
    BY <1>3, <2>2, OthersIdle DEF Go, PlaceInv
  <2>4. file[o] \notin {"none", "fresh"} => wake'[w].pc = "rerun"
    BY <2>1, <2>2 DEF StepInv, StepOk, Sound, At
  <2>5. ASSUME NEW v \in Wakes, v # w, run[v].pc = "start", run[v].occ = o
        PROVE  FALSE
    <3>1. file[o] \in {"none", "fresh"}
      BY <2>3, <2>5 DEF StartInv, At
    <3>2. Execute(w)
      BY <1>3, <2>1, <3>1 DEF Recover
    <3>3. Free(o)
      BY <2>1, <3>2 DEF Execute, StepInv, StepOk, Sound, At
    <3> QED BY <2>5, <3>3 DEF Free
  <2>6. \A v \in Wakes :
          run'[v].pc = "start" /\ file'[run'[v].occ] \notin {"none", "fresh"} => At(v, "rerun")'
    BY <2>2, <2>3, <2>4 DEF StartInv, At
  <2>7. \A u, v \in Wakes :
          run'[u].pc = "start" /\ run'[v].pc = "start" /\ run'[u].occ = run'[v].occ => u = v
    BY <2>3, <2>5 DEF StartInv
  <2>8. \A v \in Wakes : wake'[v].pc \in {"wait", "rerun"} => run'[v].pc = "start"
    BY <2>3 DEF At
  <2> QED BY <2>6, <2>7, <2>8 DEF StartInv
<1>4. ASSUME NEW w \in Wakes, Recover(w), run' = run
      PROVE  StartInv'
  <2>1. UNCHANGED file /\ \A v \in Wakes : v # w => wake'[v] = wake[v]
    BY <1>4, OthersIdle DEF Recover, world, Go
  <2>2. At(w, "recover")
    BY <1>4 DEF Recover
  <2>3. wake'[w].pc \notin {"wait"} /\ (wake'[w].pc = "rerun" => run'[w].pc = "start")
    BY <1>4 DEF Recover, Goto, ToRecord, PlaceInv, WakePlaces
  <2>4. \A v \in Wakes : v # w => (wake'[v].pc = wake[v].pc)
    BY <2>1
  <2>5. \A v \in Wakes :
          run'[v].pc = "start" /\ file'[run'[v].occ] \notin {"none", "fresh"} => At(v, "rerun")'
    BY <1>4, <2>1, <2>2, <2>4 DEF StartInv, At
  <2>6. \A u, v \in Wakes :
          run'[u].pc = "start" /\ run'[v].pc = "start" /\ run'[u].occ = run'[v].occ => u = v
    BY <1>4 DEF StartInv
  <2>7. ASSUME NEW v \in Wakes, wake'[v].pc \in {"wait", "rerun"}, run'[v].pc = "end",
               run'[v].out \in Ends, NEW o, o = run'[v].occ
        PROVE  Quiet(o)'
    <3>1. v # w
      BY <2>3, <2>7
    <3>2. Quiet(o)
      BY <1>4, <2>4, <2>7, <3>1 DEF StartInv
    <3> QED BY <1>4, <3>2 DEF Quiet
  <2> QED BY <2>5, <2>6, <2>7 DEF StartInv
<1>5. ASSUME NEW w \in Wakes, RunTurn(w) \/ EndTurn(w)
      PROVE  StartInv'
  <2>1. PICK o : o = run[w].occ
    OBVIOUS
  <2>2. /\ o \in Occurrences /\ run'[w].occ = o /\ UNCHANGED wake
        /\ \A v \in Wakes : v # w => run'[v] = run[v]
        /\ run[w].pc \in {"start", "turn"} /\ run'[w].pc \in {"turn", "end"}
    BY <1>5, <2>1, TurnMoves
  <2>3. \A v \in Wakes : run[v].pc # "none" => run[v].occ \in Occurrences
    BY DEF PlaceInv
  <2>4. \A p \in Occurrences : p # o => file'[p] = file[p]
    BY <1>5, <2>1, <2>2, TurnMoves DEF TurnInv
  \* Who else would start this checkpoint is the wake that has it in its hands.
  <2>5. ASSUME NEW v \in Wakes, v # w, run[v].pc = "start", run[v].occ = o
        PROVE  EndTurn(w) /\ At(v, "rerun")
    <3>1. EndTurn(w)
      BY <1>5, <2>1, <2>5, TurnMoves DEF StartInv
    <3>2. file[o] = "begun"
      BY <2>1, <3>1, TurnMoves
    <3> QED BY <2>5, <3>1, <3>2 DEF StartInv
  <2>6. \A v \in Wakes :
          run'[v].pc = "start" /\ file'[run'[v].occ] \notin {"none", "fresh"} => At(v, "rerun")'
    BY <2>2, <2>3, <2>4, <2>5 DEF StartInv, At
  <2>7. \A u, v \in Wakes :
          run'[u].pc = "start" /\ run'[v].pc = "start" /\ run'[u].occ = run'[v].occ => u = v
    BY <2>2 DEF StartInv
  <2>8. ASSUME NEW v \in Wakes, wake'[v].pc \in {"wait", "rerun"}, run'[v].pc = "end",
               run'[v].out \in Ends, NEW p, p = run'[v].occ
        PROVE  Quiet(p)'
    <3>1. CASE v # w
      <4>1. Quiet(p)
        BY <2>2, <2>8, <3>1 DEF StartInv
      <4>2. p # o
        BY <2>1, <2>2, <4>1 DEF Quiet
      <4> QED BY <2>2, <4>1, <4>2 DEF Quiet
    <3>2. CASE v = w
      <4>1. p = o
        BY <2>2, <2>8, <3>2
      <4>2. ASSUME NEW u \in Wakes, u # w, run[u].occ = o
            PROVE  run[u].pc \notin {"start", "turn"}
        <5>1. ~(run[u].pc = "turn" /\ EndTurn(w))
          BY <2>1, <4>2, TurnMoves DEF RunnerInv
        <5>2. ~(run[u].pc = "turn" /\ RunTurn(w))
          BY <2>1, <2>8, <3>2, <4>2, TurnMoves DEF Busy
        <5>3. run[u].pc # "start"
          BY <2>2, <2>5, <2>8, <3>2, <4>2 DEF Alone, At
        <5> QED BY <1>5, <5>1, <5>2, <5>3
      <4> QED BY <2>2, <2>8, <3>2, <4>1, <4>2 DEF Quiet
    <3> QED BY <3>1, <3>2
  <2> QED BY <2>6, <2>7, <2>8 DEF StartInv
<1>6. ASSUME NEW w \in Wakes, OrphanEnds(w)
      PROVE  StartInv'
  BY <1>2, <1>6 DEF OrphanEnds, world, PlaceInv
<1>7. CASE UserStep \/ Time \/ UNCHANGED vars
  BY <1>2, <1>7 DEF UserStep, Time, vars, world
<1>8. ~(\E w \in Wakes : Execute(w) /\ run' = run)
  <2>1. ASSUME NEW w \in Wakes, Execute(w), run' = run PROVE FALSE
    <3>1. run'[w].pc = "start" /\ run'[w].occ = Occ(w)
      BY <2>1 DEF Execute, PlaceInv
    <3>2. Free(Occ(w))
      BY <2>1 DEF Execute, StepInv, StepOk, Sound, At
    <3> QED BY <2>1, <3>1, <3>2 DEF Free
  <2> QED BY <2>1
<1> QED BY <1>1, <1>3, <1>4, <1>5, <1>6, <1>7, <1>8 DEF Next, Runner, Go

-----------------------------------------------------------------------------
(* The checkpoint and the workspace of an occurrence                       *)

\* A checkpoint is created, its turn begins, and it ends.
LEMMA FileChange ==
  ASSUME PlaceInv, TurnInv, RunnerInv, TurnSafe, [Next]_vars, NEW o \in Occurrences,
         file'[o] # file[o]
  PROVE  /\ Holds(o) /\ UNCHANGED rec
         /\ \/ file[o] = "none" /\ file'[o] = "fresh"
            \/ \E w \in Wakes : /\ run[w].pc \in {"start", "turn"} /\ run[w].occ = o
                                /\ UNCHANGED <<repo, wake>>
<1>1. ASSUME NEW w \in Wakes, Initialize(w)
      PROVE  file[o] = "none" /\ file'[o] = "fresh" /\ UNCHANGED rec /\ Holds(o)
  <2>1. Occ(w) \in Occurrences
    BY <1>1, WorkingOcc DEF Initialize, At, Working
  <2>2. file' = [file EXCEPT ![Occ(w)] = IF file[Occ(w)] = "none" THEN "fresh"
                                                                 ELSE file[Occ(w)]]
    BY <1>1 DEF Initialize
  <2> QED BY <1>1, <2>1, <2>2 DEF TurnInv, Initialize
<1>2. ASSUME NEW w \in Wakes, RunTurn(w) \/ EndTurn(w)
      PROVE  /\ UNCHANGED <<rec, repo, wake>> /\ Holds(o)
             /\ run[w].pc \in {"start", "turn"} /\ run[w].occ = o
  <2>1. PICK p : p = run[w].occ
    OBVIOUS
  <2>2. p \in Occurrences /\ UNCHANGED <<rec, repo, wake>> /\ run[w].pc \in {"start", "turn"}
    BY <1>2, <2>1, TurnMoves
  <2>3. \E f : file' = [file EXCEPT ![p] = f]
    BY <1>2, <2>1, TurnMoves
  <2>4. p = o
    BY <2>2, <2>3 DEF TurnInv
  <2>5. RunTurn(w) => Holds(o)
    BY <2>1, <2>4, TurnMoves DEF Composes
  <2>6. EndTurn(w) => Holds(o)
    BY <2>1, <2>4 DEF EndTurn, TurnSafe
  <2> QED BY <1>2, <2>1, <2>2, <2>4, <2>5, <2>6
<1>3. ASSUME NEW w \in Wakes,
             \/ Begin(w) \/ Claim(w) \/ Materialize(w) \/ Admit(w) \/ Dispatch(w)
             \/ Started(w) \/ Execute(w) \/ HandshakeFails(w) \/ Result(w) \/ NoResult(w)
             \/ Recover(w) \/ Recovered(w) \/ CaptureAndCleanup(w) \/ RecordOutcome(w)
             \/ ConfirmPurge(w) \/ Raise(w) \/ OrphanEnds(w) \/ Crash(w)
      PROVE  FALSE
  <2>1. UNCHANGED file
    BY <1>3 DEF Begin, ObserveClaim, Decide, StartPurge, DeletePurge, FinishPurge, Claim,
         Materialize, Admit, Dispatch, Started, Execute, HandshakeFails, Result, NoResult,
         Recover, Recovered, CaptureAndCleanup, RecordOutcome, ConfirmPurge, Raise,
         OrphanEnds, Crash, world
  <2> QED BY <2>1
<1>4. ~(UserStep \/ Time \/ UNCHANGED vars)
  BY DEF UserStep, Time, vars, world
<1> QED BY <1>1, <1>2, <1>3, <1>4 DEF Next, Go, Runner

\* A workspace is made by its wake, captured and deleted by it, or purged.
LEMMA WorkspaceChange ==
  ASSUME RecordInv, RepoInv, PlaceInv, [Next]_vars, NEW o \in Occurrences,
         repo'.ws[o] # repo.ws[o]
  PROVE  /\ UNCHANGED <<rec, file, run>>
         /\ \/ \E w \in Wakes : Materialize(w) /\ Occ(w) = o /\ repo'.ws[o] = "live"
            \/ \E w \in Wakes : CaptureAndCleanup(w) /\ Occ(w) = o
            \/ /\ repo'.ws[o] = "cleaned"
               /\ \E x \in rec[o.auto].purge.busy : x.kind = "workspace"
<1>1. ASSUME NEW a \in Autos, UserMutation(a)
      PROVE  FALSE
  BY <1>1, UserFacts
<1>2. ASSUME NEW w \in Wakes, Materialize(w)
      PROVE  UNCHANGED <<rec, file, run>> /\ Occ(w) = o /\ repo'.ws[o] = "live"
  <2>1. Occ(w) \in Occurrences
    BY <1>2, WorkingOcc DEF Materialize, At, Working
  <2>2. repo' = [repo EXCEPT !.ws[Occ(w)] = "live"]
    BY <1>2 DEF Materialize
  <2> QED BY <1>2, <2>1, <2>2 DEF Materialize, world, RepoInv
<1>3. ASSUME NEW w \in Wakes, Admit(w)
      PROVE  FALSE
  <2>1. repo' = [repo EXCEPT !.meta[Occ(w)] = IF @ = "none" THEN "live" ELSE @]
    BY <1>3 DEF Admit
  <2> QED BY <2>1 DEF RepoInv
<1>4. ASSUME NEW w \in Wakes, CaptureAndCleanup(w)
      PROVE  UNCHANGED <<rec, file, run>> /\ Occ(w) = o
  <2>1. Occ(w) \in Occurrences
    BY <1>4, WorkingOcc DEF CaptureAndCleanup, At, Working
  <2>2. \E v : repo' = [repo EXCEPT !.ws[Occ(w)] = v]
    BY <1>4 DEF CaptureAndCleanup
  <2> QED BY <1>4, <2>1, <2>2 DEF CaptureAndCleanup, world, RepoInv
<1>5. ASSUME NEW w \in Wakes, DeletePurge(w)
      PROVE  /\ UNCHANGED <<rec, file, run>> /\ repo'.ws[o] = "cleaned"
             /\ \E x \in rec[o.auto].purge.busy : x.kind = "workspace"
  <2>1. UNCHANGED <<rec, file, run>>
    BY <1>5 DEF DeletePurge, world
  <2>2. PICK a \in Autos : \E x \in rec[a].purge.busy : repo' = Deleted(a, x)
    BY <1>5 DEF DeletePurge
  <2>3. PICK x \in rec[a].purge.busy : repo' = Deleted(a, x)
    BY <2>2
  <2>4. x \in Objects
    BY DEF RecordInv, Records, Purges
  <2>5. x.kind \in {"source", "workspace", "checkpoint"}
    BY <2>4 DEF Objects
  <2>6. x.kind = "workspace" /\ repo' = [repo EXCEPT !.ws[Slot(a, x)] = "cleaned"]
    BY <2>3, <2>5 DEF Deleted, RepoInv
  <2>7. o = Slot(a, x) /\ repo'.ws[o] = "cleaned"
    BY <2>6 DEF RepoInv
  <2>8. o.auto = a
    BY <2>7 DEF Slot
  <2> QED BY <2>1, <2>6, <2>7, <2>8
<1>6. ASSUME NEW w \in Wakes,
             \/ ObserveClaim(w) \/ Decide(w) \/ StartPurge(w) \/ FinishPurge(w)
             \/ Claim(w) \/ Initialize(w) \/ Dispatch(w) \/ Started(w) \/ Execute(w)
             \/ HandshakeFails(w) \/ Result(w) \/ NoResult(w) \/ Recover(w)
             \/ Recovered(w) \/ RecordOutcome(w) \/ ConfirmPurge(w) \/ Raise(w)
             \/ Runner(w) \/ Crash(w)
      PROVE  FALSE
  <2>1. UNCHANGED repo
    BY <1>6
     DEF ObserveClaim, Decide, StartPurge, FinishPurge, Claim, Initialize, Dispatch, Started,
         Execute, HandshakeFails, Result, NoResult, Recover, Recovered, RecordOutcome,
         ConfirmPurge, Raise, Runner, RunTurn, EndTurn, OrphanEnds, Crash
  <2> QED BY <2>1
<1>7. ~(Time \/ UNCHANGED vars)
  BY DEF Time, Tick, vars
<1> QED
  BY <1>1, <1>2, <1>3, <1>4, <1>5, <1>6, <1>7 DEF Next, UserStep, Begin, Go

\* What was cancelled before it was dispatched is not dispatched any more.
LEMMA SpoiledKept ==
  ASSUME RecordInv, RepoInv, PlaceInv, StepInv, [Next]_vars, NEW o \in Occurrences,
         Spoiled(o), repo.ws[o] = "cleaned"
  PROVE  Spoiled(o)' \/ Durable(o)'
<1>1. o.auto \in Autos /\ Holds(o) /\ rec[o.auto].claim # NoClaim
  BY DEF Spoiled, Occurrences, Holds, NoClaim
<1>2. SUFFICES ASSUME Holds(o)' PROVE Spoiled(o)' \/ Phase(o)' = "UNRESOLVED"
  <2>1. Holds(o)' \/ Spent(o)'
    BY <1>1, SeenKept
  <2>2. ~Holds(o)' => Durable(o)'
    BY <2>1 DEF Durable
  <2>3. Holds(o)' /\ Phase(o)' = "UNRESOLVED" => Durable(o)'
    BY DEF Durable, Phase
  <2> QED BY <2>2, <2>3
<1> DEFINE Stuck == Phase(o) = "CLAIMED" /\ rec[o.auto].status = "CANCEL_PENDING"
<1>3. Stuck /\ (Stuck' => Spoiled(o)')
  BY <1>2 DEF Spoiled
<1>4. rec'[o.auto] = rec[o.auto] => Stuck'
  BY <1>3 DEF Phase
<1>5. CASE SameClaims
  BY <1>1, <1>3, <1>5 DEF SameClaims, Phase, Claimed
<1>6. ASSUME NEW w \in Wakes, Claim(w)
      PROVE  FALSE
  <2>1. Occ(w) \in Occurrences
    BY <1>6, WorkingOcc DEF Claim, At, Working
  <2>2. NoClaims
    BY <1>6, <2>1, ClaimFacts
  <2> QED BY <1>1, <2>2 DEF NoClaims, Claimed
<1>7. ASSUME NEW w \in Wakes, Dispatch(w) \/ Started(w)
      PROVE  Stuck'
  <2>1. PICK p \in Occurrences : Occ(w) = p
    BY <1>7, WorkingOcc DEF Dispatch, Started, At, Working
  <2>2. /\ Holds(p) /\ (o.auto # p.auto => rec'[o.auto] = rec[o.auto])
        /\ Started(w) => Phase(p) = "DISPATCHED"
    BY <1>1, <1>7, <2>1, PhaseFacts DEF OnlyClaim
  <2>3. CASE o = p
    <3>1. Dispatch(w) => repo.ws[o] # "cleaned"
      BY <2>1, <2>3 DEF Dispatch, StepInv, StepOk, Sound, At
    <3> QED BY <1>3, <1>7, <2>2, <2>3, <3>1
  <2>4. CASE o # p
    BY <1>1, <1>4, <2>2, <2>4, OneHolder
  <2> QED BY <2>3, <2>4
<1>8. ASSUME NEW w \in Wakes, RecordOutcome(w)
      PROVE  Stuck' \/ Phase(o)' = "UNRESOLVED"
  <2>1. PICK p \in Occurrences : Occ(w) = p
    BY <1>8, WorkingOcc DEF RecordOutcome, At, Working
  <2>2. /\ Holds(p) /\ (o.auto # p.auto => rec'[o.auto] = rec[o.auto])
        /\ wake[w].out = "UNRESOLVED" => Phase(p)' = "UNRESOLVED"
        /\ wake[w].out # "UNRESOLVED" => ~Holds(p)'
    BY <1>1, <1>8, <2>1, OutcomeFacts
  <2>3. CASE o = p
    BY <1>2, <2>2, <2>3
  <2>4. CASE o # p
    BY <1>1, <1>4, <2>2, <2>4, OneHolder
  <2> QED BY <2>3, <2>4
<1> HIDE DEF Stuck
<1> QED BY <1>3, <1>5, <1>6, <1>7, <1>8, RecordCases

\* What is purged has no claim.
LEMMA PurgeOver ==
  ASSUME RecordInv, PurgeInv, NEW o \in Occurrences, NEW x \in rec[o.auto].purge.busy
  PROVE  Over(o)
<1>1. o.auto \in Autos
  BY DEF Occurrences
<1>2. rec[o.auto].status = "PURGE_PENDING"
  BY <1>1 DEF PurgeInv, PurgeOk
<1>3. rec[o.auto].claim = NoClaim
  BY <1>1, <1>2 DEF RecordInv, GoodRecord, StatusShape, Open
<1> QED BY <1>2, <1>3 DEF Over, Spent, Holds, Gone, NoClaim, Occurrences

LEMMA FileStep ==
  ASSUME Inv, StepInv, RunnerInv, TurnSafe, FileInv, PurgeInv, [Next]_vars
  PROVE  FileInv'
<1> USE DEF Inv
<1> SUFFICES ASSUME NEW o \in Occurrences PROVE FileOk(o)'
  BY DEF FileInv
<1>1. /\ Durable(o) => Durable(o)'
      /\ Holds(o) \/ Spent(o) => Holds(o)' \/ Spent(o)'
      /\ Over(o) => Over(o)'
      /\ Over(o)' => Durable(o)'
  BY RecordStep, SeenKept DEF Over, Durable
<1>2. FileOk(o)
  BY DEF FileInv
<1>3. file'[o] \notin {"none", "fresh"} => Durable(o)'
  <2>1. CASE file'[o] = file[o]
    BY <1>1, <1>2, <2>1 DEF FileOk
  <2>2. ASSUME NEW w \in Wakes, run[w].pc \in {"start", "turn"} /\ run[w].occ = o
        PROVE  Durable(o)
    BY <2>2 DEF DurableInv, AtWork
  <2>3. CASE file'[o] # file[o]
    BY <1>1, <2>2, <2>3, FileChange
  <2> QED BY <2>1, <2>3
<1>4. ASSUME NEW w \in Wakes, Materialize(w) \/ CaptureAndCleanup(w), Occ(w) = o
      PROVE  Holds(o)
  BY <1>4 DEF Materialize, CaptureAndCleanup, At, StepInv, StepOk, Sound
<1>5. repo'.ws[o] # "none" => Holds(o)' \/ Spent(o)'
  <2>1. CASE repo'.ws[o] = repo.ws[o]
    BY <1>1, <1>2, <2>1 DEF FileOk
  <2>2. CASE repo'.ws[o] # repo.ws[o]
    BY <1>1, <1>4, <2>2, PurgeOver, WorkspaceChange DEF Over
  <2> QED BY <2>1, <2>2
<1>6. repo'.ws[o] = "cleaned" => Durable(o)' \/ Spoiled(o)'
  <2>1. CASE repo'.ws[o] = repo.ws[o]
    BY <1>1, <1>2, <2>1, SpoiledKept DEF FileOk
  <2>2. ASSUME NEW w \in Wakes, CaptureAndCleanup(w), Occ(w) = o
        PROVE  Durable(o)' \/ Spoiled(o)'
    <3>1. /\ Holds(o) /\ UNCHANGED rec
          /\ \/ Phase(o) = "RUNNING"
             \/ Phase(o) = "CLAIMED" /\ rec[o.auto].status = "CANCEL_PENDING"
      BY <2>2 DEF CaptureAndCleanup, At, StepInv, StepOk, Sound
    <3>2. Phase(o) = "RUNNING" => Durable(o)
      BY <3>1 DEF Durable, Phase
    <3>3. Spoiled(o) => Spoiled(o)'
      BY <3>1 DEF Spoiled, Holds, Phase
    <3> QED BY <1>1, <3>1, <3>2, <3>3 DEF Spoiled
  <2>3. CASE repo'.ws[o] # repo.ws[o] /\ repo'.ws[o] = "cleaned"
    BY <1>1, <2>2, <2>3, PurgeOver, WorkspaceChange
  <2> QED BY <2>1, <2>3
<1> QED BY <1>3, <1>5, <1>6 DEF FileOk

\* The claim and the workspace of a turn stay as long as it is at work: its wake, or
\* the one that recovers, waits for its end.
LEMMA SafeStep ==
  ASSUME Inv, StepInv, RunnerInv, TurnSafe, PurgeInv, [Next]_vars
  PROVE  TurnSafe'
<1> USE DEF Inv
<1> SUFFICES ASSUME NEW v \in Wakes, run'[v].pc = "turn", NEW o, o = run'[v].occ
             PROVE  Holds(o)' /\ repo'.ws[o] # "cleaned"
  BY DEF TurnSafe
<1>1. CASE RunTurn(v)
  <2>1. PICK p : p = run[v].occ
    OBVIOUS
  <2>2. run'[v].occ = p /\ UNCHANGED <<rec, repo>> /\ Composes(p)
    BY <1>1, <2>1, TurnMoves
  <2> QED BY <2>2 DEF Composes, Holds
<1>2. ASSUME run[v].pc = "turn", run[v].occ = o
      PROVE  Holds(o)' /\ repo'.ws[o] # "cleaned"
  <2>1. o \in Occurrences /\ Holds(o) /\ repo.ws[o] # "cleaned"
    BY <1>2 DEF PlaceInv, TurnSafe
  <2>2. ~Quiet(o)
    BY <1>2 DEF Quiet
  <2>3. Phase(o) # "CLAIMED"
    <3>1. Durable(o)
      BY <1>2, <2>1 DEF DurableInv, AtWork
    <3> QED BY <2>1, <3>1 DEF Durable, Phase
  <2>4. Holds(o)'
    <3>1. ASSUME NEW w \in Wakes, RecordOutcome(w), Occ(w) = o, wake[w].out # "UNRESOLVED"
          PROVE  FALSE
      <4>1. /\ wake[w].out \in Ends => Quiet(o)
            /\ wake[w].out \in {"CANCELED", "MISFIRE_SKIPPED"} => Phase(o) = "CLAIMED"
        BY <3>1 DEF RecordOutcome, At, StepInv, StepOk, Sound
      <4>2. wake[w].out \in SafeOutcomes
        BY <2>1, <3>1, OutcomeFacts
      <4> QED BY <2>2, <2>3, <4>1, <4>2 DEF SafeOutcomes, Ends
    <3> QED BY <2>1, <3>1, ClaimLost
  <2>5. repo'.ws[o] # "cleaned"
    <3>1. ASSUME NEW w \in Wakes, CaptureAndCleanup(w), Occ(w) = o
          PROVE  FALSE
      BY <2>2, <2>3, <3>1 DEF CaptureAndCleanup, At, StepInv, StepOk, Sound
    <3>2. ~Over(o)
      BY <2>1 DEF Over
    <3> QED BY <2>1, <3>1, <3>2, PurgeOver, WorkspaceChange
  <2> QED BY <2>4, <2>5
<1>3. ASSUME ~RunTurn(v)
      PROVE  run[v].pc = "turn" /\ run[v].occ = o
  <2>1. CASE UNCHANGED run
    BY <2>1
  <2>2. ASSUME NEW w \in Wakes, RunTurn(w) \/ EndTurn(w)
        PROVE  run[v].pc = "turn" /\ run[v].occ = o
    <3>1. PICK p : p = run[w].occ
      OBVIOUS
    <3>2. v # w /\ \A u \in Wakes : u # w => run'[u] = run[u]
      BY <1>3, <2>2, <3>1, TurnMoves
    <3> QED BY <3>2
  <2>3. ASSUME NEW w \in Wakes,
               \/ Execute(w) \/ Result(w) \/ NoResult(w) \/ Recover(w) \/ Recovered(w)
               \/ Raise(w) \/ Crash(w) \/ OrphanEnds(w)
        PROVE  run[v].pc = "turn" /\ run[v].occ = o
    <3>1. \/ run' = run \/ run' = [run EXCEPT ![w] = NoRun]
          \/ run' = [run EXCEPT ![w] = [pc |-> "start", occ |-> Occ(w), out |-> "none"]]
      BY <2>3 DEF Execute, Result, NoResult, Recover, Recovered, Raise, Crash, OrphanEnds, Ended
    <3> QED BY <3>1 DEF PlaceInv, NoRun
  <2>4. ASSUME NEW w \in Wakes,
               \/ Begin(w) \/ Claim(w) \/ Materialize(w) \/ Initialize(w) \/ Admit(w)
               \/ Dispatch(w) \/ Started(w) \/ HandshakeFails(w) \/ CaptureAndCleanup(w)
               \/ RecordOutcome(w) \/ ConfirmPurge(w)
        PROVE  UNCHANGED run
    BY <2>4 DEF Begin, ObserveClaim, Decide, StartPurge, DeletePurge, FinishPurge, Claim,
                Materialize, Initialize, Admit, Dispatch, Started, HandshakeFails,
                CaptureAndCleanup, RecordOutcome, ConfirmPurge
  <2>5. UserStep \/ Time \/ UNCHANGED vars => UNCHANGED run
    BY DEF UserStep, Time, vars
  <2> QED BY <2>1, <2>2, <2>3, <2>4, <2>5 DEF Next, Go, Runner
<1> QED BY <1>1, <1>2, <1>3

-----------------------------------------------------------------------------
(* The step a wake is at                                                   *)

\* A wake goes to pc; the others are idle.
LEMMA StepTo ==
  ASSUME Overlap = {}, Alone, PlaceInv, NEW w \in Wakes, Begin(w) \/ Go(w) \/ Crash(w),
         NEW pc, NEW o, NEW out,
         wake'[w].pc = pc, wake'[w].occ = o, wake'[w].out = out, Sound(w, pc, o, out)'
  PROVE  StepInv'
<1>1. StepOk(w)'
  BY DEF StepOk, Occ
<1>2. ASSUME NEW v \in Wakes, v # w PROVE StepOk(v)'
  <2>1. wake'[v].pc = "idle"
    BY <1>2, OthersIdle DEF At
  <2> QED BY <2>1 DEF StepOk, Sound
<1> QED BY <1>1, <1>2 DEF StepInv

\* No wake moves, and nothing that they rely on is changed.
LEMMA StepKept ==
  ASSUME StepInv, SameClaims, UNCHANGED wake, PlaceInv, RepoInv,
         repo'.ws = repo.ws, repo'.meta = repo.meta,
         \A a \in Autos : rec[a].status \in Gone => repo'.src[a] = repo.src[a],
         \A o \in Occurrences : Quiet(o) => file'[o] = file[o],
         \A v \in Wakes :
           \/ run'[v] = run[v]
           \/ run'[v] = NoRun /\ At(v, "idle")
           \/ /\ run[v].pc \in {"start", "turn"} /\ run'[v].pc \in {"turn", "end"}
              /\ run'[v].occ = run[v].occ
  PROVE  StepInv'
<1> SUFFICES ASSUME NEW v \in Wakes PROVE StepOk(v)'
  BY DEF StepInv
<1>1. PICK pc, o, out : wake[v].pc = pc /\ wake[v].occ = o /\ wake[v].out = out
  OBVIOUS
<1>2. Sound(v, pc, o, out)
  BY <1>1 DEF StepInv, StepOk, Occ
<1>3. pc \in Working => o \in Occurrences
  BY <1>1 DEF PlaceInv, Occ
<1>4. ASSUME o \in Occurrences
      PROVE  /\ Holds(o) => Holds(o)'
             /\ Phase(o)' = Phase(o)
             /\ Holds(o) /\ rec[o.auto].status = "CANCEL_PENDING" => rec'[o.auto].status = "CANCEL_PENDING"
             /\ Quiet(o) => Quiet(o)' /\ file'[o] = file[o]
             /\ Free(o) => Free(o)' /\ file'[o] = file[o]
             /\ repo'.ws[o] = repo.ws[o]
  <2>1. Free(o) => Quiet(o)
    BY DEF Free, Quiet
  <2>2. Quiet(o) => Quiet(o)'
    BY DEF Quiet, NoRun
  <2>3. Free(o) => Free(o)'
    BY DEF Free, NoRun
  <2>4. /\ Holds(o) => Holds(o)'
        /\ Phase(o)' = Phase(o)
        /\ Holds(o) /\ rec[o.auto].status = "CANCEL_PENDING" => rec'[o.auto].status = "CANCEL_PENDING"
        /\ repo'.ws[o] = repo.ws[o]
    BY <1>4 DEF SameClaims, Holds, Phase, Occurrences, Claimed, NoClaim
  <2> QED BY <1>4, <2>1, <2>2, <2>3, <2>4
<1>5. ASSUME pc = "confirm"
      PROVE  /\ o.auto \in Autos /\ rec'[o.auto].status \in Gone
             /\ out = "ok" => ~IsLive(o.auto, [kind |-> o.kind, rev |-> o.rev, idx |-> o.idx])'
  <2>1. /\ o.auto \in Autos /\ rec[o.auto].status \in Gone
        /\ out = "ok" => ~IsLive(o.auto, [kind |-> o.kind, rev |-> o.rev, idx |-> o.idx])
    BY <1>2, <1>5 DEF Sound
  <2>2. rec'[o.auto].status \in Gone /\ repo'.src[o.auto] = repo.src[o.auto]
    BY <2>1 DEF SameClaims
  <2> QED BY <2>1, <2>2 DEF IsLive
<1>6. CASE pc \in Working
  <2> DEFINE S == Sound(v, pc, o, out)'
  <2>1. ~At(v, "idle")
    BY <1>1, <1>6 DEF At, Working
  <2>2. run[v].pc # "none" => run'[v].pc # "none" /\ run'[v].occ = run[v].occ
    BY <2>1
  <2>3. S
    BY <1>2, <1>3, <1>4, <1>6, <2>1, <2>2 DEF Sound, Working
  <2> QED BY <1>1, <2>3 DEF StepOk, Occ
<1>7. CASE pc \notin Working
  <2>1. Sound(v, pc, o, out)'
    BY <1>5, <1>7 DEF Sound, Working
  <2> QED BY <1>1, <2>1 DEF StepOk, Occ
<1> QED BY <1>6, <1>7

\* An approved claim that nobody has begun to prepare has no finished workspace.
LEMMA FreshWorkspace ==
  ASSUME FileInv, NEW o \in Occurrences,
         (~Holds(o) /\ ~Spent(o)) \/ (/\ Holds(o) /\ Phase(o) = "CLAIMED"
                                      /\ rec[o.auto].status # "CANCEL_PENDING")
  PROVE  repo.ws[o] # "cleaned"
<1>1. FileOk(o)
  BY DEF FileInv
<1> QED BY <1>1 DEF FileOk, Durable, Spoiled, Phase

LEMMA BeginStep ==
  ASSUME Overlap = {}, Inv, Alone, StepInv, FileInv, PurgeInv, NEW w \in Wakes, Begin(w)
  PROVE  StepInv'
<1> USE DEF Inv
<1>1. CASE ObserveClaim(w)
  <2>1. PICK a, pc, out :
          /\ a \in Autos /\ Claimed(a)
          /\ wake' = [wake EXCEPT ![w] = [pc |-> pc, occ |-> OccurrenceOf(a), out |-> out]]
          /\ \/ /\ rec[a].phase = "CLAIMED" /\ rec[a].status = "CANCEL_PENDING"
                /\ pc \in {"record", "clean"} /\ out = "CANCELED"
             \/ /\ rec[a].phase = "CLAIMED" /\ rec[a].status # "CANCEL_PENDING"
                /\ pc = "prepare" /\ out = "none"
             \/ rec[a].phase = "DISPATCHED" /\ pc = "record" /\ out = "UNRESOLVED"
             \/ rec[a].phase = "RUNNING" /\ pc = "recover" /\ out = "none"
    <3>1. PICK a \in Autos :
            LET r == rec[a]
                o == OccurrenceOf(a)
                go(pc, out) == wake' = [wake EXCEPT ![w] = [pc |-> pc, occ |-> o, out |-> out]]
            IN /\ Claimed(a)
               /\ \/ /\ r.phase = "CLAIMED" /\ r.status = "CANCEL_PENDING"
                     /\ go(IF repo.ws[o] = "none" THEN "record" ELSE "clean", "CANCELED")
                  \/ /\ r.phase = "CLAIMED" /\ r.status # "CANCEL_PENDING"
                     /\ go("prepare", "none")
                  \/ /\ r.phase = "DISPATCHED" /\ go("record", Unseen(r.phase))
                  \/ /\ r.phase = "RUNNING" /\ go("recover", "none")
      BY <1>1 DEF ObserveClaim
    <3>2. CASE rec[a].phase = "DISPATCHED"
      BY <3>1, <3>2 DEF Unseen
    <3>3. CASE rec[a].phase = "RUNNING"
      BY <3>1, <3>3
    <3>4. CASE rec[a].phase = "CLAIMED" /\ rec[a].status # "CANCEL_PENDING"
      BY <3>1, <3>4
    <3>5. CASE rec[a].phase = "CLAIMED" /\ rec[a].status = "CANCEL_PENDING"
      BY <3>1, <3>5
    <3> QED BY <3>1, <3>2, <3>3, <3>4, <3>5
  <2>2. PICK o \in Occurrences : o = OccurrenceOf(a)
    BY <2>1, ClaimOccurs
  <2>3. o.auto = a /\ Holds(o) /\ Phase(o) = rec[a].phase
    <3>1. rec[a].claim \in [rev : 1..MaxRev, idx : 0..MaxOcc - 1]
      BY <2>1 DEF RecordInv, Records, Claims, Claimed
    <3> QED BY <2>2, <3>1 DEF OccurrenceOf, Holds, Phase
  <2>4. UNCHANGED <<rec, repo, run, file>>
    BY <1>1 DEF ObserveClaim, world
  <2>5. pc = "prepare" => repo.ws[o] # "cleaned"
    BY <2>1, <2>3, FreshWorkspace
  <2>6. Sound(w, pc, o, out)
    BY <2>1, <2>3, <2>5 DEF Sound, Ends
  <2>7. Sound(w, pc, o, out)'
    <3>1. pc \notin {"execute", "confirm", "wait", "rerun"} /\ out \notin Ends
      BY <2>1 DEF Ends
    <3> QED BY <2>4, <2>6, <3>1 DEF Sound, Holds, Phase
  <2>8. wake'[w].pc = pc /\ wake'[w].occ = o /\ wake'[w].out = out
    BY <2>1, <2>2 DEF PlaceInv
  <2> QED BY <2>7, <2>8, StepTo
<1>2. CASE Decide(w)
  <2>1. PICK a \in Autos : \E d \in Decision(a, now) :
          wake' = [wake EXCEPT ![w] = [pc |-> "claim", occ |-> d.occ,
                     out |-> IF d.due THEN "none" ELSE "MISFIRE_SKIPPED"]]
    BY <1>2 DEF Decide
  <2>2. PICK d \in Decision(a, now) :
          wake' = [wake EXCEPT ![w] = [pc |-> "claim", occ |-> d.occ,
                     out |-> IF d.due THEN "none" ELSE "MISFIRE_SKIPPED"]]
    BY <2>1
  <2> DEFINE out == IF d.due THEN "none" ELSE "MISFIRE_SKIPPED"
  <2>3. wake'[w].pc = "claim" /\ wake'[w].occ = d.occ /\ wake'[w].out = out
    BY <2>2 DEF PlaceInv
  <2>4. Sound(w, "claim", d.occ, out)'
    BY DEF Sound
  <2> HIDE DEF out
  <2> QED BY <2>3, <2>4, StepTo
<1>3. CASE DeletePurge(w)
  <2>1. PICK a \in Autos : \E x \in rec[a].purge.busy :
          \/ MayDelete(a, x) /\ repo' = Deleted(a, x) /\ Confirm(w, a, x, TRUE)
          \/ UNCHANGED repo /\ Confirm(w, a, x, FALSE)
    BY <1>3 DEF DeletePurge
  <2>2. PICK x \in rec[a].purge.busy :
          \/ MayDelete(a, x) /\ repo' = Deleted(a, x) /\ Confirm(w, a, x, TRUE)
          \/ UNCHANGED repo /\ Confirm(w, a, x, FALSE)
    BY <2>1
  <2> DEFINE o == [auto |-> a, rev |-> x.rev, idx |-> x.idx, kind |-> x.kind]
  <2>3. x \in Objects
    BY DEF RecordInv, Records, Purges
  <2>4. x = [kind |-> o.kind, rev |-> o.rev, idx |-> o.idx] /\ o.auto = a
    BY <2>3 DEF Objects
  <2>5. rec'[a].status \in Gone
    BY <1>3, <2>2 DEF DeletePurge, PurgeInv, PurgeOk, Gone
  <2>6. PICK out \in {"ok", "UNRESOLVED"} :
          /\ wake' = [wake EXCEPT ![w] = [pc |-> "confirm", out |-> out, occ |-> o]]
          /\ out = "ok" => repo' = Deleted(a, x)
    BY <2>2 DEF Confirm
  <2>7. out = "ok" => ~IsLive(a, x)'
    <3> SUFFICES ASSUME repo' = Deleted(a, x) PROVE ~IsLive(a, x)'
      BY <2>6
    <3>1. x.kind \in {"source", "workspace", "checkpoint"}
      BY <2>3 DEF Objects
    <3>2. x.kind # "source" => Slot(a, x) \in Occurrences
      BY <2>3 DEF Objects, Slot, Occurrences
    <3>3. CASE x.kind = "source"
      BY <3>3 DEF Deleted, IsLive, RepoInv
    <3>4. CASE x.kind = "workspace"
      BY <3>2, <3>4 DEF Deleted, IsLive, RepoInv
    <3>5. CASE x.kind = "checkpoint"
      BY <3>2, <3>5 DEF Deleted, IsLive, RepoInv
    <3> QED BY <3>1, <3>3, <3>4, <3>5
  <2>8. wake'[w].pc = "confirm" /\ wake'[w].occ = o /\ wake'[w].out = out
    BY <2>6 DEF PlaceInv
  <2> HIDE DEF o
  <2>9. Sound(w, "confirm", o, out)'
    BY <2>4, <2>5, <2>7 DEF Sound
  <2> QED BY <2>8, <2>9, StepTo
<1>4. CASE StartPurge(w) \/ FinishPurge(w)
  <2>1. UNCHANGED wake /\ At(w, "idle")
    BY <1>4 DEF StartPurge, FinishPurge, Starts
  <2>2. Sound(w, "idle", Occ(w), wake[w].out)'
    BY DEF Sound
  <2>3. PICK o, out : o = wake[w].occ /\ out = wake[w].out
    OBVIOUS
  <2>4. wake'[w].pc = "idle" /\ wake'[w].occ = o /\ wake'[w].out = out
    BY <2>1, <2>3 DEF At
  <2>5. Sound(w, "idle", o, out)'
    BY DEF Sound
  <2> QED BY <2>4, <2>5, StepTo
<1> QED BY <1>1, <1>2, <1>3, <1>4 DEF Begin

LEMMA GoStep ==
  ASSUME Overlap = {}, Inv, Alone, StepInv, RunnerInv, StartInv, FileInv, NEW w \in Wakes,
         Go(w) \/ Crash(w)
  PROVE  StepInv'
<1> USE DEF Inv
<1>1. PICK pc, o, out : wake[w].pc = pc /\ Occ(w) = o /\ wake[w].out = out
  OBVIOUS
<1>2. wake[w] \in WakePlaces /\ Sound(w, pc, o, out) /\ (pc \in Working => o \in Occurrences)
  BY <1>1 DEF PlaceInv, StepInv, StepOk
<1>3. ASSUME NEW q, Goto(w, q), Sound(w, q, o, out)'
      PROVE  StepInv'
  <2>1. wake'[w].pc = q /\ wake'[w].occ = o /\ wake'[w].out = out
    BY <1>1, <1>2, <1>3 DEF Goto, PlaceInv, WakePlaces, Occ
  <2> QED BY <1>3, <2>1, StepTo
<1>4. ASSUME NEW q, NEW r, wake' = [wake EXCEPT ![w].pc = q, ![w].out = r], Sound(w, q, o, r)'
      PROVE  StepInv'
  <2>1. wake'[w].pc = q /\ wake'[w].occ = o /\ wake'[w].out = r
    BY <1>1, <1>2, <1>4 DEF PlaceInv, WakePlaces, Occ
  <2> QED BY <1>4, <2>1, StepTo
<1>5. ASSUME Holds(o), UNCHANGED rec, ToRecord(w, "UNRESOLVED")
      PROVE  StepInv'
  <2>1. Sound(w, "record", o, "UNRESOLVED")'
    BY <1>5 DEF Sound, Holds, Ends
  <2> QED BY <1>4, <1>5, <2>1 DEF ToRecord
<1>6. CASE RecordOutcome(w) \/ ConfirmPurge(w) \/ Raise(w) \/ Crash(w)
  <2>1. wake'[w].pc = "idle" /\ wake'[w].occ = NoOcc /\ wake'[w].out = "none"
    BY <1>6 DEF RecordOutcome, ConfirmPurge, Raise, Crash, Leave, Idle, PlaceInv
  <2>2. Sound(w, "idle", NoOcc, "none")'
    BY DEF Sound
  <2> QED BY <2>1, <2>2, StepTo
<1>7. CASE Claim(w)
  <2>1. pc = "claim" /\ o \in Occurrences /\ UNCHANGED repo
    BY <1>1, <1>2, <1>7 DEF Claim, At, Working
  <2>2. Holds(o)' /\ Phase(o)' = "CLAIMED" /\ ~Holds(o) /\ ~Spent(o)
    BY <1>1, <1>7, <2>1, ClaimFacts
  <2>3. repo'.ws[o] # "cleaned"
    BY <2>1, <2>2, FreshWorkspace
  <2>4. out \in {"none", "MISFIRE_SKIPPED"}
    BY <1>2, <2>1 DEF Sound
  <2>5. Sound(w, "prepare", o, out)' /\ (out = "MISFIRE_SKIPPED" => Sound(w, "record", o, out)')
    BY <2>2, <2>3, <2>4 DEF Sound, Ends
  <2>6. Goto(w, IF out = "none" THEN "prepare" ELSE "record")
    BY <1>1, <1>7 DEF Claim
  <2> QED BY <1>3, <2>4, <2>5, <2>6
<1>8. CASE Materialize(w)
  <2>1. pc = "prepare" /\ o \in Occurrences /\ UNCHANGED rec /\ Goto(w, "initialize")
        /\ repo.ws[o] \in {"none", "live", "captured"}
        /\ repo' = IF repo.ws[o] = "none" THEN [repo EXCEPT !.ws[o] = "live"] ELSE repo
    BY <1>1, <1>2, <1>8 DEF Materialize, At, Working
  <2>2. repo'.ws[o] # "cleaned"
    BY <2>1 DEF RepoInv
  <2>3. Sound(w, "initialize", o, out)'
    BY <1>2, <2>1, <2>2 DEF Sound, Holds, Phase
  <2> QED BY <1>3, <2>1, <2>3
<1>9. CASE Initialize(w)
  <2>1. pc = "initialize" /\ UNCHANGED <<rec, repo>> /\ Goto(w, "admit")
    BY <1>1, <1>9 DEF Initialize, At
  <2>2. Sound(w, "admit", o, out)'
    BY <1>2, <2>1 DEF Sound, Holds, Phase
  <2> QED BY <1>3, <2>1, <2>2
<1>10. CASE Admit(w)
  <2>1. pc = "admit" /\ UNCHANGED rec /\ Goto(w, "spawn")
        /\ repo' = [repo EXCEPT !.meta[o] = IF @ = "none" THEN "live" ELSE @]
    BY <1>1, <1>10 DEF Admit, At
  <2>2. repo'.ws = repo.ws
    BY <2>1 DEF RepoInv
  <2>3. Sound(w, "spawn", o, out)'
    BY <1>2, <2>1, <2>2 DEF Sound, Holds, Phase
  <2> QED BY <1>3, <2>1, <2>3
<1>11. CASE Dispatch(w) \/ Started(w)
  <2>1. pc \in {"spawn", "permit"} /\ o \in Occurrences
    BY <1>1, <1>2, <1>11 DEF Dispatch, Started, At, Working
  <2>2. /\ Holds(o) /\ \A b \in Autos : rec'[b].claim = rec[b].claim
        /\ Dispatch(w) => Phase(o)' = "DISPATCHED"
        /\ Started(w) => Phase(o)' = "RUNNING"
    BY <1>1, <1>11, <2>1, PhaseFacts
  <2>3. Holds(o)'
    BY <2>1, <2>2 DEF Holds, Occurrences
  <2>4. Dispatch(w) => Goto(w, "permit") /\ Sound(w, "permit", o, out)'
    BY <2>2, <2>3 DEF Sound, Dispatch
  <2>5. Started(w) => Goto(w, "execute") /\ Sound(w, "execute", o, out)'
    <3> SUFFICES ASSUME Started(w) PROVE Goto(w, "execute") /\ Sound(w, "execute", o, out)'
      OBVIOUS
    <3>1. ~Durable(o)
      BY <1>1, <1>11, <2>1, <2>2, PhaseFacts DEF Durable, Phase
    <3>2. file[o] \in {"none", "fresh"}
      BY <2>1, <3>1 DEF FileInv, FileOk
    <3>3. Free(o)
      BY <2>1, <3>1 DEF DurableInv, AtWork, Free
    <3>4. UNCHANGED <<file, run>> /\ Goto(w, "execute")
      BY DEF Started, world
    <3>5. Free(o)' /\ file'[o] \in {"none", "fresh"}
      BY <3>2, <3>3, <3>4 DEF Free
    <3> QED BY <2>2, <2>3, <3>4, <3>5 DEF Sound
  <2> QED BY <1>3, <1>11, <2>4, <2>5
<1>12. CASE Execute(w)
  <2>1. pc = "execute" /\ UNCHANGED rec /\ Goto(w, "wait")
        /\ run' = [run EXCEPT ![w] = [pc |-> "start", occ |-> o, out |-> "none"]]
    BY <1>1, <1>12 DEF Execute, At
  <2>2. run'[w].pc # "none" /\ run'[w].occ = o
    BY <2>1 DEF PlaceInv
  <2>3. Sound(w, "wait", o, out)'
    BY <1>2, <2>1, <2>2 DEF Sound, Holds, Phase
  <2> QED BY <1>3, <2>1, <2>3
<1>13. CASE HandshakeFails(w) \/ NoResult(w)
  <2>1. pc \in {"permit", "execute", "wait"} /\ UNCHANGED rec /\ ToRecord(w, "UNRESOLVED")
    BY <1>1, <1>13 DEF HandshakeFails, NoResult, At
  <2> QED BY <1>2, <1>5, <2>1 DEF Sound
<1>14. CASE Result(w) \/ Recovered(w)
  <2>1. /\ pc \in {"wait", "rerun"} /\ run[w].pc = "end" /\ UNCHANGED <<rec, file>>
        /\ run' = [run EXCEPT ![w] = NoRun]
    BY <1>1, <1>14 DEF Result, Recovered, At, world
  <2>2. PICK r : /\ r \in {Told(w), "UNRESOLVED"}
                 /\ wake' = [wake EXCEPT ![w].pc = IF r = "UNRESOLVED" THEN "record" ELSE "clean",
                                         ![w].out = r]
    BY <1>14 DEF Result, Recovered
  <2>3. Holds(o) /\ Phase(o) = "RUNNING" /\ run[w].occ = o /\ o \in Occurrences
    BY <1>2, <2>1 DEF Sound, Working
  <2>4. /\ r \in Ends \cup {"UNRESOLVED"}
        /\ r \in Ends => (r = "COMPLETED" <=> file[o] = "COMPLETED")
        /\ r \in Ends => file[o] = "COMPLETED" \/ run[w].out \in Ends
    BY <2>1, <2>2, <2>3 DEF RunnerInv, Told, Ends
  <2>5. r \in Ends => Quiet(o)
    <3>1. CASE run[w].out \in Ends
      BY <1>1, <2>1, <2>3, <3>1 DEF StartInv
    <3>2. CASE file[o] = "COMPLETED"
      <4>1. SUFFICES ASSUME NEW v \in Wakes, run[v].occ = o PROVE run[v].pc \notin {"start", "turn"}
        BY DEF Quiet
      <4>2. run[v].pc # "turn"
        BY <3>2, <4>1 DEF RunnerInv
      <4>3. run[v].pc = "start" => At(v, "rerun")
        BY <3>2, <4>1 DEF StartInv
      <4>4. At(v, "rerun") => v = w
        BY <1>1, <2>1 DEF Alone, At
      <4> QED BY <2>1, <4>2, <4>3, <4>4
    <3> QED BY <2>4, <3>1, <3>2
  <2>6. PICK q : q = (IF r = "UNRESOLVED" THEN "record" ELSE "clean")
    OBVIOUS
  <2>7. Sound(w, q, o, r)'
    <3>1. q \in {"record", "clean"} /\ (q = "clean" => r \in Ends)
      BY <2>4, <2>6
    <3>2. /\ Holds(o)' /\ Phase(o)' = "RUNNING" /\ file'[o] = file[o]
          /\ r \notin {"CANCELED", "MISFIRE_SKIPPED"}
      BY <2>1, <2>3, <2>4 DEF Holds, Phase, Ends
    <3>3. Quiet(o) => Quiet(o)'
      BY <2>1 DEF Quiet, NoRun, PlaceInv
    <3> QED BY <2>4, <2>5, <3>1, <3>2, <3>3 DEF Sound
  <2>8. wake' = [wake EXCEPT ![w].pc = q, ![w].out = r]
    BY <2>2, <2>6
  <2> QED BY <1>4, <2>7, <2>8
<1>15. CASE Recover(w)
  <2>1. /\ pc = "recover" /\ UNCHANGED rec
        /\ \/ ToRecord(w, "UNRESOLVED")
           \/ /\ run' = [run EXCEPT ![w] = [pc |-> "start", occ |-> o, out |-> "none"]]
              /\ Goto(w, "rerun")
    BY <1>1, <1>15 DEF Recover, Unseen, At
  <2>2. Holds(o) /\ Phase(o) = "RUNNING"
    BY <1>2, <2>1 DEF Sound
  <2>3. CASE run' = [run EXCEPT ![w] = [pc |-> "start", occ |-> o, out |-> "none"]] /\ Goto(w, "rerun")
    <3>1. run'[w].pc # "none" /\ run'[w].occ = o
      BY <2>3 DEF PlaceInv
    <3>2. Sound(w, "rerun", o, out)'
      BY <2>1, <2>2, <3>1 DEF Sound, Holds, Phase
    <3> QED BY <1>3, <2>3, <3>2
  <2> QED BY <1>5, <2>1, <2>2, <2>3
<1>16. CASE CaptureAndCleanup(w)
  <2>1. /\ pc = "clean" /\ UNCHANGED <<rec, file, run>>
        /\ Goto(w, "record") \/ ToRecord(w, "UNRESOLVED")
    BY <1>1, <1>16 DEF CaptureAndCleanup, At, world
  <2>2. Sound(w, "record", o, out)'
    BY <1>2, <2>1 DEF Sound, Holds, Phase, Quiet
  <2>3. Holds(o)
    BY <1>2, <2>1 DEF Sound
  <2> QED BY <1>3, <1>5, <2>1, <2>2, <2>3
<1> QED BY <1>6, <1>7, <1>8, <1>9, <1>10, <1>11, <1>12, <1>13, <1>14, <1>15, <1>16 DEF Go

LEMMA StepStep ==
  ASSUME Overlap = {}, Inv, Alone, StepInv, RunnerInv, StartInv, TurnSafe, FileInv, PurgeInv,
         [Next]_vars
  PROVE  StepInv'
<1> USE DEF Inv
<1>1. ASSUME UNCHANGED <<rec, repo, wake, run, file>>
      PROVE  StepInv'
  <2>1. SameClaims
    BY <1>1 DEF SameClaims
  <2> QED BY <1>1, <2>1, StepKept
<1>2. ASSUME NEW a \in Autos, UserMutation(a), UNCHANGED <<wake, run, world>>
      PROVE  StepInv'
  <2>1. UNCHANGED <<wake, run, file>>
    BY <1>2 DEF world
  <2> QED BY <1>2, <2>1, UserFacts, StepKept
<1>3. ASSUME NEW w \in Wakes, Runner(w)
      PROVE  StepInv'
  <2>1. UNCHANGED <<rec, repo, wake>>
    BY <1>3 DEF Runner, RunTurn, EndTurn, OrphanEnds
  <2>2. SameClaims
    BY <2>1 DEF SameClaims
  <2>3. ASSUME NEW o \in Occurrences, Quiet(o)
        PROVE  file'[o] = file[o]
    <3>2. CASE RunTurn(w) \/ EndTurn(w)
      <4>1. PICK p : p = run[w].occ
        OBVIOUS
      <4>2. run[w].pc \in {"start", "turn"} /\ p # o
        BY <2>3, <3>2, <4>1, TurnMoves DEF Quiet
      <4> QED BY <3>2, <4>1, <4>2, TurnMoves DEF TurnInv
    <3>3. CASE OrphanEnds(w)
      BY <3>3 DEF OrphanEnds, world
    <3> QED BY <1>3, <3>2, <3>3 DEF Runner
  <2>4. ASSUME NEW v \in Wakes
        PROVE  \/ run'[v] = run[v]
               \/ run'[v] = NoRun /\ At(v, "idle")
               \/ /\ run[v].pc \in {"start", "turn"} /\ run'[v].pc \in {"turn", "end"}
                  /\ run'[v].occ = run[v].occ
    <3>1. CASE RunTurn(w) \/ EndTurn(w)
      <4>1. PICK p : p = run[w].occ
        OBVIOUS
      <4> QED BY <3>1, <4>1, TurnMoves
    <3>2. CASE OrphanEnds(w)
      BY <3>2 DEF OrphanEnds, PlaceInv
    <3> QED BY <1>3, <3>1, <3>2 DEF Runner
  <2> QED BY <2>1, <2>2, <2>3, <2>4, StepKept
<1>4. Time \/ UNCHANGED vars => UNCHANGED <<rec, repo, wake, run, file>>
  BY DEF Time, Tick, vars, world
<1> QED BY <1>1, <1>2, <1>3, <1>4, BeginStep, GoStep DEF Next, UserStep

-----------------------------------------------------------------------------
(* The manifest of a purge                                                 *)

\* Nothing new is owned, and the status and the manifest stay.
LEMMA PurgeKept ==
  ASSUME NEW a \in Autos, PurgeOk(a), rec'[a].status = rec[a].status,
         rec'[a].purge = rec[a].purge, Owned(a)' \subseteq Owned(a)
  PROVE  PurgeOk(a)'
BY DEF PurgeOk

LEMMA NoPurgeKept ==
  ASSUME NEW a \in Autos, PurgeOk(a), rec[a].status \notin Gone, rec'[a].status \notin Gone,
         rec'[a].purge = rec[a].purge
  PROVE  PurgeOk(a)'
BY DEF PurgeOk, Gone

LEMMA OwnedKept ==
  ASSUME NEW a \in Autos, repo'.src[a] = repo.src[a],
         \A o \in Occurrences : o.auto = a => repo'.ws[o] = repo.ws[o] /\ repo'.meta[o] = repo.meta[o]
  PROVE  Owned(a)' = Owned(a)
<1>1. ASSUME NEW x \in Objects PROVE IsLive(a, x)' <=> IsLive(a, x)
  <2>1. x.kind = "source" \/ (x.kind \in {"workspace", "checkpoint"} /\ Slot(a, x) \in Occurrences)
    BY DEF Objects, Slot, Occurrences
  <2>2. Slot(a, x).auto = a
    BY DEF Slot
  <2>3. CASE x.kind = "source"
    BY <2>3 DEF IsLive
  <2>4. CASE x.kind = "workspace" /\ Slot(a, x) \in Occurrences
    BY <2>2, <2>4 DEF IsLive
  <2>5. CASE x.kind = "checkpoint" /\ Slot(a, x) \in Occurrences
    BY <2>2, <2>5 DEF IsLive
  <2> QED BY <2>1, <2>3, <2>4, <2>5
<1> QED BY <1>1 DEF Owned

LEMMA PurgeStep ==
  ASSUME Inv, StepInv, PurgeInv, [Next]_vars
  PROVE  PurgeInv'
<1> USE DEF Inv
<1> SUFFICES ASSUME NEW a \in Autos PROVE PurgeOk(a)'
  BY DEF PurgeInv
<1>1. PurgeOk(a)
  BY DEF PurgeInv
<1>2. ASSUME rec'[a].status = rec[a].status, rec'[a].purge = rec[a].purge, UNCHANGED repo
      PROVE  PurgeOk(a)'
  <2>1. Owned(a)' = Owned(a)
    BY <1>2 DEF Owned, IsLive, Slot
  <2> QED BY <1>1, <1>2, <2>1, PurgeKept
<1>3. ASSUME NEW b \in Autos, UserMutation(b)
      PROVE  PurgeOk(a)'
  <2>1. CASE rec'[a] = rec[a] /\ rec[a].status \in Gone
    <3>1. repo'.src[a] = repo.src[a] /\ repo'.ws = repo.ws /\ repo'.meta = repo.meta
      BY <1>3, <2>1, UserFacts
    <3>2. Owned(a)' = Owned(a)
      BY <3>1, OwnedKept
    <3> QED BY <1>1, <2>1, <3>2, PurgeKept
  <2>2. CASE /\ rec'[a].purge = rec[a].purge
             /\ rec'[a].status \notin Gone /\ rec[a].status \notin Gone
    BY <1>1, <2>2, NoPurgeKept
  <2>3. CASE /\ rec'[a].status = "PURGE_PENDING" /\ repo' = repo
             /\ rec'[a].purge.todo = Owned(a) /\ rec'[a].purge.busy = {}
    <3>1. Owned(a)' = Owned(a)
      BY <2>3 DEF Owned, IsLive, Slot
    <3> QED BY <2>3, <3>1 DEF PurgeOk
  <2> QED BY <1>3, <2>1, <2>2, <2>3, UserFacts
<1>4. ASSUME NEW w \in Wakes, Claim(w) \/ Dispatch(w) \/ Started(w)
      PROVE  PurgeOk(a)'
  <2>1. PICK o \in Occurrences : Occ(w) = o
    BY <1>4, WorkingOcc DEF Claim, Dispatch, Started, At, Working
  <2>2. OnlyClaim(o.auto)
    BY <1>4, <2>1, ClaimFacts, PhaseFacts
  <2>3. UNCHANGED repo
    BY <1>4 DEF Claim, Dispatch, Started
  <2> QED BY <1>2, <2>2, <2>3 DEF OnlyClaim
<1>5. ASSUME NEW w \in Wakes, RecordOutcome(w)
      PROVE  PurgeOk(a)'
  <2>1. PICK o \in Occurrences : Occ(w) = o
    BY <1>5, WorkingOcc DEF RecordOutcome, At, Working
  <2>2. /\ rec'[a].purge = rec[a].purge /\ (a # o.auto => rec'[a] = rec[a])
        /\ rec[o.auto].status \in Open /\ rec'[o.auto].status \in Open \cup {"CANCELED"}
    BY <1>5, <2>1, OutcomeFacts
  <2>3. UNCHANGED repo
    BY <1>5 DEF RecordOutcome
  <2>4. CASE a = o.auto
    <3>1. rec[a].status \notin Gone /\ rec'[a].status \notin Gone
      BY <2>2, <2>4 DEF Open, Gone
    <3> QED BY <1>1, <2>2, <3>1, NoPurgeKept
  <2> QED BY <1>2, <2>2, <2>3, <2>4
<1>6. ASSUME NEW w \in Wakes, StartPurge(w)
      PROVE  PurgeOk(a)'
  <2>1. PICK b \in Autos : \E x \in rec[b].purge.todo : MayStartPurge(b, x) /\ StartPurgeIt(b, x)
    BY <1>6 DEF StartPurge
  <2>2. PICK x : MayStartPurge(b, x) /\ StartPurgeIt(b, x)
    BY <2>1
  <2>3. UNCHANGED repo
    BY <1>6 DEF StartPurge
  <2>4. CASE a = b
    <3>1. rec[a] \in Records /\ rec[a].purge \in Purges
      BY DEF RecordInv, Records
    <3>2. rec' = [rec EXCEPT ![a] = [rec[a] EXCEPT !.purge = [rec[a].purge EXCEPT !.busy = {x}]]]
      BY <2>2, <2>4 DEF StartPurgeIt
    <3> DEFINE p == [rec[a].purge EXCEPT !.busy = {x}]
    <3>3. p.todo = rec[a].purge.todo /\ p.busy = {x}
      BY <3>1 DEF Purges
    <3> HIDE DEF p
    <3>4. rec'[a].purge = p /\ rec'[a].status = rec[a].status
      BY <3>1, <3>2 DEF RecordInv, Records, p
    <3>5. rec[a].status = "PURGE_PENDING"
      BY <2>2, <2>4 DEF MayStartPurge
    <3>6. Owned(a)' = Owned(a)
      BY <2>3 DEF Owned, IsLive, Slot
    <3> QED BY <1>1, <3>3, <3>4, <3>5, <3>6 DEF PurgeOk
  <2>5. CASE a # b
    <3>1. rec'[a] = rec[a]
      BY <2>2, <2>5 DEF StartPurgeIt, RecordInv
    <3> QED BY <1>2, <2>3, <3>1
  <2> QED BY <2>4, <2>5
<1>7. ASSUME NEW w \in Wakes, ConfirmPurge(w)
      PROVE  PurgeOk(a)'
  <2>1. PICK o, x, out : /\ Occ(w) = o /\ x = [kind |-> o.kind, rev |-> o.rev, idx |-> o.idx]
                         /\ wake[w].out = out
    OBVIOUS
  <2>2. MayProgress(o.auto, x) /\ ProgressIt(o.auto, x, out = "ok") /\ UNCHANGED repo
    BY <1>7, <2>1 DEF ConfirmPurge
  <2>3. Sound(w, "confirm", o, out)
    BY <1>7, <2>1 DEF ConfirmPurge, At, StepInv, StepOk
  <2>4. o.auto \in Autos /\ (out = "ok" => ~IsLive(o.auto, x))
    BY <2>1, <2>3 DEF Sound
  <2>5. CASE a # o.auto
    <3>1. rec'[a] = rec[a]
      BY <2>2, <2>4, <2>5 DEF ProgressIt, RecordInv
    <3> QED BY <1>2, <2>2, <3>1
  <2>6. CASE a = o.auto
    <3>1. rec[a] \in Records /\ rec[a].purge \in Purges /\ rec \in [Autos -> Records]
      BY DEF RecordInv, Records
    <3>2. rec[a].status = "PURGE_PENDING" /\ rec'[a].status = rec[a].status
      BY <2>2, <2>6, <3>1 DEF MayProgress, ProgressIt, Records
    <3>3. Owned(a)' = Owned(a)
      BY <2>2 DEF Owned, IsLive, Slot
    <3>4. CASE out = "ok"
      <4>1. rec'[a].purge.todo = rec[a].purge.todo \ {x} /\ rec'[a].purge.busy = {}
        BY <2>2, <2>6, <3>1, <3>4 DEF ProgressIt, Records, Purges
      <4>2. x \notin Owned(a)
        BY <2>4, <2>6, <3>4 DEF Owned
      <4> QED BY <1>1, <3>2, <3>3, <4>1, <4>2 DEF PurgeOk
    <3>5. CASE out # "ok"
      <4>1. rec'[a].purge.todo = rec[a].purge.todo
        BY <2>2, <2>6, <3>1, <3>5 DEF ProgressIt, Records, Purges
      <4> QED BY <1>1, <3>2, <3>3, <4>1 DEF PurgeOk
    <3> QED BY <3>4, <3>5
  <2> QED BY <2>5, <2>6
<1>8. ASSUME NEW w \in Wakes, FinishPurge(w)
      PROVE  PurgeOk(a)'
  <2>1. PICK b \in Autos : MayFinishPurge(b) /\ FinishPurgeIt(b)
    BY <1>8 DEF FinishPurge
  <2>2. UNCHANGED repo
    BY <1>8 DEF FinishPurge
  <2>3. CASE a # b
    <3>1. rec'[a] = rec[a]
      BY <2>1, <2>3 DEF FinishPurgeIt, RecordInv
    <3> QED BY <1>2, <2>2, <3>1
  <2>4. CASE a = b
    <3>1. rec'[a] = [Absent EXCEPT !.status = "PURGED"]
      BY <2>1, <2>4 DEF FinishPurgeIt, RecordInv
    <3>2. rec'[a].status = "PURGED" /\ rec'[a].purge.busy = {}
      BY <3>1 DEF Absent, NoPurge
    <3>3. Owned(a) = {}
      BY <1>1, <2>1, <2>4 DEF MayFinishPurge, PurgeDone, PurgeOk
    <3>4. Owned(a)' = Owned(a)
      BY <2>2 DEF Owned, IsLive, Slot
    <3> QED BY <3>2, <3>3, <3>4 DEF PurgeOk
  <2> QED BY <2>3, <2>4
<1>9. ASSUME NEW w \in Wakes, Materialize(w) \/ Admit(w) \/ CaptureAndCleanup(w)
      PROVE  PurgeOk(a)'
  <2>1. PICK o \in Occurrences : Occ(w) = o
    BY <1>9, WorkingOcc DEF Materialize, Admit, CaptureAndCleanup, At, Working
  <2>2. UNCHANGED rec /\ Holds(o)
    BY <1>9, <2>1 DEF Materialize, Admit, CaptureAndCleanup, At, StepInv, StepOk, Sound
  <2>3. CASE a = o.auto
    <3>1. rec[a].claim # NoClaim
      BY <2>2, <2>3 DEF Holds, NoClaim, Occurrences
    <3>2. rec[a].status \notin Gone
      BY <3>1 DEF RecordInv, GoodRecord, StatusShape, Open, Gone
    <3> QED BY <1>1, <2>2, <3>2, NoPurgeKept
  <2>4. CASE a # o.auto
    <3>1. \/ UNCHANGED repo
          \/ \E v : repo' = [repo EXCEPT !.ws[o] = v] \/ repo' = [repo EXCEPT !.meta[o] = v]
      BY <1>9, <2>1 DEF Materialize, Admit, CaptureAndCleanup
    <3>2. /\ repo'.src[a] = repo.src[a]
          /\ \A p \in Occurrences : p # o => repo'.ws[p] = repo.ws[p] /\ repo'.meta[p] = repo.meta[p]
      BY <2>1, <3>1 DEF RepoInv
    <3>3. Owned(a)' = Owned(a)
      BY <2>4, <3>2, OwnedKept
    <3> QED BY <1>1, <2>2, <3>3, PurgeKept
  <2> QED BY <2>3, <2>4
<1>10. ASSUME NEW w \in Wakes, DeletePurge(w)
       PROVE  PurgeOk(a)'
  <2>1. UNCHANGED rec
    BY <1>10 DEF DeletePurge
  <2>2. PICK b \in Autos : \E x \in rec[b].purge.busy : UNCHANGED repo \/ repo' = Deleted(b, x)
    BY <1>10 DEF DeletePurge
  <2>3. PICK x \in rec[b].purge.busy : UNCHANGED repo \/ repo' = Deleted(b, x)
    BY <2>2
  <2>4. x \in Objects
    BY DEF RecordInv, Records, Purges
  <2>5. x.kind \in {"source", "workspace", "checkpoint"}
    BY <2>4 DEF Objects
  <2>6. \/ UNCHANGED repo
        \/ repo' = [repo EXCEPT !.src[b] = "cleaned"]
        \/ repo' = [repo EXCEPT !.ws[Slot(b, x)] = "cleaned"]
        \/ repo' = [repo EXCEPT !.meta[Slot(b, x)] = "cleaned"]
    BY <2>3, <2>5 DEF Deleted
  <2>7. ASSUME NEW y \in Objects, IsLive(a, y)'
        PROVE  IsLive(a, y)
    <3>1. y.kind = "source" \/ (y.kind \in {"workspace", "checkpoint"} /\ Slot(a, y) \in Occurrences)
      BY DEF Objects, Slot, Occurrences
    <3>2. /\ repo'.src[a] \in {repo.src[a], "cleaned"}
          /\ \A p \in Occurrences : /\ repo'.ws[p] \in {repo.ws[p], "cleaned"}
                                    /\ repo'.meta[p] \in {repo.meta[p], "cleaned"}
      BY <2>6 DEF RepoInv
    <3>3. CASE y.kind = "source"
      BY <2>7, <3>2, <3>3 DEF IsLive
    <3>4. CASE y.kind = "workspace" /\ Slot(a, y) \in Occurrences
      BY <2>7, <3>2, <3>4 DEF IsLive, Slot
    <3>5. CASE y.kind = "checkpoint" /\ Slot(a, y) \in Occurrences
      BY <2>7, <3>2, <3>5 DEF IsLive, Slot
    <3> QED BY <3>1, <3>3, <3>4, <3>5
  <2>8. Owned(a)' \subseteq Owned(a)
    BY <2>7 DEF Owned
  <2> QED BY <1>1, <2>1, <2>8, PurgeKept
<1>11. ASSUME NEW w \in Wakes,
              \/ ObserveClaim(w) \/ Decide(w) \/ Initialize(w) \/ Execute(w)
              \/ HandshakeFails(w) \/ Result(w) \/ NoResult(w) \/ Recover(w)
              \/ Recovered(w) \/ Raise(w) \/ Runner(w) \/ Crash(w)
       PROVE  PurgeOk(a)'
  <2>1. UNCHANGED <<rec, repo>>
    BY <1>11
     DEF ObserveClaim, Decide, Initialize, Execute, HandshakeFails, Result, NoResult, Recover,
         Recovered, Raise, Runner, RunTurn, EndTurn, OrphanEnds, Crash
  <2> QED BY <1>2, <2>1
<1>12. CASE Time \/ UNCHANGED vars
  <2>1. UNCHANGED <<rec, repo>>
    BY <1>12 DEF Time, Tick, vars
  <2> QED BY <1>2, <2>1
<1> QED
  BY <1>3, <1>4, <1>5, <1>6, <1>7, <1>8, <1>9, <1>10, <1>11, <1>12
     DEF Next, UserStep, Begin, Go

-----------------------------------------------------------------------------
(* What the history says                                                   *)

\* An entry of the history of a is what happened to its occurrence.
EntryTrue(a, h) ==
  LET o == [auto |-> a, rev |-> h.rev, idx |-> h.idx]
  IN /\ h.out \in {"COMPLETED", "FAILED"} => (h.out = "COMPLETED" <=> file[o] = "COMPLETED")
     /\ h.out \in {"MISFIRE_SKIPPED", "CANCELED"} => turns[o] = 0

LEMMA TruthStep ==
  ASSUME Inv, HistInv, StepInv, RunnerInv, TurnSafe, FileInv, HistoryTrue, [Next]_vars
  PROVE  HistoryTrue'
<1> USE DEF Inv
<1>1. \A b \in Autos : \A i \in DOMAIN rec[b].hist : EntryTrue(b, rec[b].hist[i])
  BY DEF HistoryTrue, Entries, EntryTrue
<1>2. SUFFICES ASSUME NEW a \in Autos, NEW j \in DOMAIN rec'[a].hist,
                      NEW h, h = rec'[a].hist[j]
               PROVE  EntryTrue(a, h)'
  BY DEF HistoryTrue, Entries, EntryTrue
<1> DEFINE old == rec[a].hist
           new == rec'[a].hist
<1>3. rec[a] \in Records /\ old \in Seq(Outcomes)
  BY DEF RecordInv, Records
\* What it says of an occurrence that is settled stays so.
<1>4. ASSUME NEW i \in DOMAIN old, h = old[i]
      PROVE  EntryTrue(a, h)'
  <2>1. h \in Outcomes /\ old[i] = h
    BY <1>3, <1>4
  <2>2. PICK o \in Occurrences : o = [auto |-> a, rev |-> h.rev, idx |-> h.idx]
    BY <2>1 DEF Outcomes, Occurrences
  <2>3. EntryTrue(a, h)
    BY <1>1, <2>1
  <2>4. ~Holds(o)
    <3>1. SUFFICES ASSUME rec[a].claim = [rev |-> h.rev, idx |-> h.idx] PROVE FALSE
      BY <2>2 DEF Holds
    <3>2. h.rev \in Nat \ {0} /\ h.idx \in Nat
      BY <2>1 DEF Outcomes
    <3>3. rec[a].claim # NoClaim /\ rec[a].claim.rev = h.rev /\ rec[a].claim.idx = h.idx
      BY <3>1, <3>2 DEF NoClaim
    <3>4. Before(h, rec[a].claim)
      BY <2>1, <3>3 DEF HistInv, HistShape
    <3> QED BY <3>2, <3>3, <3>4 DEF Before
  <2>5. turns'[o] = turns[o]
    BY <2>4, TurnBegins
  <2>6. file'[o] = file[o]
    BY <2>4, FileChange
  <2> QED BY <2>2, <2>3, <2>5, <2>6 DEF EntryTrue
<1>5. CASE new \in {old, <<>>}
  <2>1. DOMAIN <<>> = {}
    OBVIOUS
  <2>2. new = old
    BY <1>2, <1>5, <2>1
  <2> QED BY <1>2, <1>4, <2>2
<1>6. ASSUME NEW w \in Wakes, Claim(w) \/ Dispatch(w) \/ Started(w)
      PROVE  new = old
  <2>1. PICK o \in Occurrences : Occ(w) = o
    BY <1>6, WorkingOcc DEF Claim, Dispatch, Started, At, Working
  <2> QED BY <1>6, <2>1, ClaimFacts, PhaseFacts DEF OnlyClaim
<1>7. ASSUME NEW w \in Wakes, RecordOutcome(w), new # old
      PROVE  EntryTrue(a, h)'
  <2>1. PICK o, out : o \in Occurrences /\ Occ(w) = o /\ wake[w].out = out
    BY <1>7, WorkingOcc DEF RecordOutcome, At, Working
  <2> DEFINE e == [rev |-> o.rev, idx |-> o.idx, out |-> out]
  <2>2. a = o.auto /\ Holds(o) /\ out \in SafeOutcomes /\ new = Append(old, e)
    BY <1>7, <2>1, OutcomeFacts
  <2>3. e \in Outcomes
    BY <2>1, <2>2 DEF Outcomes, Occurrences
  <2>4. UNCHANGED <<file, turns>>
    BY <1>7 DEF RecordOutcome, world
  <2>5. Sound(w, "record", o, out)
    BY <1>7, <2>1 DEF RecordOutcome, At, StepInv, StepOk
  <2>6. out \in {"CANCELED", "MISFIRE_SKIPPED"} => turns[o] = 0
    <3>1. SUFFICES ASSUME Phase(o) = "CLAIMED" PROVE turns[o] = 0
      BY <2>5 DEF Sound
    <3>2. ~Durable(o)
      BY <2>2, <3>1 DEF Durable, Phase
    <3>3. file[o] \in {"none", "fresh"}
      BY <2>1, <3>2 DEF FileInv, FileOk
    <3> QED BY <2>1, <3>3 DEF TurnInv
  <2>7. ASSUME h = e PROVE EntryTrue(a, h)'
    <3>1. [auto |-> a, rev |-> e.rev, idx |-> e.idx] = o /\ e.out = out
      BY <2>1, <2>2 DEF Occurrences
    <3> HIDE DEF e
    <3> QED BY <2>4, <2>5, <2>6, <2>7, <3>1 DEF EntryTrue, Sound, Ends
  <2>8. \/ j \in DOMAIN old /\ new[j] = old[j]
        \/ new[j] = e
    <3> HIDE DEF e, old, new
    <3>1. j \in 1..(Len(old) + 1) /\ Len(old) \in Nat /\ DOMAIN old = 1..Len(old)
      BY <1>2, <1>3, <2>2, <2>3 DEF new
    <3>2. CASE j = Len(old) + 1
      BY <1>3, <2>2, <2>3, <3>1, <3>2
    <3>3. CASE j # Len(old) + 1
      <4>1. j \in 1..Len(old)
        BY <3>1, <3>3
      <4> QED BY <1>3, <2>2, <2>3, <3>1, <4>1
    <3> QED BY <3>2, <3>3
  <2> QED BY <1>2, <1>4, <2>7, <2>8
<1>8. CASE SameClaims
  BY <1>5, <1>8 DEF SameClaims
<1> QED BY <1>5, <1>6, <1>7, <1>8, RecordCases

-----------------------------------------------------------------------------
(* The theorems about wakes that do not overlap                            *)

\* What is recorded, deleted and purged agrees with what the runs did, as long as
\* one wake is at work at a time.
LEMMA SoloWakes == Overlap = {} => (Spec => [](Inv /\ HistInv /\ SoloInv))
<1>1. Init => HistInv /\ SoloInv
  <2> SUFFICES ASSUME Init PROVE HistInv /\ SoloInv
    OBVIOUS
  <2>1. \A a \in Autos : rec[a] = Absent /\ DOMAIN rec[a].hist = {}
    BY DEF Init, RecordInit, Absent
  <2>2. \A w \in Wakes : wake[w] = Idle /\ run[w] = NoRun
    BY DEF Init
  <2>3. HistInv /\ HistoryTrue
    BY <2>1 DEF HistInv, HistShape, HistoryTrue, Entries
  <2>4. Alone /\ StepInv
    BY <2>2 DEF Alone, StepInv, StepOk, Sound, At, Idle
  <2>5. RunnerInv /\ StartInv /\ TurnSafe
    BY <2>2 DEF RunnerInv, StartInv, TurnSafe, NoRun
  <2>6. FileInv
    BY DEF Init, FileInv, FileOk
  <2>7. PurgeInv
    BY <2>1 DEF PurgeInv, PurgeOk, Absent, NoPurge
  <2> QED BY <2>3, <2>4, <2>5, <2>6, <2>7 DEF SoloInv
<1>2. Overlap = {} /\ Inv /\ HistInv /\ SoloInv /\ [Next]_vars => HistInv' /\ SoloInv'
  <2> SUFFICES ASSUME Overlap = {}, Inv, HistInv, SoloInv, [Next]_vars PROVE HistInv' /\ SoloInv'
    OBVIOUS
  <2>1. HistInv'
    BY HistoryStep DEF Inv
  <2>2. Alone' /\ RunnerInv'
    BY AloneStep, RunnerStep DEF Inv, SoloInv
  <2>3. StepInv' /\ StartInv' /\ TurnSafe'
    BY StepStep, StartStep, SafeStep DEF Inv, SoloInv
  <2>4. FileInv' /\ PurgeInv' /\ HistoryTrue'
    BY FileStep, PurgeStep, TruthStep DEF SoloInv
  <2> QED BY <2>1, <2>2, <2>3, <2>4 DEF SoloInv
<1> SUFFICES ASSUME Overlap = {} PROVE Spec => [](Inv /\ HistInv /\ SoloInv)
  OBVIOUS
<1>3. Inv /\ HistInv /\ SoloInv /\ [Next]_vars => HistInv' /\ SoloInv'
  BY <1>2
<1> QED BY RecordsAndWakes, <1>1, <1>3, PTL DEF Spec

\* The history says what happened: an occurrence that is recorded as completed
\* ended so in its own checkpoint, one that is recorded as failed did not and never
\* will, and a skipped or cancelled one was never started
\* (_record_occurrence_outcome, _reconcile_active, _report).
THEOREM HistoryIsTrue == Overlap = {} => (Spec => []HistoryTrue)
<1>1. SoloInv => HistoryTrue
  BY DEF SoloInv
<1> QED BY SoloWakes, <1>1, PTL

\* A workspace is not deleted under a turn that is at work in it: a turn keeps its
\* claim, the claim keeps the workspace, and an end is told when no runner is left
\* (_capture_and_cleanup).
THEOREM WorkspacesAreKept == Overlap = {} => (Spec => []WorkspaceKept)
<1>1. SoloInv => WorkspaceKept
  BY DEF SoloInv, TurnSafe, WorkspaceKept
<1> QED BY SoloWakes, <1>1, PTL

\* A purged automation owns nothing: the manifest of its purge names all there
\* is, and no wake adds to it (confirm_purge, _finish_purge).
THEOREM PurgedIsEmpty == Overlap = {} => (Spec => []PurgedOwnsNothing)
<1>1. SoloInv => PurgedOwnsNothing
  BY DEF SoloInv, PurgeInv, PurgeOk, PurgedOwnsNothing
<1> QED BY SoloWakes, <1>1, PTL
=============================================================================
